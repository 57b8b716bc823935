-------------------------- MODULE TlsServiceProofs --------------------------
(***************************************************************************)
(* TlsService's safety for any number of concurrent requests, any names    *)
(* and rules, any lifetimes, and however the wall clock is set.            *)
(***************************************************************************)
EXTENDS TlsService, TLAPS

\* What is known of a certificate: its window, and how the clocks relate to it
\* as long as the wall clock was not set.
CertOK(c) ==
    /\ c \in Certificates
    /\ c.epoch <= epoch /\ c.signed <= mono
    /\ RootFrom <= c.from /\ c.from <= c.made
    /\ c.to <= RootTo /\ (c.to = RootTo \/ c.to = c.made + Leaf)
    /\ c.epoch = epoch => wall - mono = c.made - c.signed

\* What a request has established on its way.
WayOK(q) ==
    /\ q.pc \notin {"idle", "done"} =>
         q.name \in Names /\ Sights \subseteq q.seen /\ (q.ask \/ q.schemes \in Schemes)
    /\ q.pc \in {"local", "name", "cache", "key", "store"} =>
         "rndis" \in q.seen /\ q.name # BadName /\ (configured => allows(q.name))
    /\ q.pc \in {"local", "name"} => ~configured
    /\ q.pc \in {"local", "cache", "key", "store"} => ~q.ask
    /\ q.pc \in {"cache", "key", "store"} =>
         (~configured /\ q.name \in Addrs => q.name \in q.seen)

LockOK(q) ==
    /\ q.pc \in {"key", "store"} =>
         /\ q.since <= epoch
         /\ q.since = epoch => ~Fresh(cert_cache[cacheKey(q)])
    /\ q.pc = "store" =>
         /\ q.schemes \in Suited /\ CertOK(q.cert)
         /\ q.cert.name = q.name /\ q.cert.schemes = q.schemes
         /\ mono <= q.cert.signed + SignMax

Ways == \A r \in Requests : WayOK(request[r])
Holds == \A r \in Requests : LockOK(request[r])
Locked == \A r \in Requests : request[r].pc \in {"key", "store"} => cache_lock = r

EntryOK(k, e) ==
    /\ CertOK(e.cert)
    /\ k = <<e.cert.name, e.cert.schemes>> /\ e.cert.schemes \in Suited
    /\ e.cert.epoch = epoch =>
         IF e.expires_at.monotonic
         THEN /\ e.expires_at.at <= e.cert.signed + SignMax + Leaf
              /\ e.cert.made + Leaf <= e.cert.to
         ELSE e.expires_at.at <= e.cert.to + SignMax

Cached == \A k \in Keys : cert_cache[k] # None => EntryOK(k, cert_cache[k])

Answer ==
    /\ ServedIsValid
    /\ ServedFits
    /\ ServedWasEntitled

IInv ==
    /\ TypeOK
    /\ Ways
    /\ Holds
    /\ Locked
    /\ Cached
    /\ Answer

-----------------------------------------------------------------------------
LEMMA InactiveTyped ==
    ASSUME NEW pc \in {"idle", "done"}
    PROVE  Inactive(pc) \in RequestStates /\ Inactive(pc).pc = pc
  BY DEF Inactive, RequestStates, Steps

LEMMA InitOK == Init => IInv
  <1> SUFFICES ASSUME Init PROVE IInv
    OBVIOUS
  <1>1. request \in [Requests -> RequestStates] /\ \A r \in Requests : request[r].pc = "idle"
    BY InactiveTyped DEF Init
  <1>2. TypeOK
    BY <1>1 DEF Init, TypeOK, At
  <1>3. Ways /\ Holds /\ Locked
    BY <1>1 DEF Ways, Holds, Locked, WayOK, LockOK
  <1>4. Cached
    BY DEF Cached, Init
  <1>5. Answer
    BY DEF Init, Answer, ServedIsValid, ServedFits, ServedWasEntitled,
           Served
  <1> QED BY <1>2, <1>3, <1>4, <1>5 DEF IInv

LEMMA SilentOK ==
    ASSUME Silent
    PROVE  Answer'
  BY DEF Silent, Answer, ServedIsValid, ServedFits,
         ServedWasEntitled, Served

\* A step of one request that leaves the rest alone.
LEMMA OneRequest ==
    ASSUME IInv, NEW r \in Requests, NEW q \in RequestStates,
           UNCHANGED <<daemon, clock, cert_cache>>,
           request' = [request EXCEPT ![r] = q],
           WayOK(q), LockOK(q), q.pc = "store" => q.name \in Addrs \cup Domains,
           cache_lock' \in Requests \cup {None},
           q.pc \in {"key", "store"} => cache_lock' = r,
           \A x \in Requests \ {r} : cache_lock = x => cache_lock' = x,
           Answer'
    PROVE  IInv'
  <1> USE DEF IInv
  <1>1. /\ UNCHANGED <<current_mode_rndis, owned, tls_allow, mono, wall, epoch, cert_cache>>
    BY DEF daemon, clock
  <1>2. /\ request' \in [Requests -> RequestStates]
        /\ request'[r] = q
        /\ \A x \in Requests \ {r} : request'[x] = request[x]
    BY DEF TypeOK
  <1>3. TypeOK'
    BY <1>1, <1>2 DEF TypeOK, At
  <1>4. Ways'
    <2> SUFFICES ASSUME NEW x \in Requests PROVE WayOK(request[x])'
      BY DEF Ways
    <2>1. CASE x = r
      BY <1>1, <1>2, <2>1 DEF WayOK, Sights, configured, allows
    <2>2. CASE x # r
      BY <1>1, <1>2, <2>2 DEF Ways, WayOK, Sights, configured, allows
    <2> QED BY <2>1, <2>2
  <1>5. Holds'
    <2> SUFFICES ASSUME NEW x \in Requests PROVE LockOK(request[x])'
      BY DEF Holds
    <2>1. CASE x = r
      BY <1>1, <1>2, <2>1 DEF LockOK, CertOK, Fresh, Until, cacheKey
    <2>2. CASE x # r
      BY <1>1, <1>2, <2>2 DEF Holds, LockOK, CertOK, Fresh, Until, cacheKey
    <2> QED BY <2>1, <2>2
  <1>6. Locked'
    BY <1>2 DEF Locked
  <1>7. Cached'
    BY <1>1 DEF Cached, EntryOK, CertOK
  <1> QED BY <1>3, <1>4, <1>5, <1>6, <1>7

LEMMA InactiveOK ==
    ASSUME NEW pc \in {"idle", "done"}
    PROVE  WayOK(Inactive(pc)) /\ LockOK(Inactive(pc))
  BY InactiveTyped DEF WayOK, LockOK

LEMMA RefuseOK ==
    ASSUME IInv, NEW r \in Requests, Refuse(r),
           UNCHANGED <<daemon, clock, cert_cache>>,
           cache_lock' \in Requests \cup {None},
           \A x \in Requests \ {r} : cache_lock = x => cache_lock' = x
    PROVE  IInv'
  BY OneRequest, InactiveTyped, InactiveOK, SilentOK DEF Refuse

LEMMA GotoOK ==
    ASSUME IInv, NEW r \in Requests, NEW pc \in {"local", "name", "cache"}, Goto(r, pc),
           UNCHANGED <<daemon, clock, cert_cache, cache_lock>>,
           WayOK([request[r] EXCEPT !.pc = pc])
    PROVE  IInv'
  <1> DEFINE q == [request[r] EXCEPT !.pc = pc]
  <1>1. q \in RequestStates /\ q.pc = pc
    BY DEF IInv, TypeOK, RequestStates, Steps
  <1>2. LockOK(q)
    BY <1>1 DEF LockOK
  <1>3. request' = [request EXCEPT ![r] = q] /\ Answer'
    BY SilentOK DEF Goto
  <1>4. cache_lock' \in Requests \cup {None}
    BY DEF IInv, TypeOK
  <1> QED BY <1>1, <1>2, <1>3, <1>4, OneRequest

\* An answer without certificate, and one with.
LEMMA ServeOK ==
    ASSUME IInv, NEW r \in Requests, NEW c, Serve(r, c),
           UNCHANGED <<daemon, clock>>,
           "rndis" \in request[r].seen,
           configured => allows(request[r].name),
           ~configured /\ request[r].name \in Addrs => request[r].name \in request[r].seen,
           c # None => /\ RootFrom <= c.from /\ c.to <= RootTo
                       /\ c.name = request[r].name /\ c.schemes = request[r].schemes
                       /\ request[r].schemes \in Suited
                       /\ \/ c.from <= wall /\ wall <= c.to
                          \/ c.epoch # epoch
                          \/ wall > RootTo
    PROVE  Answer'
  <1>1. /\ answer'.name = request[r].name /\ answer'.schemes = request[r].schemes
        /\ answer'.seen = request[r].seen /\ answer'.cert = c
        /\ answer'.at = wall /\ answer'.epoch = epoch
    BY DEF Serve
  <1>2. ServedIsValid' /\ ServedFits'
    BY <1>1 DEF ServedIsValid, ServedFits, Served
  <1>3. tls_allow' = tls_allow
    BY DEF daemon
  <1>4. ServedWasEntitled'
    BY <1>1, <1>3 DEF ServedWasEntitled, configured, allows
  <1> QED BY <1>2, <1>4 DEF Answer

-----------------------------------------------------------------------------
(* The steps of a request.                                                 *)

LEMMA BeginOK ==
    ASSUME IInv, NEW r \in Requests, Ask(r) \/ Generate(r) \/ BadRequest(r)
    PROVE  IInv'
  <1>1. cache_lock \in Requests \cup {None} /\ owned \subseteq Addrs
    BY DEF IInv, TypeOK
  <1>2. ASSUME NEW ask \in BOOLEAN, NEW local \in Addrs \cup {None}, NEW name \in Names,
               NEW schemes \in Schemes \cup {None}, ask \/ schemes \in Schemes,
               Begin(r, ask, local, name, schemes)
        PROVE  IInv'
    <2> DEFINE q == [pc |-> "mode", ask |-> ask, local |-> local, name |-> name,
                     schemes |-> schemes, cert |-> None, since |-> 0, seen |-> Sights]
    <2>1. Sights \in SUBSET (Addrs \cup {"rndis"})
      BY <1>1 DEF Sights
    <2>2. q \in RequestStates /\ q.pc = "mode"
      BY <2>1 DEF RequestStates, Steps
    <2>3. WayOK(q) /\ LockOK(q)
      BY <1>2, <2>2 DEF WayOK, LockOK
    <2>4. /\ request' = [request EXCEPT ![r] = q] /\ Answer' /\ cache_lock' = cache_lock
          /\ UNCHANGED <<daemon, clock, cert_cache>>
      BY <1>2, SilentOK DEF Begin
    <2> HIDE DEF q
    <2> QED BY <1>1, <2>2, <2>3, <2>4, OneRequest
  <1>3. CASE Ask(r)
    BY <1>2, <1>3 DEF Ask
  <1>4. CASE Generate(r)
    BY <1>2, <1>4 DEF Generate
  <1>5. CASE BadRequest(r)
    <2>1. Refuse(r) /\ UNCHANGED <<daemon, clock, cert_cache>> /\ cache_lock' = cache_lock
      BY <1>5 DEF BadRequest
    <2> QED BY <1>1, <2>1, RefuseOK
  <1> QED BY <1>3, <1>4, <1>5

LEMMA AdmittedOK ==
    ASSUME IInv, NEW r \in Requests, Admitted(r),
           UNCHANGED <<daemon, clock, cert_cache, cache_lock>>,
           request[r].pc \in {"mode", "local", "name"},
           request[r].name # BadName, "rndis" \in request[r].seen,
           configured => allows(request[r].name),
           ~configured /\ request[r].name \in Addrs => request[r].name \in request[r].seen
    PROVE  IInv'
  <1>1. request[r] \in RequestStates /\ cache_lock \in Requests \cup {None}
    BY DEF IInv, TypeOK
  <1>2. CASE request[r].ask
    <2>1. Serve(r, None)
      BY <1>2 DEF Admitted
    <2>2. Answer'
      BY <2>1, ServeOK
    <2> QED BY <1>1, <2>1, <2>2, OneRequest, InactiveTyped, InactiveOK DEF Serve
  <1>3. CASE ~request[r].ask
    <2>1. Goto(r, "cache")
      BY <1>3 DEF Admitted
    <2>2. WayOK([request[r] EXCEPT !.pc = "cache"])
      BY <1>1, <1>3 DEF IInv, Ways, WayOK, RequestStates
    <2> QED BY <2>1, <2>2, GotoOK
  <1> QED BY <1>2, <1>3

LEMMA ChecksOK ==
    ASSUME IInv, NEW r \in Requests, Checks(r)
    PROVE  IInv'
  <1> DEFINE q == request[r]
  <1>1. q \in RequestStates /\ cache_lock \in Requests \cup {None} /\ WayOK(q)
        /\ current_mode_rndis \in BOOLEAN
    BY DEF IInv, TypeOK, Ways
  <1>2. UNCHANGED <<daemon, clock, cert_cache, cache_lock>>
    BY DEF Checks, CheckMode, CheckLocal, CheckName
  <1>3. CASE Refuse(r)
    BY <1>1, <1>2, <1>3, RefuseOK
  <1>4. CASE CheckMode(r) /\ ~Refuse(r)
    <2>1. q.pc = "mode" /\ Admissible(q)
      BY <1>4 DEF CheckMode, At
    <2>2. "rndis" \in q.seen
      BY <1>1, <2>1 DEF WayOK, Sights, Admissible, is_current_rndis_mode
    <2>3. q.name # BadName /\ q.name \in Names /\ (configured => allows(q.name))
          /\ (~configured /\ q.ask => q.name \in Addrs)
      BY <1>1, <2>1 DEF WayOK, Admissible, valid_certificate_name
    <2>4. CASE configured
      <3>1. Admitted(r)
        BY <1>4, <2>4 DEF CheckMode
      <3> QED BY <1>2, <2>1, <2>2, <2>3, <2>4, <3>1, AdmittedOK
    <2>5. CASE ~configured /\ q.ask
      <3>1. Goto(r, "name")
        BY <1>4, <2>5 DEF CheckMode
      <3>2. WayOK([q EXCEPT !.pc = "name"])
        BY <1>1, <2>1, <2>2, <2>3, <2>5 DEF WayOK, RequestStates
      <3> QED BY <1>2, <3>1, <3>2, GotoOK
    <2>6. CASE ~configured /\ ~q.ask
      <3>1. Goto(r, "local")
        BY <1>4, <2>6 DEF CheckMode
      <3>2. WayOK([q EXCEPT !.pc = "local"])
        BY <1>1, <2>1, <2>2, <2>3, <2>6 DEF WayOK, RequestStates
      <3> QED BY <1>2, <3>1, <3>2, GotoOK
    <2> QED BY <2>4, <2>5, <2>6
  <1>5. CASE CheckLocal(r) /\ ~Refuse(r)
    <2>1. q.pc = "local"
      BY <1>5 DEF CheckLocal, At
    <2>2. CASE q.name \in Addrs
      <3>1. Goto(r, "name")
        BY <1>5, <2>2 DEF CheckLocal
      <3>2. WayOK([q EXCEPT !.pc = "name"])
        BY <1>1, <2>1, <2>2 DEF WayOK, RequestStates
      <3> QED BY <1>2, <3>1, <3>2, GotoOK
    <2>3. CASE q.name \notin Addrs
      <3>1. Goto(r, "cache")
        BY <1>5, <2>3 DEF CheckLocal
      <3>2. WayOK([q EXCEPT !.pc = "cache"])
        BY <1>1, <2>1, <2>3 DEF WayOK, RequestStates
      <3> QED BY <1>2, <3>1, <3>2, GotoOK
    <2> QED BY <2>2, <2>3
  <1>6. CASE CheckName(r) /\ ~Refuse(r)
    <2>1. q.pc = "name" /\ rndis_owns_ip(q.name) /\ Admitted(r)
      BY <1>6 DEF CheckName, At
    <2>2. q.name \in q.seen
      BY <1>1, <2>1 DEF WayOK, Sights, rndis_owns_ip
    <2> QED BY <1>1, <1>2, <2>1, <2>2, AdmittedOK DEF WayOK
  <1> QED BY <1>3, <1>4, <1>5, <1>6 DEF Checks

\* Why the cache's margin suffices: the entry's time is at most SignMax later
\* than the certificate's.
LEMMA HitIsValid ==
    ASSUME IInv, NEW k \in Keys, Fresh(cert_cache[k])
    PROVE  LET c == cert_cache[k].cert IN
           (c.from <= wall /\ wall <= c.to) \/ c.epoch # epoch
  <1> DEFINE e == cert_cache[k]
  <1>1. e \in Entries /\ e # None /\ EntryOK(k, e)
    BY DEF Fresh, IInv, TypeOK, Cached
  <1>2. mono \in Nat /\ wall \in Nat
    BY DEF IInv, TypeOK
  <1>3. e.cert \in Certificates /\ e.expires_at \in [monotonic : BOOLEAN, at : Nat]
    BY <1>1 DEF Entries
  <1>4. e.expires_at.at - (IF e.expires_at.monotonic THEN mono ELSE wall) > Margin
    BY DEF Fresh, Until
  <1>5. SUFFICES ASSUME e.cert.epoch = epoch
                 PROVE  e.cert.from <= wall /\ wall <= e.cert.to
    OBVIOUS
  <1>6. e.cert.from <= wall
    BY <1>1, <1>2, <1>3, <1>5 DEF EntryOK, CertOK, Certificates
  <1>7. CASE e.expires_at.monotonic
    BY <1>1, <1>2, <1>3, <1>4, <1>5, <1>7, TimesAssumption DEF EntryOK, CertOK, Certificates
  <1>8. CASE ~e.expires_at.monotonic
    BY <1>1, <1>2, <1>3, <1>4, <1>5, <1>8, TimesAssumption DEF EntryOK, CertOK, Certificates
  <1> QED BY <1>6, <1>7, <1>8

LEMMA AnswersOK ==
    ASSUME IInv, NEW r \in Requests, Answers(r)
    PROVE  IInv'
  <1> DEFINE q == request[r]
             k == cacheKey(q)
  <1>1. /\ q \in RequestStates /\ cache_lock \in Requests \cup {None} /\ WayOK(q)
        /\ cert_cache \in [Keys -> Entries \cup {None}] /\ epoch \in Nat
        /\ q.pc = "cache" /\ cache_lock = None
        /\ UNCHANGED <<daemon, clock, cert_cache>>
    BY DEF IInv, TypeOK, Ways, Answers, CacheHit, CacheMiss, At
  <1>2. k \in Keys
    BY <1>1 DEF WayOK, cacheKey, Keys
  <1>3. CASE CacheHit(r)
    <2> DEFINE c == cert_cache[k].cert
    <2>1. Fresh(cert_cache[k]) /\ Serve(r, c) /\ cache_lock' = cache_lock
      BY <1>3 DEF CacheHit
    <2>2. EntryOK(k, cert_cache[k])
      BY <1>2, <2>1 DEF Fresh, IInv, Cached
    <2>3. c.name = q.name /\ c.schemes = q.schemes /\ q.schemes \in Suited
      BY <2>2 DEF EntryOK, cacheKey
    <2>4. (c.from <= wall /\ wall <= c.to) \/ c.epoch # epoch
      BY <1>2, <2>1, HitIsValid
    <2>5. RootFrom <= c.from /\ c.to <= RootTo
      BY <2>2 DEF EntryOK, CertOK
    <2>6. Answer'
      BY <1>1, <2>1, <2>3, <2>4, <2>5, ServeOK DEF WayOK
    <2> QED BY <1>1, <2>1, <2>6, OneRequest, InactiveTyped, InactiveOK DEF Serve
  <1>4. CASE CacheMiss(r) /\ Refuse(r)
    BY <1>1, <1>4, RefuseOK, NamesAssumption DEF CacheMiss, Lock
  <1>5. CASE CacheMiss(r) /\ ~Refuse(r)
    <2> DEFINE p == [q EXCEPT !.pc = "key", !.since = epoch]
    <2>1. /\ ~Fresh(cert_cache[k]) /\ Silent /\ cache_lock' = r
          /\ request' = [request EXCEPT ![r] = p]
      BY <1>5 DEF CacheMiss, Lock
    <2>2. p \in RequestStates /\ p.pc = "key" /\ p.since = epoch /\ p.name = q.name
          /\ p.schemes = q.schemes /\ p.seen = q.seen /\ p.ask = q.ask
      BY <1>1 DEF RequestStates, Steps
    <2>3. WayOK(p)
      BY <1>1, <2>2 DEF WayOK
    <2>4. LockOK(p)
      BY <1>1, <2>1, <2>2 DEF LockOK, cacheKey
    <2>5. Answer'
      BY <2>1, SilentOK
    <2> HIDE DEF p
    <2> QED BY <1>1, <2>1, <2>2, <2>3, <2>4, <2>5, OneRequest, NamesAssumption
  <1> QED BY <1>3, <1>4, <1>5 DEF Answers

LEMMA IssueOK ==
    ASSUME IInv, NEW r \in Requests, IssueFails(r) \/ Issue(r)
    PROVE  IInv'
  <1> DEFINE q == request[r]
  <1>1. /\ q \in RequestStates /\ cache_lock \in Requests \cup {None} /\ WayOK(q) /\ LockOK(q)
        /\ mono \in Nat /\ wall \in Nat /\ epoch \in Nat
        /\ q.pc = "key" /\ cache_lock = r
        /\ UNCHANGED <<daemon, clock, cert_cache>>
    BY DEF IInv, TypeOK, Ways, Holds, Locked, IssueFails, Issue, At
  <1>2. CASE IssueFails(r)
    BY <1>1, <1>2, RefuseOK DEF IssueFails, Unlock
  <1>3. CASE Issue(r)
    <2> DEFINE c == [name |-> q.name, schemes |-> q.schemes, from |-> notBefore,
                     to |-> notAfter, signed |-> mono, made |-> wall, epoch |-> epoch]
               p == [q EXCEPT !.pc = "store", !.cert = c]
    <2>1. /\ q.schemes \in Suited /\ RootFrom <= wall /\ Silent /\ cache_lock' = r
          /\ request' = [request EXCEPT ![r] = p]
      BY <1>1, <1>3 DEF Issue
    <2>2. q.name \in Names /\ q.schemes \in Schemes /\ q.name # BadName
      BY <1>1 DEF WayOK
    <2>3. notBefore \in Int /\ notAfter \in Int /\ RootFrom <= notBefore /\ notBefore <= wall
          /\ notAfter <= RootTo /\ (notAfter = RootTo \/ notAfter = wall + Leaf)
      BY <1>1, <2>1, TimesAssumption DEF notBefore, notAfter, Min2, Max2
    <2>4. c \in Certificates
      BY <1>1, <2>2, <2>3 DEF Certificates
    <2>5. CertOK(c)
      BY <1>1, <2>3, <2>4 DEF CertOK
    <2>6. mono <= c.signed + SignMax /\ c.name = q.name /\ c.schemes = q.schemes
      BY <1>1, TimesAssumption
    <2> HIDE DEF c
    <2>7. p \in RequestStates /\ p.pc = "store" /\ p.since = q.since /\ p.name = q.name
          /\ p.schemes = q.schemes /\ p.seen = q.seen /\ p.ask = q.ask /\ p.cert = c
      BY <1>1, <2>4 DEF RequestStates, Steps
    <2>8. WayOK(p)
      BY <1>1, <2>7 DEF WayOK
    <2>9. LockOK(p)
      BY <1>1, <2>1, <2>5, <2>6, <2>7 DEF LockOK, cacheKey
    <2>10. Answer'
      BY <2>1, SilentOK
    <2>11. p.name \in Addrs \cup Domains
      BY <2>2, <2>7 DEF Names
    <2> HIDE DEF p
    <2> QED BY <1>1, <2>1, <2>7, <2>8, <2>9, <2>10, <2>11, OneRequest
  <1> QED BY <1>2, <1>3

LEMMA StoreOK ==
    ASSUME IInv, NEW r \in Requests, Store(r)
    PROVE  IInv'
  <1> DEFINE q == request[r]
             c == q.cert
             k == cacheKey(q)
             e == [cert |-> c, expires_at |-> expires_at]
  <1>1. /\ q \in RequestStates /\ WayOK(q) /\ LockOK(q) /\ TypeOK
        /\ mono \in Nat /\ wall \in Nat /\ epoch \in Nat
        /\ q.pc = "store" /\ cache_lock = r
    BY DEF IInv, TypeOK, Ways, Holds, Locked, Store, At
  <1>2. /\ UNCHANGED <<current_mode_rndis, owned, tls_allow, mono, wall, epoch>>
        /\ UNCHANGED <<daemon, clock>>
        /\ cache_lock' = None /\ Serve(r, c)
        /\ cert_cache' = [cert_cache EXCEPT ![k] = e]
    BY DEF Store, daemon, clock
  <1>3. CertOK(c) /\ c \in Certificates /\ c.name = q.name /\ c.schemes = q.schemes
        /\ q.schemes \in Suited /\ mono <= c.signed + SignMax
    BY <1>1 DEF LockOK, CertOK
  <1>4. k \in Keys
    BY <1>1 DEF WayOK, cacheKey, Keys
  <1>5. expires_at \in [monotonic : BOOLEAN, at : Nat]
    BY <1>1, TimesAssumption DEF expires_at
  <1>6. e \in Entries
    BY <1>3, <1>5 DEF Entries
  <1>7. request' \in [Requests -> RequestStates] /\ request'[r].pc = "done"
        /\ \A x \in Requests \ {r} : request'[x] = request[x]
    BY <1>1, <1>2, InactiveTyped DEF Serve, TypeOK
  <1>8. TypeOK'
    <2>1. cert_cache' \in [Keys -> Entries \cup {None}]
      BY <1>1, <1>2, <1>6 DEF TypeOK
    <2> QED BY <1>1, <1>2, <1>7, <2>1 DEF TypeOK, At
  <1>9. Ways'
    <2> SUFFICES ASSUME NEW x \in Requests PROVE WayOK(request[x])'
      BY DEF Ways
    <2>1. CASE x = r
      BY <1>7, <2>1 DEF WayOK
    <2>2. CASE x # r
      BY <1>2, <1>7, <2>2 DEF IInv, Ways, WayOK, Sights, configured, allows
    <2> QED BY <2>1, <2>2
  <1>10. \A x \in Requests : request'[x].pc \notin {"key", "store"}
    BY <1>1, <1>7 DEF IInv, Locked
  <1>11. Holds' /\ Locked'
    BY <1>10 DEF Holds, LockOK, Locked
  <1>12. Cached'
    <2> SUFFICES ASSUME NEW l \in Keys, cert_cache'[l] # None
                 PROVE  EntryOK(l, cert_cache[l])'
      BY DEF Cached
    <2>1. CASE l # k
      BY <1>1, <1>2, <2>1 DEF IInv, Cached, EntryOK, CertOK, TypeOK
    <2>2. CASE l = k
      <3>1. cert_cache'[l] = e /\ e.cert = c /\ e.expires_at = expires_at
        BY <1>1, <1>2, <1>4, <2>2 DEF TypeOK
      <3>2. k = <<c.name, c.schemes>> /\ c.schemes \in Suited
        BY <1>3 DEF cacheKey
      <3>3. ASSUME c.epoch = epoch
            PROVE  IF expires_at.monotonic
                   THEN /\ expires_at.at <= c.signed + SignMax + Leaf
                        /\ c.made + Leaf <= c.to
                   ELSE expires_at.at <= c.to + SignMax
        <4>1. /\ wall - mono = c.made - c.signed /\ c.signed <= mono /\ c.signed \in Nat
              /\ c.made \in Nat /\ c.to \in Int
              /\ (c.to = RootTo \/ c.to = c.made + Leaf)
          BY <1>3, <3>3 DEF CertOK, Certificates
        <4>2. CASE RootTo < wall + Leaf
          <5>1. expires_at.monotonic = FALSE /\ expires_at.at = RootTo
            BY <4>2 DEF expires_at
          <5>2. RootTo <= c.to + SignMax
            BY <1>1, <1>3, <4>1, <4>2, TimesAssumption
          <5> QED BY <5>1, <5>2
        <4>3. CASE ~(RootTo < wall + Leaf)
          <5>1. expires_at.monotonic = TRUE /\ expires_at.at = mono + Leaf
            BY <4>3 DEF expires_at
          <5>2. mono + Leaf <= c.signed + SignMax + Leaf /\ c.made + Leaf <= c.to
            BY <1>1, <1>3, <4>1, <4>3, TimesAssumption
          <5> QED BY <5>1, <5>2
        <4> QED BY <4>2, <4>3
      <3>4. CertOK(c)
        BY <1>3
      <3> HIDE DEF e, c, k
      <3> QED BY <1>2, <2>2, <3>1, <3>2, <3>3, <3>4 DEF EntryOK, CertOK
    <2> QED BY <2>1, <2>2
  <1>13. Answer'
    <2>1. ASSUME c.epoch = epoch, wall <= RootTo PROVE c.from <= wall /\ wall <= c.to
      BY <1>1, <1>3, <2>1, TimesAssumption DEF CertOK, Certificates
    <2>2. wall > RootTo \/ wall <= RootTo
      BY <1>1, TimesAssumption
    <2>3. RootFrom <= c.from /\ c.to <= RootTo
      BY <1>3 DEF CertOK
    <2>4. /\ "rndis" \in q.seen /\ (configured => allows(q.name))
          /\ (~configured /\ q.name \in Addrs => q.name \in q.seen)
      BY <1>1 DEF WayOK
    <2> QED BY <1>2, <1>3, <2>1, <2>2, <2>3, <2>4, ServeOK
  <1> QED BY <1>8, <1>9, <1>11, <1>12, <1>13 DEF IInv

-----------------------------------------------------------------------------
(* The daemon and the clocks.                                              *)

LEMMA DaemonOK ==
    ASSUME IInv, ModeChanges \/ AddressesChange
    PROVE  IInv'
  <1>1. TypeOK
    BY DEF IInv
  <1>2. /\ UNCHANGED <<tls_allow, mono, wall, epoch, cache_lock, cert_cache>>
        /\ Silent
    BY DEF ModeChanges, AddressesChange, clock
  <1>3. PICK sights \in SUBSET (Addrs \cup {"rndis"}) :
           Witnessed(sights) /\ Sights' \subseteq Sights \cup sights
    BY <1>1 DEF ModeChanges, AddressesChange, Sights, TypeOK
  <1>4. current_mode_rndis' \in BOOLEAN /\ owned' \subseteq Addrs
    BY <1>1 DEF ModeChanges, AddressesChange, TypeOK
  <1>5. ASSUME NEW r \in Requests
        PROVE  /\ request'[r] \in RequestStates
               /\ request'[r].pc = request[r].pc /\ request'[r].ask = request[r].ask
               /\ request'[r].name = request[r].name /\ request'[r].cert = request[r].cert
               /\ request'[r].schemes = request[r].schemes
               /\ request'[r].since = request[r].since
               /\ request[r].seen \subseteq request'[r].seen
               /\ request[r].pc \notin {"idle", "done"} => sights \subseteq request'[r].seen
    <2>1. request[r] \in RequestStates
      BY <1>1 DEF TypeOK
    <2>2. CASE request[r].pc \in {"idle", "done"}
      BY <1>3, <2>1, <2>2 DEF Witnessed, At
    <2>3. CASE request[r].pc \notin {"idle", "done"}
      <3>1. request'[r] = [request[r] EXCEPT !.seen = @ \cup sights]
        BY <1>3, <2>3 DEF Witnessed, At
      <3>2. request'[r] = [request[r] EXCEPT !.seen = request[r].seen \cup sights]
        BY <3>1
      <3>3. request[r].seen \cup sights \in SUBSET (Addrs \cup {"rndis"})
        BY <2>1 DEF RequestStates
      <3> QED BY <2>1, <3>2, <3>3 DEF RequestStates
    <2> QED BY <2>2, <2>3
  <1>6. TypeOK'
    <2>1. request' \in [Requests -> RequestStates]
      BY <1>3, <1>5 DEF Witnessed
    <2> QED BY <1>1, <1>2, <1>4, <1>5, <2>1 DEF TypeOK, At
  <1>7. Ways'
    <2> SUFFICES ASSUME NEW r \in Requests PROVE WayOK(request[r])'
      BY DEF Ways
    <2>1. WayOK(request[r])
      BY DEF IInv, Ways
    <2>2. request[r].pc \notin {"idle", "done"} => Sights' \subseteq request'[r].seen
      BY <1>3, <1>5, <2>1 DEF WayOK
    <2> QED BY <1>2, <1>5, <2>1, <2>2 DEF WayOK, configured, allows
  <1>8. Holds'
    BY <1>2, <1>5 DEF IInv, Holds, LockOK, CertOK, Fresh, Until, cacheKey
  <1>9. Locked'
    BY <1>2, <1>5 DEF IInv, Locked
  <1>10. Cached'
    BY <1>2 DEF IInv, Cached, EntryOK, CertOK
  <1> QED BY <1>2, <1>6, <1>7, <1>8, <1>9, <1>10, SilentOK DEF IInv

\* Time takes freshness away and nothing else; setting the clock ends what is
\* known of the certificates signed before.
LEMMA ClockOK ==
    ASSUME IInv, Elapse \/ SetClock
    PROVE  IInv'
  <1>1. TypeOK /\ mono \in Nat /\ wall \in Nat /\ epoch \in Nat
    BY DEF IInv, TypeOK
  <1>2. /\ UNCHANGED <<current_mode_rndis, owned, tls_allow, request, cache_lock, cert_cache>>
        /\ Silent
    BY DEF Elapse, SetClock, daemon
  <1>3. \/ epoch' = epoch /\ mono' = mono + 1 /\ wall' = wall + 1
        \/ epoch' = epoch + 1 /\ mono' = mono /\ wall' \in Nat
    BY TimesAssumption DEF Elapse, SetClock
  <1>4. mono' \in Nat /\ wall' \in Nat /\ epoch' \in Nat /\ mono <= mono' /\ epoch <= epoch'
    BY <1>1, <1>3
  <1>5. \A c : CertOK(c) => CertOK(c)'
    <2> SUFFICES ASSUME NEW c, CertOK(c) PROVE CertOK(c)'
      OBVIOUS
    <2> QED BY <1>1, <1>3 DEF CertOK, Certificates
  <1>6. ASSUME NEW l \in Keys, epoch' = epoch, ~Fresh(cert_cache[l])
        PROVE  ~Fresh(cert_cache[l])'
    <2>1. CASE cert_cache[l] = None
      BY <1>2, <2>1 DEF Fresh
    <2>2. CASE cert_cache[l] # None
      <3>1. cert_cache[l].expires_at \in [monotonic : BOOLEAN, at : Nat]
        BY <1>1, <2>2 DEF TypeOK, Entries
      <3>2. mono' = mono + 1 /\ wall' = wall + 1
        BY <1>1, <1>3, <1>6
      <3> QED BY <1>1, <1>2, <1>6, <2>2, <3>1, <3>2, TimesAssumption DEF Fresh, Until
    <2> QED BY <2>1, <2>2
  <1>7. TypeOK'
    BY <1>1, <1>2, <1>4 DEF TypeOK, At
  <1>8. Ways' /\ Locked'
    BY <1>2 DEF IInv, Ways, WayOK, Locked, Sights, configured, allows
  <1>9. Holds'
    <2> SUFFICES ASSUME NEW r \in Requests PROVE LockOK(request[r])'
      BY DEF Holds
    <2> DEFINE q == request[r]
    <2>1. q' = q /\ q \in RequestStates /\ LockOK(q) /\ WayOK(q)
      BY <1>1, <1>2 DEF IInv, Holds, TypeOK, Ways
    <2>2. q.pc \in {"key", "store"} => cacheKey(q) \in Keys
      BY <2>1 DEF WayOK, cacheKey, Keys
    <2>3. q.pc \in {"key", "store"} => /\ q.since <= epoch'
                                       /\ q.since = epoch' => ~Fresh(cert_cache[cacheKey(q)])'
      <3> SUFFICES ASSUME q.pc \in {"key", "store"}
                   PROVE  /\ q.since <= epoch'
                          /\ q.since = epoch' => ~Fresh(cert_cache[cacheKey(q)])'
        OBVIOUS
      <3>1. q.since \in Nat /\ q.since <= epoch
        BY <2>1 DEF LockOK, RequestStates
      <3>2. q.since <= epoch'
        BY <1>1, <1>4, <3>1
      <3>3. ASSUME q.since = epoch' PROVE ~Fresh(cert_cache[cacheKey(q)])'
        <4>1. epoch' = epoch /\ q.since = epoch
          BY <1>1, <1>4, <3>1, <3>3
        <4>2. ~Fresh(cert_cache[cacheKey(q)])
          BY <2>1, <4>1 DEF LockOK
        <4>3. cacheKey(q)' = cacheKey(q) /\ cacheKey(q) \in Keys
          BY <1>2, <2>2 DEF cacheKey
        <4>4. \A l \in Keys : ~Fresh(cert_cache[l]) => ~Fresh(cert_cache[l])'
          BY <1>6, <4>1
        <4> QED BY <4>2, <4>3, <4>4 DEF Fresh, Until, cacheKey
      <3> QED BY <3>2, <3>3
    <2>4. q.pc = "store" => /\ CertOK(q.cert)'
                            /\ mono' <= q.cert.signed + SignMax
      <3> SUFFICES ASSUME q.pc = "store"
                   PROVE  CertOK(q.cert)' /\ mono' <= q.cert.signed + SignMax
        OBVIOUS
      <3>1. CertOK(q.cert) /\ q.cert.signed \in Nat /\ mono <= q.cert.signed + SignMax
        BY <2>1 DEF LockOK, CertOK, Certificates
      <3>2. CertOK(q.cert)'
        BY <1>1, <1>2, <1>3, <2>1, <3>1 DEF CertOK, Certificates
      <3>3. CASE Elapse
        BY <1>1, <3>1, <3>2, <3>3, TimesAssumption DEF Elapse, At
      <3>4. CASE SetClock
        BY <3>1, <3>2, <3>4 DEF SetClock
      <3> QED BY <3>3, <3>4
    <2> QED BY <2>1, <2>3, <2>4 DEF LockOK
  <1>10. Cached'
    <2> SUFFICES ASSUME NEW l \in Keys, cert_cache'[l] # None
                 PROVE  EntryOK(l, cert_cache[l])'
      BY DEF Cached
    <2>1. EntryOK(l, cert_cache[l]) /\ cert_cache'[l] = cert_cache[l]
      BY <1>2 DEF IInv, Cached
    <2>2. epoch' = epoch \/ (cert_cache[l].cert.epoch <= epoch /\ epoch' = epoch + 1)
      BY <1>3, <2>1 DEF EntryOK, CertOK
    <2>3. cert_cache[l].cert.epoch = epoch' => cert_cache[l].cert.epoch = epoch
      BY <1>1, <2>1, <2>2 DEF EntryOK, CertOK, Certificates
    <2>4. CertOK(cert_cache[l].cert)'
      BY <1>1, <1>3, <2>1 DEF EntryOK, CertOK, Certificates
    <2> QED BY <2>1, <2>3, <2>4 DEF EntryOK
  <1> QED BY <1>2, <1>7, <1>8, <1>9, <1>10, SilentOK DEF IInv

LEMMA StutterOK ==
    ASSUME IInv, UNCHANGED vars
    PROVE  IInv'
  <1>1. UNCHANGED <<current_mode_rndis, owned, tls_allow, mono, wall, epoch, request,
                    cache_lock, cert_cache, answer>>
    BY DEF vars, daemon, clock
  <1>2. TypeOK' /\ Locked'
    BY <1>1 DEF IInv, TypeOK, Locked, At
  <1>3. Ways'
    BY <1>1 DEF IInv, Ways, WayOK, Sights, configured, allows
  <1>4. Holds' /\ Cached'
    BY <1>1 DEF IInv, Holds, LockOK, Cached, EntryOK, CertOK, Fresh, Until, cacheKey
  <1>5. Answer'
    BY <1>1 DEF IInv, Answer, ServedIsValid, ServedFits,
                ServedWasEntitled, Served, configured, allows
  <1> QED BY <1>2, <1>3, <1>4, <1>5 DEF IInv

-----------------------------------------------------------------------------
\* The invariant holds in every state.
THEOREM Inductive == Spec => []IInv
  <1>1. ASSUME IInv, [Next]_vars PROVE IInv'
    <2>1. ASSUME NEW r \in Requests,
                 \/ Ask(r) \/ Generate(r) \/ BadRequest(r)
                 \/ Checks(r) \/ Answers(r) \/ Issues(r)
          PROVE  IInv'
      BY <1>1, <2>1, BeginOK, ChecksOK, AnswersOK, IssueOK, StoreOK DEF Issues
    <2> QED BY <1>1, <2>1, DaemonOK, ClockOK, StutterOK DEF Next
  <1> QED BY <1>1, InitOK, PTL DEF Spec

\* The service's state is well formed; nothing is signed for a name that
\* valid_certificate_name refuses.
THEOREM TypeCorrect == Spec => []TypeOK
  BY Inductive, PTL DEF IInv

\* generate_certificate stays within the root's time, however the clock is set,
\* and get_or_generate_certificate's margin suffices: what it returns is valid,
\* unless the wall clock was set or the root expired under it.
THEOREM CertificatesAreValid == Spec => []ServedIsValid
  BY Inductive, PTL DEF IInv, Answer

\* The cache never hands a certificate to a request it was not made for.
THEOREM CertificatesFit == Spec => []ServedFits
  BY Inductive, PTL DEF IInv, Answer

\* handle_ask and handle_generate approve only by a mode and an address that
\* were each there at some, possibly different, moment of their own request.
THEOREM ApprovalsAreEntitled == Spec => []ServedWasEntitled
  BY Inductive, PTL DEF IInv, Answer

\* cache_lock makes concurrent requests for one name share one certificate.
THEOREM RenewalsAreDue == Spec => RenewedOnlyWhenDue
  <1> DEFINE Due == \A k \in Keys : cert_cache[k] # None /\ cert_cache'[k] # cert_cache[k] =>
                       \/ ~Fresh(cert_cache[k])
                       \/ \E r \in Requests : At(r, "store") /\ request[r].since # epoch
  <1>1. ASSUME IInv, [Next]_vars PROVE Due
    <2>1. ASSUME NEW r \in Requests, Store(r) PROVE Due
      <3>1. \A k \in Keys : k # cacheKey(request[r]) => cert_cache'[k] = cert_cache[k]
        BY <1>1, <2>1 DEF Store, IInv, TypeOK
      <3>2. request[r].since # epoch \/ ~Fresh(cert_cache[cacheKey(request[r])])
        BY <1>1, <2>1 DEF Store, At, IInv, Holds, LockOK
      <3> QED BY <2>1, <3>1, <3>2 DEF Store
    <2>2. ASSUME NEW r \in Requests,
                 \/ Ask(r) \/ Generate(r) \/ BadRequest(r) \/ Checks(r) \/ Answers(r)
                 \/ IssueFails(r) \/ Issue(r)
          PROVE  cert_cache' = cert_cache
      BY <2>2 DEF Ask, Generate, Begin, BadRequest, Checks, CheckMode, CheckLocal,
                  CheckName, Answers, CacheHit, CacheMiss, IssueFails, Issue
    <2>3. CASE ModeChanges \/ AddressesChange \/ Elapse \/ SetClock \/ UNCHANGED vars
      BY <2>3 DEF ModeChanges, AddressesChange, Elapse, SetClock, vars
    <2> QED BY <1>1, <2>1, <2>2, <2>3 DEF Next, Issues
  <1>2. IInv /\ [Next]_vars => [Due]_vars
    BY <1>1
  <1> QED BY <1>2, Inductive, PTL DEF Spec, RenewedOnlyWhenDue
=============================================================================
