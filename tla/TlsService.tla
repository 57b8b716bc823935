----------------------------- MODULE TlsService -----------------------------
(***************************************************************************)
(* The certificate service for Caddy (core/daemon/tls_service.go): /ask    *)
(* approves a name, /generate returns a certificate for it, from the cache *)
(* or freshly signed.  Requests are goroutines: they check the daemon's    *)
(* mode and the addresses of the RNDIS interface first and then queue for  *)
(* cache_lock, which is held while a key is made.                          *)
(*                                                                         *)
(* There are two clocks.  Certificates carry wall-clock times.  A cache    *)
(* entry's expires_at is a Go time: `now + leaf_duration` keeps its        *)
(* monotonic reading, which time.Until then uses, and the root's NotAfter  *)
(* has none.  The device has no battery for its clock, so the wall clock   *)
(* may be set while the daemon runs.                                       *)
(***************************************************************************)
EXTENDS Integers

CONSTANTS
    Requests,          \* the request goroutines
    Addrs,             \* IP addresses
    Domains,           \* DNS names
    BadName,           \* a name valid_certificate_name refuses
    Schemes,           \* values of signature_schemes
    Suited,            \* those the configured algorithm satisfies
    Margin,            \* one minute
    Leaf,              \* leaf_duration
    RootFrom, RootTo,  \* root_cert.NotBefore and NotAfter
    SignMax,           \* the longest time between two readings of the clock
                       \* without a key generation between them
    MaxTime,           \* bound of the monotonic clock
    ClockSets,         \* the times the wall clock may be set to
    MaxSets,           \* bound on how often it is set
    Allows,            \* the names different --tls-allow rules match
    None

Names == Addrs \cup Domains \cup {BadName}

ASSUME TimesAssumption ==
    /\ Margin \in Nat /\ Leaf \in Nat \ {0}
    /\ SignMax \in Nat /\ SignMax <= Margin /\ SignMax <= Leaf
    /\ RootFrom \in Nat /\ RootTo \in Nat
    /\ MaxTime \in Nat /\ MaxSets \in Nat /\ ClockSets \subseteq Nat

ASSUME NamesAssumption ==
    /\ Addrs \cap Domains = {} /\ BadName \notin Addrs \cup Domains
    /\ Suited \subseteq Schemes
    /\ Allows \subseteq SUBSET (Addrs \cup Domains)
    /\ None \notin Requests \cup Addrs \cup Domains

VARIABLES
    current_mode_rndis,
    owned,        \* the addresses of the RNDIS interface, none while it is down
    tls_allow,    \* the names the --tls-allow rules match, if there are rules
    mono, wall,   \* the clocks
    request,      \* what each goroutine is doing
    cache_lock,
    cert_cache,
    \* Recorded for the properties: how often the wall clock was set, and the
    \* answer the last step gave, if any.
    epoch, answer

daemon == <<current_mode_rndis, owned, tls_allow>>
clock == <<mono, wall, epoch>>
vars == <<daemon, clock, request, cache_lock, cert_cache, answer>>

configured == tls_allow # {None}
allows(name) == name \in tls_allow
valid_certificate_name(name) == name # BadName

Inactive(pc) ==
    [pc |-> pc, ask |-> FALSE, local |-> None, name |-> None, schemes |-> None,
     cert |-> None, since |-> 0, seen |-> {}]

\* What there is to see for a request: the addresses owned, and the mode.
Sights == owned \cup {n \in {"rndis"} : current_mode_rndis}

Silent == answer' = None

At(r, pc) == request[r].pc = pc
Goto(r, pc) == request' = [request EXCEPT ![r].pc = pc] /\ Silent

\* Any status but 200; which one does not matter here.
Refuse(r) == request' = [request EXCEPT ![r] = Inactive("done")] /\ Silent

\* 200, with the certificate of /generate.
Serve(r, cert) ==
    LET q == request[r] IN
    /\ request' = [request EXCEPT ![r] = Inactive("done")]
    /\ answer' =
          [name |-> q.name, schemes |-> q.schemes, seen |-> q.seen,
           cert |-> cert, at |-> wall, epoch |-> epoch]

-----------------------------------------------------------------------------
(* Admission.                                                              *)

Begin(r, ask, local, name, schemes) ==
    /\ At(r, "idle")
    /\ request' = [request EXCEPT ![r] =
          [pc |-> "mode", ask |-> ask, local |-> local, name |-> name,
           schemes |-> schemes, cert |-> None, since |-> 0, seen |-> Sights]]
    /\ Silent /\ UNCHANGED <<daemon, clock, cache_lock, cert_cache>>

Ask(r) == \E n \in Names : Begin(r, TRUE, None, n, None)

\* server_name defaults to local_ip.
Generate(r) == \E l \in Addrs, n \in Names, s \in Schemes : Begin(r, FALSE, l, n, s)

\* Another method, no domain, a local_ip that is none.
BadRequest(r) ==
    /\ At(r, "idle")
    /\ Refuse(r)
    /\ UNCHANGED <<daemon, clock, cache_lock, cert_cache>>

is_current_rndis_mode_always == TRUE
is_current_rndis_mode == current_mode_rndis

\* The checks that come with the mode's: the name, and the rules for it.
Admissible(q) ==
    /\ is_current_rndis_mode
    /\ valid_certificate_name(q.name)
    /\ configured => allows(q.name)
    /\ ~configured /\ q.ask => q.name \in Addrs

Admitted(r) == IF request[r].ask THEN Serve(r, None) ELSE Goto(r, "cache")

CheckMode(r) ==
    /\ At(r, "mode")
    /\ \/ ~Admissible(request[r]) /\ Refuse(r)
       \/ Admissible(request[r]) /\ configured /\ Admitted(r)
       \/ /\ Admissible(request[r]) /\ ~configured
          /\ Goto(r, IF request[r].ask THEN "name" ELSE "local")
    /\ UNCHANGED <<daemon, clock, cache_lock, cert_cache>>

rndis_owns_ip(ip) == ip \in owned

\* Without rules /generate needs an own local_ip; an address as name, of either
\* endpoint, must be an own one as well.  Each look is a system call.
CheckLocal(r) ==
    /\ At(r, "local")
    /\ \/ ~rndis_owns_ip(request[r].local) /\ Refuse(r)
       \/ /\ rndis_owns_ip(request[r].local)
          /\ Goto(r, IF request[r].name \in Addrs THEN "name" ELSE "cache")
    /\ UNCHANGED <<daemon, clock, cache_lock, cert_cache>>

CheckName(r) ==
    /\ At(r, "name")
    /\ \/ ~rndis_owns_ip(request[r].name) /\ Refuse(r)
       \/ rndis_owns_ip(request[r].name) /\ Admitted(r)
    /\ UNCHANGED <<daemon, clock, cache_lock, cert_cache>>

-----------------------------------------------------------------------------
(* get_or_generate_certificate and generate_certificate.                   *)

cacheKey_name(q) == <<q.name, CHOOSE s \in Schemes : TRUE>>
cacheKey(q) == <<q.name, q.schemes>>

Min2(a, b) == IF b < a THEN b ELSE a
Max2(a, b) == IF b > a THEN b ELSE a

\* A Go time: what time.Until compares it with.
Until(t) == t.at - (IF t.monotonic THEN mono ELSE wall)

Fresh_toTheEnd(e) == e # None /\ Until(e.expires_at) >= 0
Fresh(e) == e # None /\ Until(e.expires_at) > Margin

CacheHit(r) ==
    /\ At(r, "cache") /\ cache_lock = None
    /\ Fresh(cert_cache[cacheKey(request[r])])
    /\ Serve(r, cert_cache[cacheKey(request[r])].cert)
    /\ UNCHANGED <<daemon, clock, cache_lock, cert_cache>>

\* The lock stays taken until the certificate is stored or has failed.
Lock_released(r) == None
Lock(r) == r

CacheMiss(r) ==
    /\ At(r, "cache") /\ cache_lock = None
    /\ ~Fresh(cert_cache[cacheKey(request[r])])
    /\ \/ wall > RootTo /\ Refuse(r) /\ UNCHANGED cache_lock
       \/ /\ wall <= RootTo
          /\ request' = [request EXCEPT ![r].pc = "key", ![r].since = epoch]
          /\ cache_lock' = Lock(r) /\ Silent
    /\ UNCHANGED <<daemon, clock, cert_cache>>

\* generate_leaf_key refuses the schemes, the random source or the signature
\* fails, or the root is not valid yet.  `defer` releases the lock.
Unlock_forgotten == cache_lock
Unlock == None

IssueFails(r) ==
    /\ At(r, "key")
    /\ Refuse(r)
    /\ cache_lock' = Unlock
    /\ UNCHANGED <<daemon, clock, cert_cache>>

notAfter == Min2(wall + Leaf, RootTo)
notBefore == Max2(wall - Margin, RootFrom)

\* The key has been made, however long that took.
Issue(r) ==
    /\ At(r, "key")
    /\ request[r].schemes \in Suited
    /\ RootFrom <= wall
    /\ request' = [request EXCEPT ![r].pc = "store",
          ![r].cert = [name |-> request[r].name, schemes |-> request[r].schemes,
                       from |-> notBefore, to |-> notAfter,
                       signed |-> mono, made |-> wall, epoch |-> epoch]]
    /\ Silent /\ UNCHANGED <<daemon, clock, cache_lock, cert_cache>>

\* min_time(time.Now() + leaf_duration, root_cert.NotAfter)
expires_at == IF RootTo < wall + Leaf THEN [monotonic |-> FALSE, at |-> RootTo]
                                      ELSE [monotonic |-> TRUE, at |-> mono + Leaf]

Store(r) ==
    /\ At(r, "store")
    /\ cert_cache' = [cert_cache EXCEPT ![cacheKey(request[r])] =
                         [cert |-> request[r].cert, expires_at |-> expires_at]]
    /\ Serve(r, request[r].cert)
    /\ cache_lock' = None
    /\ UNCHANGED <<daemon, clock>>

-----------------------------------------------------------------------------
(* The rest of the daemon, and the clocks.                                 *)

\* Everything the requests under way have seen, with what they see now.
Witnessed(sights) ==
    request' = [r \in Requests |-> IF At(r, "idle") \/ At(r, "done") THEN request[r]
                ELSE [request[r] EXCEPT !.seen = @ \cup sights]]

\* set_current_mode, at the start of a switch, and the teardown and setup of
\* the interface, later.
ModeChanges ==
    /\ current_mode_rndis' = ~current_mode_rndis
    /\ Witnessed({n \in {"rndis"} : current_mode_rndis'})
    /\ Silent /\ UNCHANGED <<owned, tls_allow, clock, cache_lock, cert_cache>>

AddressesChange ==
    /\ \E o \in SUBSET Addrs : owned' = o /\ Witnessed(o)
    /\ Silent /\ UNCHANGED <<current_mode_rndis, tls_allow, clock, cache_lock,
                   cert_cache>>

Elapse ==
    /\ mono < MaxTime
    /\ \A r \in Requests : At(r, "store") => mono < request[r].cert.signed + SignMax
    /\ mono' = mono + 1 /\ wall' = wall + 1
    /\ Silent /\ UNCHANGED <<daemon, epoch, request, cache_lock, cert_cache>>

SetClock ==
    /\ epoch < MaxSets
    /\ \E t \in ClockSets : wall' = t
    /\ epoch' = epoch + 1
    /\ Silent /\ UNCHANGED <<daemon, mono, request, cache_lock, cert_cache>>

-----------------------------------------------------------------------------
Keys == Names \X Schemes

Init ==
    /\ current_mode_rndis = FALSE /\ owned = {}
    /\ tls_allow \in {{None}} \cup Allows
    /\ mono = 0 /\ wall = 0 /\ epoch = 0
    /\ request = [r \in Requests |-> Inactive("idle")]
    /\ cache_lock = None
    /\ cert_cache = [k \in Keys |-> None]
    /\ answer = None

Checks(r) == CheckMode(r) \/ CheckLocal(r) \/ CheckName(r)
Answers(r) == CacheHit(r) \/ CacheMiss(r)
Issues(r) == IssueFails(r) \/ Issue(r) \/ Store(r)

Next ==
    \/ \E r \in Requests :
         \/ Ask(r) \/ Generate(r) \/ BadRequest(r)
         \/ Checks(r) \/ Answers(r) \/ Issues(r)
    \/ ModeChanges
    \/ AddressesChange
    \/ Elapse
    \/ SetClock

Spec == Init /\ [][Next]_vars

\* Go schedules the goroutines.  A lock that becomes free is taken in the end by
\* whoever waits for it, as there are finitely many requests.
FairSpec ==
    Spec /\ \A r \in Requests : WF_vars(Checks(r) \/ Answers(r) \/ Issues(r))

-----------------------------------------------------------------------------
(* Properties.                                                             *)

Certificates ==
    [name : Names, schemes : Schemes, from : Int, to : Int, signed : Nat, made : Nat,
     epoch : Nat]

Entries == [cert : Certificates, expires_at : [monotonic : BOOLEAN, at : Nat]]

Steps == {"idle", "mode", "local", "name", "cache", "key", "store", "done"}

RequestStates ==
    [pc : Steps, ask : BOOLEAN, local : Addrs \cup {None}, name : Names \cup {None},
     schemes : Schemes \cup {None}, cert : Certificates \cup {None}, since : Nat,
     seen : SUBSET (Addrs \cup {"rndis"})]

TypeOK ==
    /\ current_mode_rndis \in BOOLEAN /\ owned \subseteq Addrs
    /\ mono \in Nat /\ wall \in Nat /\ epoch \in Nat
    /\ request \in [Requests -> RequestStates]
    /\ cache_lock \in Requests \cup {None}
    /\ cert_cache \in [Keys -> Entries \cup {None}]
    /\ \A r \in Requests : At(r, "store") => request[r].name \in Addrs \cup Domains

\* A certificate has just been handed out.
Served == answer # None /\ answer.cert # None

\* However the clock is set, no certificate claims a time that is not the root's
\* (README, --tls-leaf-duration).  From the cache or new, it is valid when it is
\* handed out, unless the clock was set since it was signed (the cache would not
\* notice), or the root itself expired while the key was made.
ServedIsValid ==
    Served =>
        /\ RootFrom <= answer.cert.from /\ answer.cert.to <= RootTo
        /\ \/ answer.cert.from <= answer.at /\ answer.at <= answer.cert.to
           \/ answer.cert.epoch # answer.epoch
           \/ answer.at > RootTo

\* Whoever else asks at the same time, a client gets a certificate for its own
\* name with a key its own signature_schemes admit.
ServedFits ==
    Served => /\ answer.cert.name = answer.name
              /\ answer.cert.schemes = answer.schemes
              /\ answer.schemes \in Suited

\* Names approved and certificates handed out were due: at some moment of the
\* request the mode was RNDIS, and without rules a name that is an address was
\* the interface's at some moment of it, possibly another one, since the code
\* looks at the two one after the other.  A cached certificate of another time
\* does not count.
ServedWasEntitled ==
    answer # None =>
        /\ "rndis" \in answer.seen
        /\ configured => allows(answer.name)
        /\ ~configured /\ answer.name \in Addrs => answer.name \in answer.seen

\* Concurrent requests for the same name share one certificate: an entry is
\* replaced only when it is about to expire (or the clock was set meanwhile).
RenewedOnlyWhenDue ==
    [][\A k \in Keys : cert_cache[k] # None /\ cert_cache'[k] # cert_cache[k] =>
          \/ ~Fresh(cert_cache[k])
          \/ \E r \in Requests : At(r, "store") /\ request[r].since # epoch]_vars

\* No request waits for ever for the lock, whatever becomes of the one that
\* holds it.
RequestsAreAnswered == \A r \in Requests : ~At(r, "idle") ~> At(r, "done")
=============================================================================
