-------------------------- MODULE InputDeviceProofs --------------------------
(***************************************************************************)
(* Proofs about InputDevice, for all thresholds and bounds: DrainEvents    *)
(* neither loses, invents nor reorders an event, every press is reported   *)
(* once and as what it was, merged taps are close, no queued event is      *)
(* stranded, and a waiting mainloop watches every press for a shutdown.    *)
(***************************************************************************)
EXTENDS InputDevice, SequenceTheorems, WellFoundedInduction, TLAPS

-----------------------------------------------------------------------------
(* Induction and recursion over the numbers.                               *)

\* A set of numbers that is not empty has a least element.
LEMMA LeastElement ==
    ASSUME NEW T, T \subseteq Nat, T # {}
    PROVE  \E n \in T : \A m \in T : ~(m < n)
<1> DEFINE R == OpToRel(<, Nat)
<1>1. IsWellFoundedOn(R, Nat)
  BY NatLessThanWellFounded, Zenon
<1> HIDE DEF R
<1>2. PICK n \in T : \A m \in T : ~ (<<m, n>> \in R)
  BY <1>1, WFMin
<1>3. \A m \in T : m < n => <<m, n>> \in R
  BY DEF R, OpToRel
<1> QED BY <1>2, <1>3

\* A set with 0 that is closed under successor holds every number.
LEMMA SetInduction ==
    ASSUME NEW S, 0 \in S, \A n \in Nat : n \in S => n + 1 \in S
    PROVE  Nat \subseteq S
<1> SUFFICES ASSUME Nat \ S # {} PROVE FALSE
  OBVIOUS
<1>1. PICK n \in Nat \ S : \A m \in Nat \ S : ~(m < n)
  BY LeastElement
<1>2. n # 0 
  BY <1>1
<1>3. n - 1 \in Nat /\ n - 1 < n
  BY <1>2
<1>4. n - 1 \in S
  BY <1>1, <1>3
<1>5. (n-1)+1 \in S
  BY <1>3, <1>4
<1> QED BY <1>5

\* f lists what G makes of a in n steps: f[i] is computed from f[i - 1] and i.
Iterates(f, A, a, G, n) ==
    /\ f \in [0 .. n -> A]
    /\ f[0] = a
    /\ \A i \in 1 .. n : f[i] = G[<<f[i - 1], i>>]

\* Such a list exists.  (To the provers a recursive function is a CHOOSE, of
\* which nothing is known until a function like it is known to exist.)
LEMMA Recursion ==
    ASSUME NEW A, NEW a \in A, NEW N \in Nat, NEW G \in [A \X (1 .. N) -> A]
    PROVE  \E f : Iterates(f, A, a, G, N)
<1> DEFINE Rec(n, f) == /\ f[0] = a
                        /\ \A i \in 1 .. n : f[i] = G[<<f[i - 1], i>>]
           S == {n \in Nat : n <= N => \E f \in [0 .. n -> A] : Rec(n, f)}
<1>1. 0 \in S
  <2>1. [i \in 0 .. 0 |-> a] \in [0 .. 0 -> A] /\ Rec(0, [i \in 0 .. 0 |-> a])
    OBVIOUS
  <2> QED BY <2>1
<1>2. ASSUME NEW n \in Nat, n \in S PROVE n + 1 \in S
  <2> SUFFICES ASSUME n + 1 <= N
               PROVE  \E g \in [0 .. n + 1 -> A] : Rec(n + 1, g)
    OBVIOUS
  <2>1. PICK f \in [0 .. n -> A] : Rec(n, f)
    BY <1>2
  <2> DEFINE g == [i \in 0 .. n + 1 |-> IF i <= n THEN f[i] ELSE G[<<f[n], n + 1>>]]
  <2>2. G[<<f[n], n + 1>>] \in A
    BY <2>1
  <2>3. g \in [0 .. n + 1 -> A]
    BY <2>1, <2>2
  <2>4. ASSUME NEW i \in 1 .. n + 1 PROVE g[i] = G[<<g[i - 1], i>>]
    <3>1. CASE i <= n
      BY <2>1, <3>1
    <3>2. CASE i = n + 1
      <4>1. g[i] = G[<<f[n], n + 1>>] /\ i - 1 = n /\ g[n] = f[n]
        BY <3>2
      <4> HIDE DEF g
      <4> QED BY <3>2, <4>1
    <3> QED BY <3>1, <3>2
  <2>5. g[0] = a
    BY <2>1
  <2> HIDE DEF g
  <2> QED BY <2>3, <2>4, <2>5
<1>3. N \in S
  <2> HIDE DEF S
  <2> QED BY <1>1, <1>2, SetInduction
<1> QED BY <1>3 DEF Iterates

\* f obeys the same equations, as far as its values are in A.
Follows(f, A, a, G, n) ==
    /\ f[0] = a
    /\ \A i \in 1 .. n : f[i - 1] \in A => f[i] = G[<<f[i - 1], i>>]

\* There is only one such list.
LEMMA SameIterates ==
    ASSUME NEW A, NEW a, NEW N \in Nat, NEW G, NEW f, Iterates(f, A, a, G, N),
           NEW g, Follows(g, A, a, G, N)
    PROVE  \A i \in 0 .. N : g[i] = f[i]
<1> DEFINE S == {n \in Nat : n <= N => g[n] = f[n]}
<1>1. 0 \in S
  BY DEF Iterates, Follows
<1>2. ASSUME NEW n \in Nat, n \in S PROVE n + 1 \in S
  <2> SUFFICES ASSUME n + 1 <= N PROVE g[n + 1] = f[n + 1]
    OBVIOUS
  <2>1. n + 1 \in 1 .. N /\ (n + 1) - 1 = n /\ n \in 0 .. N /\ g[n] = f[n]
    BY <1>2
  <2>2. f[n] \in A /\ f[n + 1] = G[<<f[n], n + 1>>]
    BY <2>1 DEF Iterates
  <2>3. g[n + 1] = G[<<g[n], n + 1>>]
    BY <2>1, <2>2 DEF Follows
  <2> QED BY <2>1, <2>2, <2>3
<1>3. Nat \subseteq S
  <2> HIDE DEF S
  <2> QED BY <1>1, <1>2, SetInduction
<1> QED BY <1>3

-----------------------------------------------------------------------------
(* What DrainEvents returns.                                               *)

\* The events of event_queue, and what DrainEvents returns.
Events == [type : {"TAP", "LONG_TAP"}, time : Int, duration : Int, press : Nat]
Results == [type : {"TAP", "LONG_TAP", "MULTIPLE_TAP"}, parts : Seq(Events)]

\* f is the recursive function inside Unmerged(s).
UnmergedBy(f, s) ==
    /\ f \in [0 .. Len(s) -> Seq(Events)]
    /\ f[0] = <<>>
    /\ \A i \in 1 .. Len(s) : f[i] = f[i - 1] \o s[i].parts
    /\ Unmerged(s) = f[Len(s)]

\* The parts of a result are events.
LEMMA ResultParts ==
    ASSUME NEW s \in Seq(Results), NEW i \in 1 .. Len(s)
    PROVE  s[i] \in Results /\ s[i].parts \in Seq(Events)
<1>1. s[i] \in Results
  BY ElementOfSeq
<1> QED BY <1>1 DEF Results

\* The recursive function inside Unmerged exists.
LEMMA UnmergedRecursion ==
    ASSUME NEW s \in Seq(Results)
    PROVE  \E f : UnmergedBy(f, s)
<1> DEFINE A == Seq(Events)
           G == [p \in A \X (1 .. Len(s)) |-> p[1] \o s[p[2]].parts]
           flat == CHOOSE f : f = [i \in 0 .. Len(s) |->
                       IF i = 0 THEN <<>> ELSE f[i - 1] \o s[i].parts]
<1>1. Unmerged(s) = flat[Len(s)]
    BY DEF Unmerged
<1> HIDE DEF flat
<1>2. Len(s) \in Nat /\ <<>> \in A
    BY EmptySeq, LenProperties
<1>3. \A x \in A, i \in 1 .. Len(s) : x \o s[i].parts \in A
    BY ResultParts, ConcatProperties
<1>4. G \in [A \X (1 .. Len(s)) -> A]
    BY <1>3
<1> HIDE DEF A, G
<1>5. PICK f : Iterates(f, A, <<>>, G, Len(s))
    BY <1>2, <1>4, Recursion
<1>6. \A x \in A, i \in 1 .. Len(s) : G[<<x, i>>] = x \o s[i].parts
    BY Zenon DEF G
<1>7. flat = [i \in 0 .. Len(s) |->
                 IF i = 0 THEN <<>> ELSE flat[i - 1] \o s[i].parts]
  <2>1. ASSUME NEW i \in 0 .. Len(s)
        PROVE  f[i] = IF i = 0 THEN <<>> ELSE f[i - 1] \o s[i].parts
    <3>1. CASE i = 0
      BY <1>5, <3>1 DEF Iterates
    <3>2. CASE i # 0
      <4>1. i \in 1 .. Len(s) /\ i - 1 \in 0 .. Len(s)
        BY <1>2, <3>2
      <4>2. f[i - 1] \in A /\ f[i] = G[<<f[i - 1], i>>]
        BY <1>5, <4>1 DEF Iterates
      <4> QED BY <1>6, <3>2, <4>1, <4>2
    <3> QED BY <3>1, <3>2
  <2>2. f \in [0 .. Len(s) -> A]
    BY <1>5 DEF Iterates
  <2>3. f = [i \in 0 .. Len(s) |-> IF i = 0 THEN <<>> ELSE f[i - 1] \o s[i].parts]
    BY <2>1, <2>2
  <2> QED BY <2>3, Zenon DEF flat
<1>8. flat[0] = <<>> /\ \A i \in 1 .. Len(s) : flat[i] = flat[i - 1] \o s[i].parts
    BY <1>2, <1>7
<1>9. \A i \in 0 .. Len(s) : flat[i] = f[i]
  <2>1. Follows(flat, A, <<>>, G, Len(s))
    BY <1>6, <1>8 DEF Follows
  <2> QED BY <1>2, <1>5, <2>1, SameIterates
<1>10. f \in [0 .. Len(s) -> A]
    BY <1>5 DEF Iterates
<1>11. flat \in [0 .. Len(s) -> A]
    BY <1>7, <1>9, <1>10
<1> QED
    BY <1>1, <1>8, <1>11 DEF A, UnmergedBy

\* What was merged are events.
LEMMA UnmergedType ==
    ASSUME NEW s \in Seq(Results)
    PROVE  Unmerged(s) \in Seq(Events)
<1>1. PICK f : UnmergedBy(f, s)
    BY UnmergedRecursion
<1> QED
    BY <1>1, LenProperties DEF UnmergedBy

\* No result or one.
LEMMA UnmergedShort ==
    /\ Unmerged(<<>>) = <<>>
    /\ \A r \in Results : Unmerged(<<r>>) = r.parts
<1>1. Unmerged(<<>>) = <<>>
  <2>1. <<>> \in Seq(Results) /\ Len(<<>>) = 0
    BY EmptySeq
  <2>2. PICK f : UnmergedBy(f, <<>>)
    BY <2>1, UnmergedRecursion
  <2> QED BY <2>1, <2>2 DEF UnmergedBy
<1>2. ASSUME NEW r \in Results PROVE Unmerged(<<r>>) = r.parts
  <2> DEFINE s == <<r>>
  <2>1. s \in Seq(Results) /\ Len(s) = 1 /\ s[1] = r
    OBVIOUS
  <2> HIDE DEF s
  <2>2. PICK f : UnmergedBy(f, s)
    BY <2>1, UnmergedRecursion
  <2>3. f[1] = f[0] \o s[1].parts /\ f[0] = <<>> /\ Unmerged(s) = f[1]
    <3>1. 1 \in 1 .. Len(s) /\ 1 - 1 = 0
      BY <2>1
    <3>2. \A i \in 1 .. Len(s) : f[i] = f[i - 1] \o s[i].parts
      BY <2>2 DEF UnmergedBy
    <3>3. f[1] = f[1 - 1] \o s[1].parts
      BY <3>1, <3>2
    <3> QED BY <2>1, <2>2, <3>1, <3>3 DEF UnmergedBy
  <2>4. r.parts \in Seq(Events)
    BY DEF Results
  <2> QED BY <2>1, <2>3, <2>4, ConcatEmptySeq DEF s
<1> QED BY <1>1, <1>2

\* What later drains return comes after what earlier drains returned.
LEMMA UnmergedConcat ==
    ASSUME NEW s \in Seq(Results), NEW t \in Seq(Results)
    PROVE  Unmerged(s \o t) = Unmerged(s) \o Unmerged(t)
<1> DEFINE u == s \o t
<1>1. /\ u \in Seq(Results) /\ Len(u) = Len(s) + Len(t)
      /\ \A i \in 1 .. Len(u) : u[i] = IF i <= Len(s) THEN s[i] ELSE t[i - Len(s)]
    BY ConcatProperties
<1>2. Len(s) \in Nat /\ Len(t) \in Nat
    BY LenProperties
<1> HIDE DEF u
<1>3. PICK f : UnmergedBy(f, s)
    BY UnmergedRecursion
<1>4. PICK g : UnmergedBy(g, t)
    BY UnmergedRecursion
<1>5. PICK h : UnmergedBy(h, u)
    BY <1>1, UnmergedRecursion
<1> DEFINE Cat(n) == f[Len(s)] \o g[n]
           S == {n \in Nat : n <= Len(s) => h[n] = f[n]}
           T == {n \in Nat : n <= Len(t) => h[Len(s) + n] = Cat(n)}
<1> HIDE DEF Cat
<1>6. Nat \subseteq S
  <2>1. 0 \in S
    BY <1>3, <1>5 DEF UnmergedBy
  <2>2. ASSUME NEW n \in Nat, n \in S PROVE n + 1 \in S
    <3> SUFFICES ASSUME n + 1 <= Len(s) PROVE h[n + 1] = f[n + 1]
      OBVIOUS
    <3>1. /\ n + 1 \in 1 .. Len(s) /\ n + 1 \in 1 .. Len(u) /\ (n + 1) - 1 = n
          /\ h[n] = f[n] /\ u[n + 1] = s[n + 1]
      BY <1>1, <1>2, <2>2
    <3>2. f[n + 1] = f[n] \o s[n + 1].parts
      BY <1>3, <3>1 DEF UnmergedBy
    <3>3. h[n + 1] = h[n] \o u[n + 1].parts
      BY <1>5, <3>1 DEF UnmergedBy
    <3> QED BY <3>1, <3>2, <3>3
  <2> HIDE DEF S
  <2> QED BY <2>1, <2>2, SetInduction
<1>7. f[Len(s)] \in Seq(Events) /\ h[Len(s)] = f[Len(s)]
  <2>1. Len(s) \in 0 .. Len(s) /\ f \in [0 .. Len(s) -> Seq(Events)]
    BY <1>2, <1>3 DEF UnmergedBy
  <2>2. h[Len(s)] = f[Len(s)]
    BY <1>2, <1>6
  <2> QED BY <2>1, <2>2
<1>8. Nat \subseteq T
  <2>1. 0 \in T
    <3>1. f[Len(s)] \o <<>> = f[Len(s)]
      BY <1>7, ConcatEmptySeq
    <3>2. g[0] = <<>> /\ Len(s) + 0 = Len(s)
      BY <1>2, <1>4 DEF UnmergedBy
    <3> QED BY <1>7, <3>1, <3>2 DEF Cat
  <2>2. ASSUME NEW n \in Nat, n \in T PROVE n + 1 \in T
    <3> SUFFICES ASSUME n + 1 <= Len(t)
                 PROVE  h[Len(s) + (n + 1)] = Cat(n + 1)
      OBVIOUS
    <3> DEFINE k == Len(s) + (n + 1)
    <3>1. /\ n + 1 \in 1 .. Len(t) /\ (n + 1) - 1 = n /\ n \in 0 .. Len(t)
          /\ k \in 1 .. Len(u) /\ k - 1 = Len(s) + n
          /\ k - Len(s) = n + 1 /\ ~(k <= Len(s))
          /\ h[Len(s) + n] = Cat(n)
      BY <1>1, <1>2, <2>2
    <3> HIDE DEF k
    <3>2. u[k] = t[n + 1]
      BY <1>1, <3>1
    <3>3. h[k] = h[Len(s) + n] \o t[n + 1].parts
      BY <1>5, <3>1, <3>2 DEF UnmergedBy
    <3>4. g[n + 1] = g[n] \o t[n + 1].parts /\ g[n] \in Seq(Events)
      BY <1>4, <3>1 DEF UnmergedBy
    <3>5. t[n + 1].parts \in Seq(Events)
      BY <3>1, ResultParts
    <3> DEFINE x == f[Len(s)] y == g[n] z == t[n + 1].parts
    <3>6. x \in Seq(Events) /\ y \in Seq(Events) /\ z \in Seq(Events)
      BY <1>7, <3>4, <3>5
    <3> HIDE DEF x, y, z
    <3>7. (x \o y) \o z = x \o (y \o z)
      BY <3>6, ConcatAssociative, SMTT(30)
    <3>8. h[k] = Cat(n) \o z /\ Cat(n) = x \o y /\ Cat(n + 1) = x \o (y \o z)
      BY <3>1, <3>3, <3>4 DEF x, y, z, Cat
    <3> QED BY <3>7, <3>8 DEF k
  <2> HIDE DEF T
  <2> QED BY <2>1, <2>2, SetInduction
<1>9. h[Len(s) + Len(t)] = Cat(Len(t))
    BY <1>2, <1>8
<1> QED
    BY <1>1, <1>3, <1>4, <1>5, <1>9 DEF UnmergedBy, u, Cat

\* What the loop of DrainEvents keeps between two events.
Accs == [result : Seq(Results), chain : Seq(Events)]

\* At most MultipleTapMaxCount taps, none too long after the one before it.
CloseTaps(parts) ==
    /\ Len(parts) <= MultipleTapMaxCount
    /\ \A j \in 1 .. Len(parts) : parts[j].type = "TAP"
    /\ \A j \in 1 .. Len(parts) - 1 :
           parts[j + 1].time - parts[j].time <= MultipleTapThreshold

\* MultipleTapsAreClose for one result, and for a sequence of them.
CloseResult(r) == r.type = "MULTIPLE_TAP" => Len(r.parts) >= 2 /\ CloseTaps(r.parts)

AllClose(s) == \A i \in 1 .. Len(s) : CloseResult(s[i])

\* Two sequences of close results make one.
LEMMA AllCloseConcat ==
    ASSUME NEW s \in Seq(Results), NEW t \in Seq(Results), AllClose(s), AllClose(t)
    PROVE  s \o t \in Seq(Results) /\ AllClose(s \o t)
<1> DEFINE u == s \o t
<1>1. /\ u \in Seq(Results) /\ Len(u) = Len(s) + Len(t)
      /\ \A i \in 1 .. Len(u) : u[i] = IF i <= Len(s) THEN s[i] ELSE t[i - Len(s)]
    BY ConcatProperties
<1>2. Len(s) \in Nat /\ Len(t) \in Nat
    BY LenProperties
<1> HIDE DEF u
<1>3. ASSUME NEW i \in 1 .. Len(u) PROVE CloseResult(u[i])
  <2>1. CASE i <= Len(s)
    <3>1. i \in 1 .. Len(s) /\ u[i] = s[i]
      BY <1>1, <1>2, <2>1
    <3> QED BY <3>1 DEF AllClose
  <2>2. CASE ~(i <= Len(s))
    <3>1. i - Len(s) \in 1 .. Len(t) /\ u[i] = t[i - Len(s)]
      BY <1>1, <1>2, <2>2
    <3> QED BY <3>1 DEF AllClose
  <2> QED BY <2>1, <2>2
<1> QED BY <1>1, <1>3 DEF AllClose, u

\* One result as a sequence.
LEMMA OneResult ==
    ASSUME NEW r \in Results, CloseResult(r)
    PROVE  /\ <<r>> \in Seq(Results) /\ AllClose(<<r>>)
           /\ Unmerged(<<r>>) = r.parts
<1>1. /\ <<r>> \in Seq(Results)
      /\ \A i \in 1 .. Len(<<r>>) : <<r>>[i] = r
    OBVIOUS
<1> QED
    BY <1>1, UnmergedShort DEF AllClose

\* merge_chain_events keeps the events of a chain.
LEMMA Merged ==
    ASSUME NEW chain \in Seq(Events), CloseTaps(chain)
    PROVE  /\ merge_chain_events(chain) \in Seq(Results)
           /\ AllClose(merge_chain_events(chain))
           /\ Unmerged(merge_chain_events(chain)) = chain
<1>0. Len(chain) \in Nat /\ (Len(chain) = 0 => chain = <<>>)
    BY EmptySeq, LenProperties
<1>1. CASE Len(chain) = 0
  <2>1. merge_chain_events(chain) = <<>> /\ chain = <<>>
    BY <1>0, <1>1 DEF merge_chain_events
  <2>2. AllClose(<<>>) /\ <<>> \in Seq(Results)
    BY EmptySeq DEF AllClose
  <2> QED BY <2>1, <2>2, UnmergedShort
<1>2. CASE Len(chain) = 1
  <2> DEFINE r == Result("TAP", chain)
  <2>1. merge_chain_events(chain) = <<r>>
    BY <1>2 DEF merge_chain_events
  <2>2. r \in Results /\ CloseResult(r) /\ r.parts = chain
    BY DEF Result, Results, CloseResult
  <2> HIDE DEF r
  <2> QED BY <2>1, <2>2, OneResult
<1>3. CASE Len(chain) # 0 /\ Len(chain) # 1
  <2>0. Len(chain) >= 2
    <3> DEFINE n == Len(chain)
    <3>1. n \in Nat /\ n # 0 /\ n # 1
      BY <1>0, <1>3
    <3> HIDE DEF n
    <3>2. n >= 2
      BY <3>1
    <3> QED BY <3>2 DEF n
  <2> DEFINE r == Result("MULTIPLE_TAP", chain)
  <2>1. merge_chain_events(chain) = <<r>>
    BY <1>3 DEF merge_chain_events
  <2>2. r \in Results /\ CloseResult(r) /\ r.parts = chain
    <3>1. r.type = "MULTIPLE_TAP" /\ r.parts = chain /\ r \in Results
      BY DEF Result, Results
    <3> HIDE DEF r
    <3> QED BY <2>0, <3>1 DEF CloseResult
  <2> HIDE DEF r
  <2> QED BY <2>1, <2>2, OneResult
<1> QED BY <1>1, <1>2, <1>3

\* The loop keeps close taps in its chain and has returned close results.
ScanOK(acc) == acc \in Accs /\ AllClose(acc.result) /\ CloseTaps(acc.chain)

\* All events the loop has seen.
ScanLog(acc) == Unmerged(acc.result) \o acc.chain

\* A tap that does not break a chain of close taps extends it to another.
LEMMA ChainGrows ==
    ASSUME NEW chain \in Seq(Events), CloseTaps(chain), NEW e \in Events,
           ~Breaks(chain, e)
    PROVE  Append(chain, e) \in Seq(Events) /\ CloseTaps(Append(chain, e))
<1> DEFINE u == Append(chain, e)
<1>1. Len(chain) \in Nat /\ \A i \in 1 .. Len(chain) : chain[i] \in Events
    BY ElementOfSeq, LenProperties
<1>2. /\ u \in Seq(Events) /\ Len(u) = Len(chain) + 1
      /\ \A i \in 1 .. Len(chain) : u[i] = chain[i]
      /\ u[Len(chain) + 1] = e
    BY AppendProperties
<1>3. e.type = "TAP" /\ ~(Len(chain) >= MultipleTapMaxCount)
      /\ (Len(chain) > 0 => ~(e.time - chain[Len(chain)].time > MultipleTapThreshold))
    BY DEF Breaks, Last
<1> HIDE DEF u
<1>4. Len(u) <= MultipleTapMaxCount
    BY <1>1, <1>2, <1>3, ConfigAssumption
<1>5. ASSUME NEW j \in 1 .. Len(u) PROVE u[j].type = "TAP"
  <2>1. CASE j <= Len(chain)
    BY <1>1, <1>2, <2>1 DEF CloseTaps
  <2>2. CASE j = Len(chain) + 1
    BY <1>2, <1>3, <2>2
  <2> QED BY <1>1, <1>2, <2>1, <2>2
<1>6. ASSUME NEW j \in 1 .. Len(u) - 1
      PROVE  u[j + 1].time - u[j].time <= MultipleTapThreshold
  <2>1. CASE j < Len(chain)
    <3>1. j \in 1 .. Len(chain) - 1 /\ u[j] = chain[j] /\ u[j + 1] = chain[j + 1]
      BY <1>1, <1>2, <2>1
    <3> QED BY <3>1 DEF CloseTaps
  <2>2. CASE j = Len(chain)
    <3>1. u[j] = chain[j] /\ u[j + 1] = e /\ chain[j] \in Events /\ Len(chain) > 0
      BY <1>1, <1>2, <2>2
    <3>2. e.time \in Int /\ chain[j].time \in Int
      BY <3>1 DEF Events
    <3>3. ~(e.time - chain[j].time > MultipleTapThreshold)
      BY <1>3, <2>2, <3>1
    <3> QED BY <3>1, <3>2, <3>3, ConfigAssumption
  <2> QED BY <1>1, <1>2, <2>1, <2>2
<1> QED BY <1>2, <1>4, <1>5, <1>6 DEF CloseTaps, u

\* The loop keeps each event it sees, after those it has seen.
LEMMA ScanStep ==
    ASSUME NEW acc, ScanOK(acc), NEW e \in Events
    PROVE  ScanOK(Scan(acc, e)) /\ ScanLog(Scan(acc, e)) = ScanLog(acc) \o <<e>>
<1>0. /\ acc.result \in Seq(Results) /\ acc.chain \in Seq(Events)
      /\ acc = [result |-> acc.result, chain |-> acc.chain]
    BY DEF ScanOK, Accs
<1> DEFINE d == Unmerged(acc.result)
<1>1. d \in Seq(Events) /\ <<e>> \in Seq(Events)
    BY <1>0, UnmergedType
<1>2. CASE Breaks(acc.chain, e)
  <2> DEFINE m == merge_chain_events(acc.chain)
             r == Result(e.type, <<e>>)
             res == acc.result \o m \o <<r>>
  <2>1. m \in Seq(Results) /\ AllClose(m) /\ Unmerged(m) = acc.chain
    BY <1>0, Merged DEF ScanOK
  <2>2. r \in Results /\ CloseResult(r) /\ r.parts = <<e>>
    BY <1>1 DEF Events, Results, Result, CloseResult
  <2>3. Scan(acc, e) = [result |-> res, chain |-> <<>>]
    BY <1>2 DEF Scan
  <2> HIDE DEF m, r
  <2>4. <<r>> \in Seq(Results) /\ AllClose(<<r>>) /\ Unmerged(<<r>>) = <<e>>
    BY <2>2, OneResult
  <2>5. /\ acc.result \o m \in Seq(Results) /\ AllClose(acc.result \o m)
        /\ Unmerged(acc.result \o m) = d \o acc.chain
    BY <1>0, <2>1, AllCloseConcat, UnmergedConcat DEF ScanOK
  <2>6. /\ res \in Seq(Results) /\ AllClose(res)
        /\ Unmerged(res) = (d \o acc.chain) \o <<e>>
    BY <2>4, <2>5, AllCloseConcat, UnmergedConcat
  <2>7. <<>> \in Seq(Events) /\ CloseTaps(<<>>)
    BY EmptySeq, ConfigAssumption DEF CloseTaps
  <2> HIDE DEF res
  <2>8. ScanOK(Scan(acc, e))
    BY <2>3, <2>6, <2>7 DEF ScanOK, Accs
  <2>9. Unmerged(res) \o <<>> = Unmerged(res)
    BY <2>6, UnmergedType, ConcatEmptySeq
  <2>10. ScanLog(Scan(acc, e)) = Unmerged(res) \o <<>>
    BY <2>3 DEF ScanLog
  <2>11. ScanLog(acc) = d \o acc.chain
    BY DEF ScanLog
  <2> HIDE DEF d
  <2> QED BY <2>6, <2>8, <2>9, <2>10, <2>11
<1>3. CASE ~Breaks(acc.chain, e)
  <2> DEFINE c == Append(acc.chain, e)
  <2>1. c \in Seq(Events) /\ CloseTaps(c) /\ c = acc.chain \o <<e>>
    BY <1>0, <1>3, ChainGrows, AppendIsConcat DEF ScanOK
  <2>2. Scan(acc, e) = [result |-> acc.result, chain |-> c]
    BY <1>0, <1>3 DEF Scan
  <2> HIDE DEF c
  <2>3. ScanOK(Scan(acc, e))
    BY <1>0, <2>1, <2>2 DEF ScanOK, Accs
  <2>4. d \o (acc.chain \o <<e>>) = (d \o acc.chain) \o <<e>>
    BY <1>0, <1>1, ConcatAssociative
  <2>5. ScanLog(Scan(acc, e)) = d \o c
    BY <2>2 DEF ScanLog
  <2>6. ScanLog(acc) = d \o acc.chain
    BY DEF ScanLog
  <2> HIDE DEF d
  <2> QED BY <2>1, <2>3, <2>4, <2>5, <2>6
<1> QED BY <1>2, <1>3

\* The whole loop: what is returned and the chain that is left are the queue.
LEMMA ScannedOK ==
    ASSUME event_queue \in Seq(Events)
    PROVE  ScanOK(Scanned) /\ ScanLog(Scanned) = event_queue
<1> DEFINE q == event_queue
           a == [result |-> <<>>, chain |-> <<>>]
           A == {acc \in Accs : ScanOK(acc)}
           G == [p \in A \X (1 .. Len(q)) |-> Scan(p[1], q[p[2]])]
           scan == CHOOSE f : f = [i \in 0 .. Len(q) |->
                       IF i = 0 THEN a ELSE Scan(f[i - 1], q[i])]
<1>1. Scanned = scan[Len(q)]
    BY DEF Scanned
<1> HIDE DEF scan
<1>2. Len(q) \in Nat /\ \A i \in 1 .. Len(q) : q[i] \in Events
    BY LenProperties, ElementOfSeq
<1>3. ScanOK(a) /\ a \in A /\ ScanLog(a) = <<>>
  <2>1. <<>> \in Seq(Results) /\ <<>> \in Seq(Events)
    BY EmptySeq
  <2>2. AllClose(<<>>) /\ CloseTaps(<<>>)
    BY EmptySeq, ConfigAssumption DEF AllClose, CloseTaps
  <2>3. a \in Accs
    BY <2>1 DEF Accs
  <2>4. <<>> \o <<>> = <<>>
    BY <2>1, ConcatEmptySeq
  <2> QED BY <2>2, <2>3, <2>4, UnmergedShort DEF ScanOK, ScanLog
<1>4. \A acc \in A, i \in 1 .. Len(q) : Scan(acc, q[i]) \in A
    BY <1>2, ScanStep DEF ScanOK
<1>5. G \in [A \X (1 .. Len(q)) -> A]
    BY <1>4
<1> HIDE DEF q, a, A, G
<1>6. PICK f : Iterates(f, A, a, G, Len(q))
    BY <1>2, <1>3, <1>5, Recursion
<1>7. \A acc \in A, i \in 1 .. Len(q) : G[<<acc, i>>] = Scan(acc, q[i])
    BY DEF G
<1>8. f \in [0 .. Len(q) -> A] /\ f[0] = a
    BY <1>6 DEF Iterates
<1>9. ASSUME NEW i \in 1 .. Len(q)
      PROVE  i - 1 \in 0 .. Len(q) /\ f[i - 1] \in A /\ f[i] = Scan(f[i - 1], q[i])
  <2>1. i - 1 \in 0 .. Len(q)
    BY <1>2
  <2>2. f[i - 1] \in A /\ f[i] = G[<<f[i - 1], i>>]
    BY <1>6, <2>1 DEF Iterates
  <2> QED BY <1>7, <2>1, <2>2
<1>10. scan = [i \in 0 .. Len(q) |-> IF i = 0 THEN a ELSE Scan(scan[i - 1], q[i])]
  <2>1. ASSUME NEW i \in 0 .. Len(q)
        PROVE  f[i] = IF i = 0 THEN a ELSE Scan(f[i - 1], q[i])
    <3>1. CASE i = 0
      BY <1>8, <3>1
    <3>2. CASE i # 0
      BY <1>2, <1>9, <3>2
    <3> QED BY <3>1, <3>2
  <2>2. f = [i \in 0 .. Len(q) |-> IF i = 0 THEN a ELSE Scan(f[i - 1], q[i])]
    BY <1>8, <2>1
  <2> QED BY <2>2 DEF scan
<1>11. scan[Len(q)] = f[Len(q)]
  <2>1. scan[0] = a /\ \A i \in 1 .. Len(q) : scan[i] = Scan(scan[i - 1], q[i])
    BY <1>2, <1>10
  <2>2. Follows(scan, A, a, G, Len(q))
    BY <1>7, <2>1 DEF Follows
  <2> QED BY <1>2, <1>6, <2>2, SameIterates
<1> DEFINE S == {n \in Nat : n <= Len(q) => ScanLog(f[n]) = SubSeq(q, 1, n)}
<1>12. 0 \in S
    BY <1>3, <1>8, SubSeqEmpty
<1>13. ASSUME NEW n \in Nat, n \in S PROVE n + 1 \in S
  <2> SUFFICES ASSUME n + 1 <= Len(q)
               PROVE  ScanLog(f[n + 1]) = SubSeq(q, 1, n + 1)
    OBVIOUS
  <2>1. n + 1 \in 1 .. Len(q) /\ (n + 1) - 1 = n /\ ScanLog(f[n]) = SubSeq(q, 1, n)
    BY <1>2, <1>13
  <2>2. f[n] \in A /\ f[n + 1] = Scan(f[n], q[n + 1])
    BY <1>9, <2>1
  <2>3. ScanLog(f[n + 1]) = ScanLog(f[n]) \o <<q[n + 1]>>
    BY <1>2, <2>1, <2>2, ScanStep DEF A
  <2>4. SubSeq(q, 1, n + 1) = SubSeq(q, 1, (n + 1) - 1) \o <<q[n + 1]>>
    <3>1. q \in Seq(Events) /\ 1 \in 1 .. Len(q) /\ n + 1 \in 1 .. Len(q)
      BY <1>2, <2>1 DEF q
    <3> QED BY <3>1, SubSeqRecursiveSecond
  <2> QED BY <2>1, <2>3, <2>4
<1>14. Nat \subseteq S
  <2> HIDE DEF S
  <2> QED BY <1>12, <1>13, SetInduction
<1>15. ScanLog(f[Len(q)]) = SubSeq(q, 1, Len(q))
    BY <1>2, <1>14
<1>16. SubSeq(q, 1, Len(q)) = q
    BY SubSeqFull DEF q
<1>17. ScanOK(f[Len(q)])
    BY <1>2, <1>8 DEF A
<1> QED
    BY <1>1, <1>11, <1>15, <1>16, <1>17 DEF q

\* Without multi-tap detection every event is a result of its own.
LEMMA Singletons ==
    ASSUME NEW q \in Seq(Events),
           NEW s, s = [i \in DOMAIN q |-> Result(q[i].type, <<q[i]>>)]
    PROVE  s \in Seq(Results) /\ AllClose(s) /\ Unmerged(s) = q
<1>1. /\ Len(q) \in Nat /\ DOMAIN q = 1 .. Len(q)
      /\ \A i \in 1 .. Len(q) : q[i] \in Events
    BY LenProperties, ElementOfSeq
<1>2. ASSUME NEW i \in 1 .. Len(q)
      PROVE  /\ s[i] \in Results /\ s[i].parts = <<q[i]>> /\ CloseResult(s[i])
  <2>1. q[i] \in Events /\ s[i] = Result(q[i].type, <<q[i]>>)
    BY <1>1
  <2>2. <<q[i]>> \in Seq(Events) /\ q[i].type \in {"TAP", "LONG_TAP"}
    BY <2>1 DEF Events
  <2> QED BY <2>1, <2>2 DEF Results, Result, CloseResult
<1>3. s \in Seq(Results) /\ Len(s) = Len(q)
    BY <1>1, <1>2
<1>4. PICK f : UnmergedBy(f, s)
    BY <1>3, UnmergedRecursion
<1> DEFINE S == {n \in Nat : n <= Len(q) => f[n] = SubSeq(q, 1, n)}
<1>5. 0 \in S
    BY <1>4, SubSeqEmpty DEF UnmergedBy
<1>6. ASSUME NEW n \in Nat, n \in S PROVE n + 1 \in S
  <2> SUFFICES ASSUME n + 1 <= Len(q)
               PROVE  f[n + 1] = SubSeq(q, 1, n + 1)
    OBVIOUS
  <2>1. n + 1 \in 1 .. Len(q) /\ (n + 1) - 1 = n /\ f[n] = SubSeq(q, 1, n)
    BY <1>1, <1>6
  <2>2. f[n + 1] = f[(n + 1) - 1] \o s[n + 1].parts
    BY <1>3, <1>4, <2>1 DEF UnmergedBy
  <2>3. SubSeq(q, 1, n + 1) = SubSeq(q, 1, (n + 1) - 1) \o <<q[n + 1]>>
    <3>1. 1 \in 1 .. Len(q) /\ n + 1 \in 1 .. Len(q)
      BY <1>1, <2>1
    <3> QED BY <3>1, SubSeqRecursiveSecond
  <2> QED BY <1>2, <2>1, <2>2, <2>3
<1>7. Nat \subseteq S
  <2> HIDE DEF S
  <2> QED BY <1>5, <1>6, SetInduction
<1>8. f[Len(q)] = q
    BY <1>1, <1>7, SubSeqFull
<1>9. AllClose(s)
    BY <1>2, <1>3 DEF AllClose
<1> QED
    BY <1>3, <1>4, <1>8, <1>9 DEF UnmergedBy

\* What is queued are events and what was returned are close results.
QueuesOK ==
    /\ event_queue \in Seq(Events)
    /\ delivered \in Seq(Results)
    /\ AllClose(delivered)

\* DrainEvents only moves events from the queue to its results: none is lost,
\* doubled or put before another, whether the last chain is flushed or
\* deferred.
LEMMA DrainKeepsLog ==
    ASSUME QueuesOK, DrainEvents
    PROVE  QueuesOK' /\ Log' = Log
<1> DEFINE d == Unmerged(delivered)
<1>0. d \in Seq(Events) /\ event_queue \in Seq(Events) /\ delivered \in Seq(Results)
    BY UnmergedType DEF QueuesOK
<1>1. CASE event_queue = <<>>
    BY <1>1 DEF DrainEvents, DrainEmpty, QueuesOK, Log
<1>2. CASE DrainPlain
  <2> DEFINE s == [i \in DOMAIN event_queue |->
                      Result(event_queue[i].type, <<event_queue[i]>>)]
  <2>1. delivered' = delivered \o s /\ event_queue' = <<>>
    BY <1>2 DEF DrainPlain
  <2>2. s \in Seq(Results) /\ AllClose(s) /\ Unmerged(s) = event_queue
    BY <1>0, Singletons
  <2> HIDE DEF s
  <2>3. delivered' \in Seq(Results) /\ AllClose(delivered')
    BY <2>1, <2>2, AllCloseConcat DEF QueuesOK
  <2>4. Unmerged(delivered') = d \o event_queue
    BY <1>0, <2>1, <2>2, UnmergedConcat
  <2>5. Log' = Unmerged(delivered') \o event_queue'
    BY DEF Log
  <2>6. Unmerged(delivered') \o <<>> = Unmerged(delivered')
    BY <2>3, UnmergedType, ConcatEmptySeq
  <2>7. Log' = Log
    BY <2>1, <2>4, <2>5, <2>6 DEF Log
  <2>8. QueuesOK'
    BY <2>1, <2>3, EmptySeq DEF QueuesOK, AllClose
  <2> QED BY <2>7, <2>8
<1> DEFINE res == Scanned.result
           c == Scanned.chain
<1>3. /\ res \in Seq(Results) /\ c \in Seq(Events)
      /\ AllClose(res) /\ CloseTaps(c) /\ Unmerged(res) \o c = event_queue
    BY <1>0, ScannedOK DEF ScanOK, ScanLog, Accs
<1>3b. (d \o Unmerged(res)) \o c = d \o (Unmerged(res) \o c)
  <2> DEFINE x == Unmerged(res)
  <2>1. d \in Seq(Events) /\ x \in Seq(Events) /\ c \in Seq(Events)
    BY <1>0, <1>3, UnmergedType
  <2> HIDE DEF d, x, c
  <2>2. (d \o x) \o c = d \o (x \o c)
    BY <2>1, ConcatAssociative
  <2> QED BY <2>2 DEF x
<1>4. CASE DrainFlush
  <2> DEFINE m == merge_chain_events(c)
  <2>1. delivered' = delivered \o res \o m /\ event_queue' = <<>>
    BY <1>4 DEF DrainFlush
  <2> HIDE DEF res, c
  <2>2. m \in Seq(Results) /\ AllClose(m) /\ Unmerged(m) = c
    BY <1>3, Merged
  <2> HIDE DEF m
  <2>3. /\ delivered \o res \in Seq(Results) /\ AllClose(delivered \o res)
        /\ Unmerged(delivered \o res) = d \o Unmerged(res)
    BY <1>0, <1>3, AllCloseConcat, UnmergedConcat DEF QueuesOK
  <2>4. /\ delivered' \in Seq(Results) /\ AllClose(delivered')
        /\ Unmerged(delivered') = (d \o Unmerged(res)) \o c
    BY <2>1, <2>2, <2>3, AllCloseConcat, UnmergedConcat
  <2>6. Unmerged(delivered') \o <<>> = Unmerged(delivered')
    BY <2>4, UnmergedType, ConcatEmptySeq
  <2>7. Log' = Log
    BY <1>3, <1>3b, <2>1, <2>4, <2>6 DEF Log
  <2>8. QueuesOK'
    BY <2>1, <2>4, EmptySeq DEF QueuesOK, AllClose
  <2> QED BY <2>7, <2>8
<1>5. CASE DrainDefer
  <2>1. delivered' = delivered \o res /\ event_queue' = c
    BY <1>5 DEF DrainDefer
  <2> HIDE DEF res, c
  <2>2. /\ delivered' \in Seq(Results) /\ AllClose(delivered')
        /\ Unmerged(delivered') = d \o Unmerged(res)
    BY <1>0, <1>3, <2>1, AllCloseConcat, UnmergedConcat DEF QueuesOK
  <2>4. Log' = Log
    BY <1>3, <1>3b, <2>1, <2>2 DEF Log
  <2>5. QueuesOK'
    BY <1>3, <2>1, <2>2 DEF QueuesOK, AllClose
  <2> QED BY <2>4, <2>5
<1> QED
    BY <1>1, <1>2, <1>4, <1>5 DEF DrainEvents

-----------------------------------------------------------------------------
(* What each step adds to the log, and the types.                          *)

\* The key events of evdev.
KeyEvents == [value : {0, 1}, time : Nat, press : Nat]

\* Taking an element from a queue keeps the types.
LEMMA HeadAndTail ==
    ASSUME NEW S, NEW s \in Seq(S), s # <<>>
    PROVE  Head(s) \in S /\ Tail(s) \in Seq(S)
OBVIOUS

\* daemon() reads a key event and leaves key events.
LEMMA NextKeyRead ==
    ASSUME TypeOK, NEW value, NextKey(value)
    PROVE  /\ Head(evdev) \in KeyEvents /\ evdev' \in Seq(KeyEvents)
           /\ Head(evdev).time \in Nat /\ Head(evdev).press \in Nat
<1>1. evdev \in Seq(KeyEvents) /\ evdev # <<>> /\ evdev' = Tail(evdev)
    BY DEF TypeOK, NextKey, KeyEvents
<1>2. Head(evdev) \in KeyEvents /\ Tail(evdev) \in Seq(KeyEvents)
    BY <1>1, HeadAndTail
<1> QED BY <1>1, <1>2 DEF KeyEvents

\* Steps that touch neither the queue nor the results keep the log.
LEMMA LogUnchanged ==
    ASSUME QueuesOK, UNCHANGED <<event_queue, delivered>>
    PROVE  QueuesOK' /\ Log' = Log
BY DEF QueuesOK, Log, AllClose

\* An event that is queued comes last in the log.
LEMMA LogAppended ==
    ASSUME QueuesOK, NEW e \in Events,
           event_queue' = Append(event_queue, e), delivered' = delivered
    PROVE  QueuesOK' /\ Log \in Seq(Events) /\ Log' = Append(Log, e)
<1> DEFINE d == Unmerged(delivered)
           q == event_queue
<1>1. d \in Seq(Events) /\ q \in Seq(Events) /\ <<e>> \in Seq(Events)
    BY UnmergedType DEF QueuesOK
<1>2. Log = d \o q /\ Log' = d \o Append(q, e)
    BY DEF Log
<1> HIDE DEF d, q
<1>3. Append(q, e) = q \o <<e>> /\ Append(q, e) \in Seq(Events)
    BY <1>1, AppendIsConcat, AppendProperties
<1>4. d \o q \in Seq(Events)
    BY <1>1, ConcatProperties
<1>5. Append(d \o q, e) = (d \o q) \o <<e>>
    BY <1>4, AppendIsConcat
<1>6. (d \o q) \o <<e>> = d \o (q \o <<e>>)
    BY <1>1, ConcatAssociative
<1>7. QueuesOK'
    BY <1>3 DEF QueuesOK, AllClose, q
<1> QED BY <1>2, <1>3, <1>4, <1>5, <1>6, <1>7

\* The log grows by e.
Logged(e) ==
    /\ e \in Events
    /\ Log \in Seq(Events) /\ Log' = Append(Log, e)

\* TapType is one of the types of an event.
LEMMA TapTyped ==
    ASSUME NEW duration PROVE TapType(duration) \in {"TAP", "LONG_TAP"}
BY DEF TapType

\* KEY UP logs its press, unless the timer has reported it.
LEMMA KeyUpLog ==
    ASSUME TypeOK, QueuesOK, KeyUp
    PROVE  /\ QueuesOK'
           /\ long_tap_reported => Log' = Log
           /\ ~long_tap_reported =>
                  \E e : /\ Logged(e) /\ e.press = Head(evdev).press
                        /\ e.type = TapType(Head(evdev).time - press_start)
                        /\ e.time = Head(evdev).time
<1>1. Head(evdev).time \in Nat /\ Head(evdev).press \in Nat /\ press_start \in Int
    BY NextKeyRead DEF KeyUp, TypeOK
<1>2. delivered' = delivered
    BY DEF KeyUp, NextKey, consumer
<1>3. CASE long_tap_reported
  <2>1. event_queue' = event_queue
    BY <1>3 DEF KeyUp, Reported
  <2> QED BY <1>2, <1>3, <2>1, LogUnchanged
<1>4. CASE ~long_tap_reported
  <2> DEFINE duration == Head(evdev).time - press_start
             e == InputEvent(TapType(duration), Head(evdev).time, duration,
                             Head(evdev).press)
  <2>1. event_queue' = Append(event_queue, e)
    BY <1>4 DEF KeyUp, Reported
  <2>2. duration \in Int
    BY <1>1
  <2> HIDE DEF duration
  <2>3. /\ e \in Events /\ e.press = Head(evdev).press
        /\ e.type = TapType(duration) /\ e.time = Head(evdev).time
    BY <1>1, <2>2, TapTyped DEF Events, InputEvent
  <2> HIDE DEF e
  <2> QED BY <1>2, <1>4, <2>1, <2>3, LogAppended DEF Logged, duration
<1> QED BY <1>3, <1>4 DEF TypeOK

\* The long-tap callback logs the press it finds if that is due.
LEMMA CallbackLog ==
    ASSUME TypeOK, QueuesOK, LongTapCallback
    PROVE  /\ QueuesOK'
           /\ ~LongTapDue => Log' = Log
           /\ LongTapDue => \E e : /\ Logged(e) /\ e.press = press
                                 /\ e.type = "LONG_TAP" /\ e.time = now
<1>2. delivered' = delivered
    BY DEF LongTapCallback, consumer
<1>3. CASE ~LongTapDue
  <2>1. event_queue' = event_queue
    BY <1>3 DEF LongTapCallback
  <2> QED BY <1>2, <1>3, <2>1, LogUnchanged
<1>4. CASE LongTapDue
  <2> DEFINE e == InputEvent("LONG_TAP", now, now - press_start, press)
  <2>1. event_queue' = Append(event_queue, e)
    BY <1>4 DEF LongTapCallback
  <2>2. e \in Events /\ e.press = press /\ e.type = "LONG_TAP" /\ e.time = now
    BY DEF TypeOK, Events, InputEvent
  <2> HIDE DEF e
  <2> QED BY <1>2, <1>4, <2>1, <2>2, LogAppended DEF Logged
<1> QED BY <1>3, <1>4

\* An injected event is of no press.
LEMMA InjectLog ==
    ASSUME TypeOK, QueuesOK, InjectTap \/ InjectLong \/ InjectMulti
    PROVE  /\ QueuesOK'
           /\ \E e : Logged(e) /\ e.press = 0
<1>1. PICK type \in {"TAP", "LONG_TAP"}, time \in Int : InjectEvent(type, time)
    BY ConfigAssumption DEF InjectTap, InjectLong, InjectMulti, TypeOK
<1> DEFINE e == InputEvent(type, time, 0, 0)
<1>2. event_queue' = Append(event_queue, e) /\ delivered' = delivered
    BY <1>1 DEF InjectEvent, consumer
<1>3. e \in Events /\ e.press = 0
    BY DEF Events, InputEvent
<1> HIDE DEF e
<1> QED BY <1>2, <1>3, LogAppended DEF Logged

\* All other steps.
OtherStep ==
    \/ UNCHANGED vars \/ PressKey \/ ReleaseKey \/ Tick \/ KeyDownSeen \/ KeyDown
    \/ KeyIgnored \/ ReaderSignal \/ LongTapExpire \/ MultiTapFire
    \/ InjectPress \/ IpcSignal \/ WakeInput \/ WakeLazy \/ WakeOther
    \/ Shutdown \/ arm_lazy_wait

\* They log nothing.
LEMMA OtherLog ==
    ASSUME QueuesOK, OtherStep
    PROVE  QueuesOK' /\ Log' = Log
<1>1. UNCHANGED <<event_queue, delivered>>
    BY DEF OtherStep, vars, PressKey, ReleaseKey, Tick, KeyDownSeen, KeyDown,
       KeyIgnored, NextKey, ReaderSignal, LongTapExpire, MultiTapFire,
       InjectPress, IpcSignal, WakeInput, WakeLazy, WakeOther, Wake, Shutdown,
       arm_lazy_wait, consumer
<1> QED BY <1>1, LogUnchanged

\* There are no further steps.
LEMMA Steps ==
    ASSUME [Next]_vars
    PROVE  \/ OtherStep \/ KeyUp \/ LongTapCallback \/ DrainEvents
           \/ InjectTap \/ InjectLong \/ InjectMulti
BY DEF Next, Environment, Reader, Injector, Mainloop, Terminated, OtherStep

\* Every step keeps the types; a deferred chain ends with an event, so that its
\* deadline is a time.
LEMMA TypeStep ==
    ASSUME TypeOK, QueuesOK, [Next]_vars
    PROVE  TypeOK'
<1> USE DEF TypeOK
<1>1. CASE UNCHANGED vars \/ Terminated
    BY <1>1 DEF Terminated, vars, clock, button, timers, consumer, injector
<1>2. CASE PressKey
    BY <1>2 DEF PressKey, button, timers, consumer, injector
<1>3. CASE ReleaseKey
  <2>1. evdev' \in Seq(KeyEvents)
    BY <1>3 DEF ReleaseKey, KeyEvents
  <2> QED
    BY <1>3, <2>1 DEF ReleaseKey, KeyEvents, button, timers, consumer, injector
<1>4. CASE Tick
    BY <1>4 DEF Tick, clock, button, timers, consumer, injector
<1>5. CASE KeyDown
  <2>1. /\ Head(evdev).time \in Nat /\ Head(evdev).press \in Nat
        /\ evdev' \in Seq(KeyEvents)
    BY <1>5, NextKeyRead DEF KeyDown
  <2>2. long_tap_timer' \in Nat \cup {None}
    BY <1>5, ConfigAssumption DEF KeyDown
  <2>3. pressed' \in BOOLEAN /\ long_tap_reported' \in BOOLEAN
    BY <1>5 DEF KeyDown
  <2>4. press_start' \in Int /\ press' \in Nat
    BY <1>5, <2>1 DEF KeyDown
  <2> QED
    BY <1>5, <2>1, <2>2, <2>3, <2>4 DEF KeyDown, NextKey, KeyEvents, clock, consumer,
       injector
<1>6. CASE KeyUp
  <2>1. Head(evdev).press \in Nat /\ evdev' \in Seq(KeyEvents)
    BY <1>6, NextKeyRead DEF KeyUp
  <2> QED
    BY <1>6, <2>1 DEF KeyUp, NextKey, KeyEvents, None, clock, consumer, injector
<1>7. CASE KeyIgnored
  <2>1. evdev' \in Seq(KeyEvents)
    BY <1>7, NextKeyRead DEF KeyIgnored
  <2> QED
    BY <1>7, <2>1 DEF KeyIgnored, NextKey, KeyEvents, clock, button, consumer, injector
<1>8. CASE ReaderSignal \/ KeyDownSeen
    BY <1>8 DEF ReaderSignal, KeyDownSeen, clock, button, timers, consumer, injector
<1>9. CASE LongTapExpire
    BY <1>9 DEF LongTapExpire, None, clock, button, consumer, injector
<1>10. CASE LongTapCallback
  <2>1. long_tap_reported' \in BOOLEAN /\ wake' \in BOOLEAN
    BY <1>10 DEF LongTapCallback
  <2>2. long_tap_callbacks' \in Nat
    BY <1>10 DEF LongTapCallback
  <2> QED
    BY <1>10, <2>1, <2>2 DEF LongTapCallback, clock, consumer, injector
<1>11. CASE MultiTapFire
    BY <1>11 DEF MultiTapFire, None, clock, button, consumer, injector
<1>12. CASE InjectTap \/ InjectLong \/ InjectMulti
  <2>1. PICK type, time : InjectEvent(type, time)
    BY <1>12 DEF InjectTap, InjectLong, InjectMulti
  <2> QED
    BY <2>1 DEF InjectEvent, clock, button, timers, consumer
<1>13. CASE InjectPress
    BY <1>13, ConfigAssumption DEF InjectPress, clock, timers, consumer
<1>14. CASE IpcSignal
    BY <1>14 DEF IpcSignal, clock, button, timers, consumer
<1>15. CASE WakeInput \/ WakeLazy \/ WakeOther
    BY <1>15 DEF WakeInput, WakeLazy, WakeOther, Wake, clock, button, timers, injector
<1>16. CASE Shutdown
    BY <1>16 DEF Shutdown, clock, button, timers, injector
<1>17. CASE DrainEvents
  <2>1. UNCHANGED <<clock, evdev, button, long_tap_timer, long_tap_callbacks,
                    reader, injector, lazy_timer, shutting_down>>
        /\ mainloop' = "arm"
    BY <1>17 DEF DrainEvents
  <2>2. wake' \in BOOLEAN /\ multi_tap_timer' \in Nat \cup {None}
    <3>1. CASE event_queue = <<>>
      BY <1>17, <3>1 DEF DrainEvents, DrainEmpty
    <3>2. CASE DrainPlain \/ DrainFlush
      BY <3>2 DEF DrainPlain, DrainFlush
    <3>3. CASE DrainDefer
      <4> DEFINE deadline == Last(Scanned.chain).time + MultipleTapThreshold
      <4>1. /\ multi_tap_timer' = IF deadline <= now THEN None ELSE deadline
            /\ wake' = (wake \/ deadline <= now)
            /\ Scanned.chain # <<>>
        BY <3>3 DEF DrainDefer, arm_multi_tap_timer_locked
      <4>2. Scanned.chain \in Seq(Events)
        BY ScannedOK DEF ScanOK, Accs, QueuesOK
      <4>3. deadline \in Int
        <5> DEFINE c == Scanned.chain
        <5>1. c \in Seq(Events) /\ c # <<>>
          BY <4>1, <4>2
        <5> HIDE DEF c
        <5>2. Len(c) \in Nat \ {0}
          BY <5>1, EmptySeq
        <5>3. c[Len(c)] \in Events
          BY <5>1, <5>2, ElementOfSeq
        <5>4. Last(c).time \in Int
          BY <5>3 DEF Last, Events
        <5> QED BY <5>4, ConfigAssumption DEF c
      <4> HIDE DEF deadline
      <4> QED BY <4>1, <4>3
    <3> QED BY <1>17, <3>1, <3>2, <3>3 DEF DrainEvents
  <2> QED BY <2>1, <2>2 DEF clock, button, injector
<1>18. CASE arm_lazy_wait
  <2>1. lazy_timer' \in Nat \cup {None}
    BY <1>18, ConfigAssumption DEF arm_lazy_wait, ShutdownDeadline
  <2> QED BY <1>18, <2>1 DEF arm_lazy_wait, clock, button, timers, injector
<1> QED
    BY <1>1, <1>2, <1>3, <1>4, <1>5, <1>6, <1>7, <1>8, <1>9, <1>10, <1>11,
       <1>12, <1>13, <1>14, <1>15, <1>16, <1>17, <1>18
    DEF Next, Environment, Reader, Injector, Mainloop

\* Every step keeps the queue and the results in order.
LEMMA QueuesStep ==
    ASSUME TypeOK, QueuesOK, [Next]_vars
    PROVE  QueuesOK'
BY Steps, KeyUpLog, CallbackLog, InjectLog, DrainKeepsLog, OtherLog

\* In every reachable state the fields of the device, its timers and goroutines
\* are what TypeOK says, event_queue holds events, and DrainEvents has returned
\* events merged into results of close taps.
THEOREM TypeCorrect == Spec => [](TypeOK /\ QueuesOK)
<1>1. Init => TypeOK /\ QueuesOK
  <2>1. Init => TypeOK
    <3> SUFFICES ASSUME Init PROVE TypeOK
      OBVIOUS
    <3>1. evdev \in Seq([value : {0, 1}, time : Nat, press : Nat])
      BY EmptySeq DEF Init
    <3>2. {long_tap_timer, multi_tap_timer, lazy_timer} \subseteq Nat \cup {None}
      BY DEF Init
    <3>3. /\ now \in Nat /\ presses \in Nat /\ press_start \in Int /\ press \in Nat
          /\ released \in Nat /\ long_tap_callbacks \in Nat /\ injected \in Nat
      BY DEF Init
    <3>4. /\ key_down \in BOOLEAN /\ pressed \in BOOLEAN
          /\ long_tap_reported \in BOOLEAN /\ wake \in BOOLEAN
          /\ shutting_down \in BOOLEAN
      BY DEF Init
    <3>5. /\ reader \in {"read", "key_down", "signal"} /\ ipc \in {"idle", "signal"}
          /\ mainloop \in {"select", "handle", "arm"}
      BY DEF Init
    <3> QED BY <3>1, <3>2, <3>3, <3>4, <3>5 DEF TypeOK
  <2>2. Init => QueuesOK
    BY EmptySeq DEF Init, QueuesOK, AllClose
  <2> QED BY <2>1, <2>2
<1> QED
    BY <1>1, TypeStep, QueuesStep, PTL DEF Spec

\* A MULTIPLE_TAP is made of 2 .. MultipleTapMaxCount taps, none more than
\* MultipleTapThreshold after the one before it, for all thresholds and however
\* taps are deferred, injected and drained.
THEOREM TapsAreClose == Spec => []MultipleTapsAreClose
<1>1. QueuesOK => MultipleTapsAreClose
    BY LenProperties DEF QueuesOK, AllClose, CloseResult, CloseTaps,
       MultipleTapsAreClose, Results
<1> QED
    BY <1>1, TypeCorrect, PTL

-----------------------------------------------------------------------------
(* Every press once.                                                       *)

\* Presses and releases wait in evdev in turn, from the first that daemon() has
\* not read to the last that the key has made; a press is reported at most
\* while it lasts.
Alternate(a, b) ==
    IF a.value = 1 THEN b.value = 0 /\ b.press = a.press
    ELSE b.value = 1 /\ b.press = a.press + 1

KeysInv ==
    /\ \A i \in 1 .. Len(evdev) - 1 : Alternate(evdev[i], evdev[i + 1])
    /\ evdev # <<>> =>
           /\ evdev[1].value = IF pressed THEN 0 ELSE 1
           /\ evdev[1].press = released + 1
           /\ evdev[Len(evdev)].value = IF key_down THEN 1 ELSE 0
           /\ evdev[Len(evdev)].press = presses
    /\ evdev = <<>> =>
           /\ pressed = key_down
           /\ presses = released + IF pressed THEN 1 ELSE 0
    /\ pressed => press = released + 1
    /\ long_tap_reported => pressed
    /\ reader = "key_down" => evdev # <<>> /\ ~pressed

\* The key alternates.
LEMMA KeysAppend ==
    ASSUME TypeOK, KeysInv, PressKey \/ ReleaseKey
    PROVE  KeysInv'
<1> PICK e \in KeyEvents :
        /\ evdev' = Append(evdev, e) /\ e.value = (IF key_down THEN 0 ELSE 1)
        /\ key_down' = ~key_down
        /\ presses' = IF key_down THEN presses ELSE presses + 1
        /\ e.press = presses'
  <2>1. CASE PressKey
    <3> DEFINE e == [value |-> 1, time |-> now, press |-> presses + 1]
    <3>1. e \in KeyEvents
      BY DEF TypeOK, KeyEvents
    <3> QED BY <2>1, <3>1 DEF PressKey
  <2>2. CASE ReleaseKey
    <3> DEFINE e == [value |-> 0, time |-> now, press |-> presses]
    <3>1. e \in KeyEvents
      BY DEF TypeOK, KeyEvents
    <3> QED BY <2>2, <3>1 DEF ReleaseKey
  <2> QED BY <2>1, <2>2
<1>1. UNCHANGED <<pressed, press, released, long_tap_reported, reader>>
    BY DEF PressKey, ReleaseKey, button
<1>2. /\ evdev \in Seq(KeyEvents) /\ Len(evdev) \in Nat
      /\ evdev # <<>> => Len(evdev) > 0
      /\ evdev = <<>> => Len(evdev) = 0
    BY LenProperties, EmptySeq DEF TypeOK, KeyEvents
<1>3. /\ Len(evdev') = Len(evdev) + 1 /\ evdev'[Len(evdev) + 1] = e
      /\ \A i \in 1 .. Len(evdev) : evdev'[i] = evdev[i]
      /\ evdev' # <<>>
    BY <1>2, AppendProperties
<1>4. ASSUME NEW i \in 1 .. Len(evdev') - 1 PROVE Alternate(evdev'[i], evdev'[i + 1])
  <2>1. CASE i < Len(evdev)
    <3>1. /\ i \in 1 .. Len(evdev) - 1
          /\ evdev'[i] = evdev[i] /\ evdev'[i + 1] = evdev[i + 1]
      BY <1>2, <1>3, <2>1
    <3> QED BY <3>1 DEF KeysInv
  <2>2. CASE i = Len(evdev)
    <3>1. evdev'[i] = evdev[Len(evdev)] /\ evdev'[i + 1] = e /\ evdev # <<>>
      BY <1>2, <1>3, <2>2
    <3>2. /\ evdev[Len(evdev)].value = IF key_down THEN 1 ELSE 0
          /\ evdev[Len(evdev)].press = presses
      BY <3>1 DEF KeysInv
    <3> QED BY <3>1, <3>2 DEF Alternate, TypeOK
  <2> QED BY <1>2, <1>3, <2>1, <2>2
<1>5. /\ evdev'[1].value = IF pressed THEN 0 ELSE 1
      /\ evdev'[1].press = released + 1
  <2>1. CASE evdev = <<>>
    <3>1. evdev'[1] = e
      BY <1>2, <1>3, <2>1
    <3>2. pressed = key_down /\ presses = released + IF pressed THEN 1 ELSE 0
      BY <2>1 DEF KeysInv
    <3> QED BY <3>1, <3>2 DEF TypeOK
  <2>2. CASE evdev # <<>>
    <3>1. evdev'[1] = evdev[1]
      BY <1>2, <1>3, <2>2
    <3> QED BY <2>2, <3>1 DEF KeysInv
  <2> QED BY <2>1, <2>2
<1>6. /\ evdev'[Len(evdev')].value = IF key_down' THEN 1 ELSE 0
      /\ evdev'[Len(evdev')].press = presses'
    BY <1>3 DEF TypeOK
<1> QED BY <1>1, <1>3, <1>4, <1>5, <1>6 DEF KeysInv

\* daemon() reads a press and then its release, and forgets a report with it.
LEMMA KeysRead ==
    ASSUME TypeOK, KeysInv, KeyDown \/ KeyUp
    PROVE  KeysInv' /\ Head(evdev).press = released + 1
<1>1. /\ evdev # <<>> /\ evdev' = Tail(evdev)
      /\ UNCHANGED <<key_down, presses>>
      /\ reader' = "signal"
    BY DEF KeyDown, KeyUp, NextKey, clock
<1>2. /\ evdev \in Seq(KeyEvents) /\ Len(evdev) \in Nat \ {0} /\ Head(evdev) = evdev[1]
      /\ Len(evdev') = Len(evdev) - 1
      /\ \A i \in 1 .. Len(evdev') : evdev'[i] = evdev[i + 1]
      /\ evdev' \in Seq(KeyEvents)
  <2>1. evdev \in Seq(KeyEvents)
    BY DEF TypeOK, KeyEvents
  <2> QED BY <1>1, <2>1, HeadTailProperties, EmptySeq
<1>3. /\ evdev[1].value = IF pressed THEN 0 ELSE 1
      /\ evdev[1].press = released + 1
      /\ evdev[Len(evdev)].value = IF key_down THEN 1 ELSE 0
      /\ evdev[Len(evdev)].press = presses
    BY <1>1 DEF KeysInv
<1>4. /\ pressed' = ~pressed
      /\ released' = IF pressed THEN released + 1 ELSE released
      /\ pressed' => press' = released + 1
      /\ ~long_tap_reported'
  <2>1. CASE KeyDown
    <3>1. ~pressed
      BY <2>1 DEF KeyDown, KeysInv
    <3> QED BY <1>2, <1>3, <2>1, <3>1 DEF KeyDown
  <2>2. CASE KeyUp
    BY <1>2, <1>3, <2>2 DEF KeyUp, Reported, TypeOK
  <2> QED BY <2>1, <2>2
<1>5. ASSUME NEW i \in 1 .. Len(evdev') - 1 PROVE Alternate(evdev'[i], evdev'[i + 1])
  <2>1. i + 1 \in 1 .. Len(evdev) - 1 /\ evdev'[i] = evdev[i + 1]
        /\ evdev'[i + 1] = evdev[(i + 1) + 1]
    BY <1>2
  <2> QED BY <2>1 DEF KeysInv
<1>6. CASE evdev' = <<>>
  <2>1. Len(evdev) = 1
    BY <1>2, <1>6, EmptySeq
  <2>2. pressed' = key_down' /\ presses' = released' + IF pressed' THEN 1 ELSE 0
    BY <1>1, <1>3, <1>4, <2>1 DEF TypeOK
  <2> QED BY <1>1, <1>2, <1>3, <1>4, <1>5, <1>6, <2>2 DEF KeysInv
<1>7. CASE evdev' # <<>>
  <2>1. Len(evdev') \in Nat \ {0}
    BY <1>2, <1>7, EmptySeq
  <2>2. 1 \in 1 .. Len(evdev) - 1 /\ evdev'[1] = evdev[1 + 1]
        /\ evdev'[Len(evdev')] = evdev[Len(evdev)]
    BY <1>2, <2>1
  <2>3. Alternate(evdev[1], evdev'[1])
    BY <2>2 DEF KeysInv
  <2>4. /\ evdev'[1].value = IF pressed' THEN 0 ELSE 1
        /\ evdev'[1].press = released' + 1
    <3>1. CASE pressed
      <4>1. evdev[1].value = 0 /\ evdev[1].press = released + 1
        BY <1>3, <3>1
      <4>2. evdev'[1].value = 1 /\ evdev'[1].press = evdev[1].press + 1
        BY <2>3, <4>1 DEF Alternate
      <4>3. ~pressed' /\ released' = released + 1
        BY <1>4, <3>1
      <4> QED BY <4>1, <4>2, <4>3
    <3>2. CASE ~pressed
      BY <1>3, <1>4, <2>3, <3>2 DEF Alternate
    <3> QED BY <3>1, <3>2
  <2>5. /\ evdev'[Len(evdev')].value = IF key_down' THEN 1 ELSE 0
        /\ evdev'[Len(evdev')].press = presses'
    BY <1>1, <1>3, <2>2
  <2>6. pressed' => press' = released' + 1
    BY <1>4
  <2>7. ~long_tap_reported' /\ reader' # "key_down"
    BY <1>1, <1>4
  <2>8. \A i \in 1 .. Len(evdev') - 1 : Alternate(evdev'[i], evdev'[i + 1])
    BY <1>5
  <2> QED BY <1>2, <1>3, <1>7, <2>4, <2>5, <2>6, <2>7, <2>8, Zenon DEF KeysInv
<1> QED BY <1>2, <1>3, <1>6, <1>7

\* No other step touches the key events; without an injected press the reader
\* skips none.
LEMMA KeysStep ==
    ASSUME "shutdown" \notin Injections, TypeOK, KeysInv, [Next]_vars
    PROVE  KeysInv'
<1>1. CASE PressKey \/ ReleaseKey
    BY <1>1, KeysAppend
<1>2. CASE KeyDown \/ KeyUp
    BY <1>2, KeysRead
<1>3. CASE KeyIgnored
  <2>1. PICK value \in {0, 1} : NextKey(value) /\ (pressed <=> value = 1)
    BY <1>3 DEF KeyIgnored
  <2>2. evdev # <<>> /\ Head(evdev).value = value /\ evdev \in Seq(KeyEvents)
    BY <2>1 DEF NextKey, TypeOK, KeyEvents
  <2>3. evdev[1].value = value
    BY <2>2
  <2>4. evdev[1].value = IF pressed THEN 0 ELSE 1
    BY <2>2 DEF KeysInv
  <2>5. CASE pressed
    BY <2>1, <2>3, <2>4, <2>5
  <2>6. CASE ~pressed
    BY <2>1, <2>3, <2>4, <2>6
  <2> QED BY <2>5, <2>6
<1>4. CASE KeyDownSeen
  <2>1. UNCHANGED <<evdev, key_down, presses, pressed, press, released,
                    long_tap_reported>> /\ evdev # <<>> /\ ~pressed
    BY <1>4 DEF KeyDownSeen, clock, button
  <2> QED BY <2>1 DEF KeysInv, Alternate
<1>5. CASE LongTapCallback
  <2>1. UNCHANGED <<evdev, key_down, presses, pressed, press, released, reader>>
        /\ (long_tap_reported' => long_tap_reported \/ pressed)
    BY <1>5 DEF LongTapCallback, LongTapDue, clock
  <2> QED BY <2>1 DEF KeysInv, Alternate
<1>6. CASE \/ UNCHANGED vars \/ Terminated \/ Tick \/ ReaderSignal \/ LongTapExpire
           \/ MultiTapFire \/ InjectTap \/ InjectLong \/ InjectMulti \/ IpcSignal
           \/ WakeInput \/ WakeLazy \/ WakeOther \/ Shutdown \/ DrainEvents
           \/ arm_lazy_wait
  <2>1. UNCHANGED <<evdev, key_down, presses, button>> /\ reader' \in {reader, "read"}
    BY <1>6 DEF vars, Terminated, Tick, ReaderSignal, LongTapExpire,
       MultiTapFire, InjectTap, InjectLong, InjectMulti, InjectEvent, IpcSignal,
       WakeInput, WakeLazy, WakeOther, Wake, Shutdown, DrainEvents,
       arm_lazy_wait, clock
  <2> QED BY <2>1 DEF KeysInv, Alternate, button
<1>7. ~InjectPress
    BY DEF InjectPress
<1> QED
    BY <1>1, <1>2, <1>3, <1>4, <1>5, <1>6, <1>7
    DEF Next, Environment, Reader, Injector, Mainloop

\* In turn, daemon() sees every press and every release, if no press is
\* injected.
THEOREM KeysKept == "shutdown" \notin Injections => (Spec => []KeysInv)
<1> SUFFICES ASSUME "shutdown" \notin Injections PROVE Spec => []KeysInv
    OBVIOUS
<1>1. Init => KeysInv
  <2> SUFFICES ASSUME Init PROVE KeysInv
    OBVIOUS
  <2>1. evdev = <<>> /\ Len(evdev) = 0 /\ pressed = key_down
        /\ ~pressed /\ ~long_tap_reported /\ reader # "key_down"
    BY EmptySeq DEF Init
  <2>2. presses = released + IF pressed THEN 1 ELSE 0
    BY <2>1 DEF Init
  <2> QED BY <2>1, <2>2 DEF KeysInv
<1> QED
    BY <1>1, KeysStep, TypeCorrect, PTL DEF Spec

\* Exactly the presses 1 .. n have their event in log, in this order.
InOrder(log, n) ==
    /\ {log[i].press : i \in DOMAIN log} \ {0} = 1 .. n
    /\ \A i, j \in DOMAIN log :
           i < j /\ log[i].press # 0 /\ log[j].press # 0
               => log[i].press < log[j].press

\* An event of no press, or of the next one, keeps that.
LEMMA InOrderAppend ==
    ASSUME NEW log \in Seq(Events), NEW n \in Nat, InOrder(log, n), NEW e \in Events
    PROVE  /\ e.press = 0 => InOrder(Append(log, e), n)
           /\ e.press = n + 1 => InOrder(Append(log, e), n + 1)
<1> DEFINE u == Append(log, e)
<1>1. /\ Len(log) \in Nat /\ DOMAIN log = 1 .. Len(log)
      /\ \A i \in 1 .. Len(log) : log[i].press \in Nat
  <2>1. \A i \in 1 .. Len(log) : log[i] \in Events
    BY ElementOfSeq
  <2> QED BY <2>1, LenProperties DEF Events
<1>2. /\ DOMAIN u = 1 .. Len(log) + 1 /\ u[Len(log) + 1] = e
      /\ \A i \in 1 .. Len(log) : u[i] = log[i]
  <2>1. u \in Seq(Events) /\ Len(u) = Len(log) + 1 /\ u[Len(log) + 1] = e
        /\ \A i \in 1 .. Len(log) : u[i] = log[i]
    BY AppendProperties
  <2> HIDE DEF u
  <2> QED BY <2>1, LenProperties
<1> HIDE DEF u
<1>3. {u[i].press : i \in DOMAIN u} = {log[i].press : i \in DOMAIN log} \cup {e.press}
  <2>1. /\ DOMAIN u = DOMAIN log \cup {Len(log) + 1}
        /\ \A i \in DOMAIN log : u[i] = log[i]
    BY <1>1, <1>2
  <2> QED BY <1>2, <2>1
<1>4. \A i \in 1 .. Len(log) : log[i].press # 0 => log[i].press \in 1 .. n
    BY <1>1 DEF InOrder
<1>5. CASE e.press = 0
  <2>1. {u[i].press : i \in DOMAIN u} \ {0} = 1 .. n
    BY <1>3, <1>5 DEF InOrder
  <2>2. ASSUME NEW i \in DOMAIN u, NEW j \in DOMAIN u, i < j,
               u[i].press # 0, u[j].press # 0
        PROVE  u[i].press < u[j].press
    <3>1. i \in DOMAIN log /\ j \in DOMAIN log /\ u[i] = log[i] /\ u[j] = log[j]
      BY <1>1, <1>2, <1>5, <2>2
    <3> QED BY <2>2, <3>1 DEF InOrder
  <2>3. InOrder(u, n)
    BY <2>1, <2>2 DEF InOrder
  <2> QED BY <1>5, <2>3 DEF u
<1>6. CASE e.press = n + 1
  <2>1. {u[i].press : i \in DOMAIN u} \ {0} = 1 .. n + 1
    <3>1. {u[i].press : i \in DOMAIN u} \ {0} = (1 .. n) \cup {n + 1}
      <4> DEFINE L == {log[i].press : i \in DOMAIN log}
                 U == {u[i].press : i \in DOMAIN u}
      <4>1. U = L \cup {n + 1} /\ L \ {0} = 1 .. n
        BY <1>3, <1>6 DEF InOrder
      <4> HIDE DEF L, U
      <4>2. U \ {0} = (1 .. n) \cup {n + 1}
        BY <4>1
      <4> QED BY <4>2 DEF U
    <3> QED BY <3>1
  <2>2. ASSUME NEW i \in DOMAIN u, NEW j \in DOMAIN u, i < j,
               u[i].press # 0, u[j].press # 0
        PROVE  u[i].press < u[j].press
    <3>1. i \in DOMAIN log /\ u[i] = log[i]
      BY <1>1, <1>2, <2>2
    <3>2. CASE j = Len(log) + 1
      <4>1. u[i].press \in 1 .. n /\ u[j].press = n + 1
        BY <1>1, <1>2, <1>4, <1>6, <2>2, <3>1, <3>2
      <4> QED BY <4>1
    <3>3. CASE j # Len(log) + 1
      <4>1. j \in DOMAIN log /\ u[j] = log[j]
        BY <1>1, <1>2, <2>2, <3>3
      <4> QED BY <2>2, <3>1, <4>1 DEF InOrder
    <3> QED BY <3>2, <3>3
  <2>3. InOrder(u, n + 1)
    BY <2>1, <2>2 DEF InOrder
  <2> QED BY <1>6, <2>3 DEF u
<1> QED BY <1>5, <1>6 DEF u

\* The property, as a statement about the log.
LEMMA EveryPressIsInOrder == EveryPressOnce <=> InOrder(Log, Reportable)
BY DEF EveryPressOnce, InOrder

\* The step of the log and what must have been reported then.
LEMMA EveryPressStep ==
    ASSUME "shutdown" \notin Injections, TypeOK, QueuesOK, KeysInv,
           InOrder(Log, Reportable), [Next]_vars
    PROVE  InOrder(Log', Reportable')
<1>0. /\ released \in Nat /\ pressed \in BOOLEAN /\ long_tap_reported \in BOOLEAN
      /\ press \in Nat /\ Reportable \in Nat
    BY DEF TypeOK, Reportable
<1>1. Reportable = released + (IF long_tap_reported THEN 1 ELSE 0)
    BY <1>0 DEF Reportable, KeysInv
<1>2. ASSUME NEW e, Logged(e), e.press = Reportable + 1, Reportable' = Reportable + 1
      PROVE  InOrder(Log', Reportable')
    BY <1>0, <1>2, InOrderAppend DEF Logged
<1>3. CASE KeyUp
  <2>1. /\ Head(evdev).press = released + 1
        /\ released' = Head(evdev).press /\ pressed' = FALSE
    BY <1>3, KeysRead DEF KeyUp
  <2>2. Reportable' = released + 1
    BY <1>0, <2>1 DEF Reportable
  <2>3. CASE long_tap_reported
    <3>1. Log' = Log /\ Reportable' = Reportable
      BY <1>1, <1>3, <2>2, <2>3, KeyUpLog
    <3> QED BY <3>1
  <2>4. CASE ~long_tap_reported
    <3>1. PICK e : Logged(e) /\ e.press = Head(evdev).press
      BY <1>3, <2>4, KeyUpLog
    <3>2. Reportable = released
      BY <1>0, <1>1, <2>4
    <3> QED BY <1>2, <2>1, <2>2, <3>1, <3>2
  <2> QED BY <2>3, <2>4
<1>4. CASE LongTapCallback
  <2>1. UNCHANGED <<released, pressed, press>>
    BY <1>4 DEF LongTapCallback
  <2>2. CASE ~LongTapDue
    <3>1. long_tap_reported' = long_tap_reported
      BY <1>4, <2>2 DEF LongTapCallback
    <3>2. Log' = Log /\ Reportable' = Reportable
      BY <1>4, <2>1, <2>2, <3>1, CallbackLog DEF Reportable
    <3> QED BY <3>2
  <2>3. CASE LongTapDue
    <3>1. /\ long_tap_reported' = TRUE /\ pressed /\ ~long_tap_reported
          /\ press = released + 1
      BY <1>4, <2>3 DEF LongTapCallback, LongTapDue, KeysInv
    <3>2. Reportable = released /\ Reportable' = released + 1
      BY <1>0, <1>1, <2>1, <3>1 DEF Reportable
    <3>3. PICK e : Logged(e) /\ e.press = press
      BY <1>4, <2>3, CallbackLog
    <3> QED BY <1>2, <3>1, <3>2, <3>3
  <2> QED BY <2>2, <2>3
<1>5. CASE InjectTap \/ InjectLong \/ InjectMulti
  <2>1. PICK e : Logged(e) /\ e.press = 0
    BY <1>5, InjectLog
  <2>2. Reportable' = Reportable
    BY <1>5 DEF InjectTap, InjectLong, InjectMulti, InjectEvent, button, Reportable
  <2> QED BY <1>0, <2>1, <2>2, InOrderAppend DEF Logged
<1>6. CASE DrainEvents
  <2>1. Reportable' = Reportable
    BY <1>6 DEF DrainEvents, button, Reportable
  <2> QED BY <1>6, <2>1, DrainKeepsLog
<1>7. CASE OtherStep
  <2>1. Log' = Log
    BY <1>7, OtherLog
  <2>2. CASE KeyDown
    <3>1. released' = released /\ long_tap_reported' = FALSE /\ ~pressed
      BY <2>2 DEF KeyDown, KeysInv
    <3>2. Reportable' = Reportable
      BY <1>0, <3>1 DEF Reportable
    <3> QED BY <2>1, <3>2
  <2>3. CASE ~KeyDown
    <3>1. button' = button
      BY <1>7, <2>3 DEF OtherStep, vars, PressKey, ReleaseKey, Tick, KeyDownSeen,
         KeyIgnored, ReaderSignal, LongTapExpire, MultiTapFire, InjectPress,
         IpcSignal, WakeInput, WakeLazy, WakeOther, Wake, Shutdown, arm_lazy_wait
    <3>2. Reportable' = Reportable
      BY <3>1 DEF button, Reportable
    <3> QED BY <2>1, <3>2
  <2> QED BY <2>2, <2>3
<1> QED
    BY <1>3, <1>4, <1>5, <1>6, <1>7, Steps

\* Every press of the key gives exactly one event, in the order of the presses,
\* for all thresholds and any number of presses, however the reader, the two
\* timers, injected events and the mainloop interleave; only an injected press,
\* which swallows the release of a held key, is excluded.
THEOREM PressesReportedOnce ==
    "shutdown" \notin Injections => (Spec => []EveryPressOnce)
<1> SUFFICES ASSUME "shutdown" \notin Injections PROVE Spec => []EveryPressOnce
    OBVIOUS
<1>1. Init => EveryPressOnce
  <2> SUFFICES ASSUME Init PROVE InOrder(Log, Reportable)
    BY EveryPressIsInOrder
  <2>1. Log = <<>>
    BY UnmergedShort, EmptySeq, ConcatEmptySeq DEF Init, Log
  <2>2. Reportable = 0
    BY DEF Init, Reportable
  <2>3. DOMAIN <<>> = {}
    OBVIOUS
  <2> QED BY <2>1, <2>2, <2>3 DEF InOrder
<1>2. TypeOK /\ QueuesOK /\ KeysInv /\ EveryPressOnce /\ [Next]_vars => EveryPressOnce'
  <2> SUFFICES ASSUME TypeOK, QueuesOK, KeysInv, EveryPressOnce, [Next]_vars
               PROVE  EveryPressOnce'
    OBVIOUS
  <2>1. InOrder(Log', Reportable')
    BY EveryPressStep, EveryPressIsInOrder
  <2> QED BY <2>1 DEF EveryPressOnce, InOrder
<1> QED
    BY <1>1, <1>2, TypeCorrect, KeysKept, PTL DEF Spec

-----------------------------------------------------------------------------
(* As long as it was held.                                                 *)

\* The times of the key, what evdev and the device know of them: an unread key
\* event has the time of its press or release, and press_start is the time at
\* which the press in progress began.
HoldsInv ==
    /\ downs \in Seq(Nat) /\ ups \in Seq(Nat)
    /\ Len(downs) = presses
    /\ Len(ups) = IF key_down THEN presses - 1 ELSE presses
    /\ \A n \in 1 .. Len(ups) : ups[n] <= now
    /\ \A i \in 1 .. Len(evdev) :
           /\ evdev[i].press \in 1 .. Len(downs)
           /\ evdev[i].value = 1 => evdev[i].time = downs[evdev[i].press]
           /\ evdev[i].value = 0 => /\ evdev[i].press <= Len(ups)
                                   /\ evdev[i].time = ups[evdev[i].press]
    /\ pressed => press \in 1 .. Len(downs) /\ press_start = downs[press]

\* A step of the key.
LEMMA HoldsAppend ==
    ASSUME TypeOK, HoldsInv, PressKey \/ ReleaseKey
    PROVE  HoldsInv'
<1>0. /\ evdev \in Seq(KeyEvents) /\ Len(evdev) \in Nat /\ now \in Nat /\ presses \in Nat
      /\ downs \in Seq(Nat) /\ ups \in Seq(Nat) /\ Len(downs) \in Nat /\ Len(ups) \in Nat
      /\ UNCHANGED <<now, pressed, press, press_start>>
    BY LenProperties DEF TypeOK, KeyEvents, HoldsInv, PressKey, ReleaseKey, button
<1>1. CASE PressKey
  <2> DEFINE e == [value |-> 1, time |-> now, press |-> presses + 1]
  <2>1. /\ evdev' = Append(evdev, e) /\ downs' = Append(downs, now) /\ ups' = ups
        /\ presses' = presses + 1 /\ key_down' = TRUE /\ ~key_down
    BY <1>1 DEF PressKey
  <2>2. e \in KeyEvents /\ e.value = 1 /\ e.time = now /\ e.press = presses + 1
    BY <1>0 DEF KeyEvents
  <2> HIDE DEF e
  <2>3. /\ Len(evdev') = Len(evdev) + 1 /\ evdev'[Len(evdev) + 1] = e
        /\ \A i \in 1 .. Len(evdev) : evdev'[i] = evdev[i]
    BY <1>0, <2>1, <2>2, AppendProperties
  <2>4. /\ downs' \in Seq(Nat) /\ Len(downs') = Len(downs) + 1
        /\ downs'[Len(downs) + 1] = now
        /\ \A n \in 1 .. Len(downs) : downs'[n] = downs[n]
    BY <1>0, <2>1, AppendProperties
  <2>5. Len(downs) = presses /\ Len(ups) = presses
    BY <2>1 DEF HoldsInv
  <2>6. ASSUME NEW i \in 1 .. Len(evdev')
        PROVE  /\ evdev'[i].press \in 1 .. Len(downs')
               /\ evdev'[i].value = 1 => evdev'[i].time = downs'[evdev'[i].press]
               /\ evdev'[i].value = 0 => /\ evdev'[i].press <= Len(ups')
                                        /\ evdev'[i].time = ups'[evdev'[i].press]
    <3>1. CASE i = Len(evdev) + 1
      BY <1>0, <2>2, <2>3, <2>4, <2>5, <3>1
    <3>2. CASE i \in 1 .. Len(evdev)
      <4>1. evdev'[i] = evdev[i]
        BY <2>3, <3>2
      <4> QED BY <1>0, <2>1, <2>4, <3>2, <4>1 DEF HoldsInv
    <3> QED BY <1>0, <2>3, <3>1, <3>2
  <2>7. pressed' => press' \in 1 .. Len(downs') /\ press_start' = downs'[press']
    BY <1>0, <2>4 DEF HoldsInv
  <2> QED BY <1>0, <2>1, <2>4, <2>5, <2>6, <2>7 DEF HoldsInv
<1>2. CASE ReleaseKey
  <2> DEFINE e == [value |-> 0, time |-> now, press |-> presses]
  <2>1. /\ evdev' = Append(evdev, e) /\ ups' = Append(ups, now) /\ downs' = downs
        /\ presses' = presses /\ key_down' = FALSE /\ key_down
    BY <1>2 DEF ReleaseKey
  <2>2. e \in KeyEvents /\ e.value = 0 /\ e.time = now /\ e.press = presses
    BY <1>0 DEF KeyEvents
  <2> HIDE DEF e
  <2>3. /\ Len(evdev') = Len(evdev) + 1 /\ evdev'[Len(evdev) + 1] = e
        /\ \A i \in 1 .. Len(evdev) : evdev'[i] = evdev[i]
    BY <1>0, <2>1, <2>2, AppendProperties
  <2>4. /\ ups' \in Seq(Nat) /\ Len(ups') = Len(ups) + 1
        /\ ups'[Len(ups) + 1] = now
        /\ \A n \in 1 .. Len(ups) : ups'[n] = ups[n]
    BY <1>0, <2>1, AppendProperties
  <2>5. Len(downs) = presses /\ Len(ups) = presses - 1
    BY <2>1 DEF HoldsInv
  <2>6. ASSUME NEW i \in 1 .. Len(evdev')
        PROVE  /\ evdev'[i].press \in 1 .. Len(downs')
               /\ evdev'[i].value = 1 => evdev'[i].time = downs'[evdev'[i].press]
               /\ evdev'[i].value = 0 => /\ evdev'[i].press <= Len(ups')
                                        /\ evdev'[i].time = ups'[evdev'[i].press]
    <3>1. CASE i = Len(evdev) + 1
      BY <1>0, <2>1, <2>2, <2>3, <2>4, <2>5, <3>1
    <3>2. CASE i \in 1 .. Len(evdev)
      <4>1. evdev'[i] = evdev[i]
        BY <2>3, <3>2
      <4> QED BY <1>0, <2>1, <2>4, <3>2, <4>1 DEF HoldsInv
    <3> QED BY <1>0, <2>3, <3>1, <3>2
  <2>7. ASSUME NEW n \in 1 .. Len(ups') PROVE ups'[n] <= now'
    <3>1. n \in 1 .. Len(ups) \/ n = Len(ups) + 1
      BY <1>0, <2>4
    <3>2. CASE n = Len(ups) + 1
      BY <1>0, <2>4, <3>2
    <3>3. CASE n \in 1 .. Len(ups)
      BY <1>0, <2>4, <3>3 DEF HoldsInv
    <3> QED BY <3>1, <3>2, <3>3
  <2>8. pressed' => press' \in 1 .. Len(downs') /\ press_start' = downs'[press']
    BY <1>0, <2>1 DEF HoldsInv
  <2>9. Len(downs') = presses' /\ Len(ups') = IF key_down' THEN presses' - 1 ELSE presses'
    BY <1>0, <2>1, <2>4, <2>5
  <2> QED BY <1>0, <2>1, <2>4, <2>6, <2>7, <2>8, <2>9 DEF HoldsInv
<1> QED BY <1>1, <1>2

\* daemon() reads an event: a press begins when its KEY DOWN says so.
LEMMA HoldsRead ==
    ASSUME TypeOK, HoldsInv, KeyDown \/ KeyUp
    PROVE  HoldsInv'
<1>1. /\ evdev # <<>> /\ evdev' = Tail(evdev)
      /\ UNCHANGED <<now, key_down, presses, downs, ups>>
    BY DEF KeyDown, KeyUp, NextKey, clock
<1>2. /\ Len(evdev) \in Nat \ {0} /\ Head(evdev) = evdev[1]
      /\ Len(evdev') = Len(evdev) - 1
      /\ \A i \in 1 .. Len(evdev') : evdev'[i] = evdev[i + 1]
  <2>1. evdev \in Seq(KeyEvents)
    BY DEF TypeOK, KeyEvents
  <2> QED BY <1>1, <2>1, HeadTailProperties, EmptySeq
<1>3. ASSUME NEW i \in 1 .. Len(evdev')
      PROVE  /\ evdev'[i].press \in 1 .. Len(downs')
             /\ evdev'[i].value = 1 => evdev'[i].time = downs'[evdev'[i].press]
             /\ evdev'[i].value = 0 => /\ evdev'[i].press <= Len(ups')
                                      /\ evdev'[i].time = ups'[evdev'[i].press]
  <2>1. i + 1 \in 1 .. Len(evdev) /\ evdev'[i] = evdev[i + 1]
    BY <1>2
  <2> QED BY <1>1, <2>1 DEF HoldsInv
<1>4. pressed' => press' \in 1 .. Len(downs') /\ press_start' = downs'[press']
  <2>1. CASE KeyDown
    <3>1. evdev[1].value = 1 /\ press' = evdev[1].press /\ press_start' = evdev[1].time
      BY <1>2, <2>1 DEF KeyDown, NextKey
    <3> QED BY <1>1, <1>2, <3>1 DEF HoldsInv
  <2>2. CASE KeyUp
    BY <2>2 DEF KeyUp
  <2> QED BY <2>1, <2>2
<1> QED BY <1>1, <1>3, <1>4 DEF HoldsInv

LEMMA HoldsStep ==
    ASSUME "shutdown" \notin Injections, TypeOK, KeysInv, HoldsInv, [Next]_vars
    PROVE  HoldsInv'
<1>1. CASE PressKey \/ ReleaseKey
    BY <1>1, HoldsAppend
<1>2. CASE KeyDown \/ KeyUp
    BY <1>2, HoldsRead
<1>3. CASE KeyIgnored
  <2>1. PICK value \in {0, 1} : NextKey(value) /\ (pressed <=> value = 1)
    BY <1>3 DEF KeyIgnored
  <2>2. evdev # <<>> /\ Head(evdev).value = value /\ evdev \in Seq(KeyEvents)
    BY <2>1 DEF NextKey, TypeOK, KeyEvents
  <2>3. evdev[1].value = value
    BY <2>2
  <2>4. evdev[1].value = IF pressed THEN 0 ELSE 1
    BY <2>2 DEF KeysInv
  <2>5. CASE pressed
    BY <2>1, <2>3, <2>4, <2>5
  <2>6. CASE ~pressed
    BY <2>1, <2>3, <2>4, <2>6
  <2> QED BY <2>5, <2>6
<1>4. CASE Tick
  <2>1. /\ UNCHANGED <<evdev, key_down, presses, downs, ups, pressed, press, press_start>>
        /\ now' = now + 1 /\ now \in Nat
    BY <1>4 DEF Tick, button, TypeOK
  <2>2. \A n \in 1 .. Len(ups) : ups[n] \in Nat
    BY DEF HoldsInv
  <2> QED BY <2>1, <2>2 DEF HoldsInv
<1>5. CASE \/ UNCHANGED vars \/ Terminated \/ ReaderSignal \/ KeyDownSeen
           \/ LongTapExpire \/ LongTapCallback
           \/ MultiTapFire \/ InjectTap \/ InjectLong \/ InjectMulti \/ IpcSignal
           \/ WakeInput \/ WakeLazy \/ WakeOther \/ Shutdown \/ DrainEvents
           \/ arm_lazy_wait
  <2>1. UNCHANGED <<evdev, now, key_down, presses, downs, ups, pressed, press,
                    press_start>>
    BY <1>5 DEF vars, Terminated, ReaderSignal, KeyDownSeen, LongTapExpire,
       LongTapCallback, MultiTapFire, InjectTap, InjectLong, InjectMulti, InjectEvent,
       IpcSignal, WakeInput, WakeLazy, WakeOther, Wake, Shutdown, DrainEvents,
       arm_lazy_wait, clock, button
  <2> QED BY <2>1 DEF HoldsInv
<1>6. ~InjectPress
    BY DEF InjectPress
<1> QED
    BY <1>1, <1>2, <1>3, <1>4, <1>5, <1>6
    DEF Next, Environment, Reader, Injector, Mainloop

\* An event of a press that was made, or of none, agrees with the finger.
Right(e) == e.press # 0 => e.press \in 1 .. Len(downs) /\ AsHeld(e)

\* What was right stays right: a press only gets longer while it lasts.
LEMMA RightStays ==
    ASSUME TypeOK, HoldsInv, [Next]_vars, NEW e \in Events, Right(e)
    PROVE  Right(e)'
<1>0. /\ now \in Nat /\ presses \in Nat /\ key_down \in BOOLEAN
      /\ downs \in Seq(Nat) /\ ups \in Seq(Nat) /\ Len(downs) \in Nat /\ Len(ups) \in Nat
      /\ Len(downs) = presses /\ Len(ups) = IF key_down THEN presses - 1 ELSE presses
      /\ \A n \in 1 .. Len(ups) : ups[n] \in Nat
      /\ \A n \in 1 .. Len(downs) : downs[n] \in Nat
    BY LenProperties DEF TypeOK, HoldsInv
<1>1. e.press \in Nat /\ e.time \in Int /\ e' = e
    BY DEF Events
<1>2. LongTapThreshold \in Nat
    BY ConfigAssumption
<1>3. CASE PressKey
  <2>1. downs' = Append(downs, now) /\ UNCHANGED <<ups, now>>
    BY <1>3 DEF PressKey
  <2>2. /\ Len(downs') = Len(downs) + 1
        /\ \A n \in 1 .. Len(downs) : downs'[n] = downs[n]
    BY <1>0, <2>1, AppendProperties
  <2> QED BY <1>0, <1>1, <2>1, <2>2 DEF Right, AsHeld, Held
<1>4. CASE ReleaseKey
  <2>1. ups' = Append(ups, now) /\ UNCHANGED <<downs, now>> /\ key_down
    BY <1>4 DEF ReleaseKey
  <2>2. /\ Len(ups') = Len(ups) + 1 /\ ups'[Len(ups) + 1] = now
        /\ \A n \in 1 .. Len(ups) : ups'[n] = ups[n]
    BY <1>0, <2>1, AppendProperties
  <2>3. ASSUME NEW n \in 1 .. Len(downs) PROVE Held(n)' = Held(n)
    <3>1. n \in 1 .. Len(ups) \/ n = Len(ups) + 1
      BY <1>0, <2>1
    <3> QED BY <1>0, <2>1, <2>2, <3>1 DEF Held
  <2> QED BY <1>0, <1>1, <2>1, <2>2, <2>3 DEF Right, AsHeld
<1>5. CASE Tick
  <2>1. UNCHANGED <<downs, ups>> /\ now' = now + 1
    BY <1>5 DEF Tick
  <2>2. ASSUME NEW n \in 1 .. Len(downs)
        PROVE  /\ Held(n) \in Int /\ Held(n)' \in Int /\ Held(n)' >= Held(n)
               /\ n <= Len(ups) => Held(n)' = Held(n)
    BY <1>0, <2>1 DEF Held
  <2>3. CASE e.press = 0
    BY <1>1, <2>3 DEF Right
  <2>4. CASE e.press # 0
    <3>1. e.press \in 1 .. Len(downs)
      BY <2>4 DEF Right
    <3> DEFINE h == Held(e.press)
               g == Held(e.press)'
    <3>2. h \in Int /\ g \in Int /\ g >= h /\ (e.press <= Len(ups) => g = h)
      BY <2>2, <3>1
    <3>3. /\ e.type = "TAP" => e.press <= Len(ups) /\ h < LongTapThreshold
          /\ e.type = "LONG_TAP" =>
                 \/ h >= LongTapThreshold
                 \/ e.press <= Len(ups) /\ ups[e.press] < e.time
      BY <2>4 DEF Right, AsHeld
    <3> HIDE DEF h, g
    <3>4. /\ e.type = "TAP" => e.press <= Len(ups) /\ g < LongTapThreshold
          /\ e.type = "LONG_TAP" =>
                 \/ g >= LongTapThreshold
                 \/ e.press <= Len(ups) /\ ups[e.press] < e.time
      BY <1>2, <3>2, <3>3
    <3> QED BY <1>1, <2>1, <3>1, <3>4 DEF Right, AsHeld, g
  <2> QED BY <2>3, <2>4
<1>6. CASE ~PressKey /\ ~ReleaseKey /\ ~Tick
  <2>1. UNCHANGED <<now, downs, ups>>
    BY <1>6 DEF Next, Environment, Reader, Injector, Mainloop, vars, Terminated,
       ReaderSignal, KeyDownSeen, KeyDown, KeyUp, KeyIgnored, NextKey, LongTapExpire,
       LongTapCallback, MultiTapFire, InjectTap, InjectLong, InjectMulti, InjectPress,
       InjectEvent, IpcSignal, WakeInput, WakeLazy, WakeOther, Wake, Shutdown,
       DrainEvents, arm_lazy_wait, clock
  <2> QED BY <1>1, <2>1 DEF Right, AsHeld, Held
<1> QED BY <1>3, <1>4, <1>5, <1>6

\* The log is right.
LogRight == LET log == Log IN \A i \in DOMAIN log : Right(log[i])

LEMMA RightStep ==
    ASSUME "shutdown" \notin Injections, TypeOK, QueuesOK, KeysInv, HoldsInv, LogRight,
           [Next]_vars
    PROVE  LogRight'
<1> DEFINE l == Log
           k == Log'
           S == {e \in Events : Right(e)}
           T == {e \in Events : Right(e)'}
<1>1. l \in Seq(Events) /\ \A i \in DOMAIN l : l[i] \in S
  <2>1. Unmerged(delivered) \in Seq(Events) /\ event_queue \in Seq(Events)
    BY UnmergedType DEF QueuesOK
  <2>2. l \in Seq(Events)
    BY <2>1, ConcatProperties DEF Log
  <2>3. \A i \in DOMAIN l : l[i] \in Events
    <3> HIDE DEF l
    <3> QED BY <2>2
  <2> QED BY <2>2, <2>3 DEF LogRight
<1>2. S \subseteq T
    BY RightStays
<1>3. SUFFICES \A i \in DOMAIN k : k[i] \in T
    BY DEF LogRight, Right, AsHeld, Held
<1>4. CASE k = l
  <2> HIDE DEF k, l, S, T
  <2> QED BY <1>1, <1>2, <1>4
<1>5. ASSUME NEW e, Logged(e), Right(e)' PROVE \A i \in DOMAIN k : k[i] \in T
  <2>1. k = Append(l, e) /\ e \in Events /\ e \in T
    BY <1>5 DEF Logged
  <2> HIDE DEF k, l, S, T
  <2> QED BY <1>1, <1>2, <2>1, AppendProperties
<1> HIDE DEF k, S, T
<1>6. CASE KeyUp
  <2>1. CASE long_tap_reported
    BY <1>4, <1>6, <2>1, KeyUpLog DEF k
  <2>2. CASE ~long_tap_reported
    <3>1. PICK e : /\ Logged(e) /\ e.press = Head(evdev).press
                   /\ e.type = TapType(Head(evdev).time - press_start)
                   /\ e.time = Head(evdev).time
      BY <1>6, <2>2, KeyUpLog
    <3>2. /\ pressed /\ evdev # <<>> /\ Head(evdev).value = 0
          /\ UNCHANGED <<now, downs, ups>>
      BY <1>6 DEF KeyUp, NextKey, clock
    <3>3. Head(evdev).press = press
      BY <1>6, <3>2, KeysRead DEF KeysInv
    <3>4. Len(evdev) \in Nat /\ 1 \in 1 .. Len(evdev) /\ Head(evdev) = evdev[1]
      <4>1. evdev \in Seq(KeyEvents)
        BY DEF TypeOK, KeyEvents
      <4> QED BY <3>2, <4>1
    <3>5. /\ press \in 1 .. Len(downs) /\ press_start = downs[press]
          /\ press <= Len(ups) /\ Head(evdev).time = ups[press]
      BY <3>2, <3>3, <3>4 DEF HoldsInv
    <3>6. downs[press] \in Nat /\ ups[press] \in Nat /\ Len(downs) \in Nat
      BY <3>5 DEF HoldsInv
    <3>7. Right(e)'
      BY <3>1, <3>2, <3>3, <3>5, <3>6, ConfigAssumption
         DEF Right, AsHeld, Held, TapType
    <3> QED BY <1>5, <3>1, <3>7
  <2> QED BY <2>1, <2>2
<1>7. CASE LongTapCallback
  <2>1. CASE ~LongTapDue
    BY <1>4, <1>7, <2>1, CallbackLog DEF k
  <2>2. CASE LongTapDue
    <3>1. PICK e : Logged(e) /\ e.press = press /\ e.type = "LONG_TAP" /\ e.time = now
      BY <1>7, <2>2, CallbackLog
    <3>2. pressed /\ now - press_start >= LongTapThreshold /\ UNCHANGED <<now, downs, ups>>
      BY <1>7, <2>2 DEF LongTapCallback, LongTapDue, clock
    <3>3. press \in 1 .. Len(downs) /\ press_start = downs[press]
      BY <3>2 DEF HoldsInv
    <3>4. /\ downs[press] \in Nat /\ now \in Nat /\ Len(ups) \in Nat
          /\ press <= Len(ups) => ups[press] \in Nat /\ ups[press] <= now
      BY <3>3 DEF HoldsInv, TypeOK
    <3>5. Right(e)'
      BY <3>1, <3>2, <3>3, <3>4, ConfigAssumption DEF Right, AsHeld, Held
    <3> QED BY <1>5, <3>1, <3>5
  <2> QED BY <2>1, <2>2
<1>8. CASE InjectTap \/ InjectLong \/ InjectMulti
  <2>1. PICK e : Logged(e) /\ e.press = 0
    BY <1>8, InjectLog
  <2>2. Right(e)'
    BY <2>1 DEF Right
  <2> QED BY <1>5, <2>1, <2>2
<1>9. CASE DrainEvents \/ OtherStep
    BY <1>4, <1>9, DrainKeepsLog, OtherLog DEF k
<1> QED
    BY <1>6, <1>7, <1>8, <1>9, Steps

\* A TAP was a press shorter than LongTapThreshold, a LONG_TAP one that was held
\* that long, by the finger and not by what the device believes: however late the
\* reader, the timer callbacks and the mainloop are, for all thresholds; except a
\* short press whose KEY UP lay unread when its timer reported it.
THEOREM LongIsLong == "shutdown" \notin Injections => (Spec => []ReportedAsHeld)
<1> SUFFICES ASSUME "shutdown" \notin Injections PROVE Spec => []ReportedAsHeld
    OBVIOUS
<1>1. Init => HoldsInv /\ LogRight
  <2> SUFFICES ASSUME Init PROVE HoldsInv /\ LogRight
    OBVIOUS
  <2>1. Log = <<>>
    BY UnmergedShort, EmptySeq, ConcatEmptySeq DEF Init, Log
  <2>2. DOMAIN <<>> = {}
    OBVIOUS
  <2>3. LogRight
    BY <2>1, <2>2 DEF LogRight
  <2>4. /\ downs = <<>> /\ ups = <<>> /\ evdev = <<>> /\ presses = 0 /\ ~key_down
        /\ ~pressed
    BY DEF Init
  <2>5. HoldsInv
    BY <2>4, EmptySeq DEF HoldsInv
  <2> QED BY <2>3, <2>5
<1>2. TypeOK /\ QueuesOK /\ KeysInv /\ HoldsInv /\ LogRight /\ [Next]_vars =>
          HoldsInv' /\ LogRight'
    BY HoldsStep, RightStep
<1>3. LogRight => ReportedAsHeld
    BY DEF LogRight, Right, ReportedAsHeld
<1> QED
    BY <1>1, <1>2, <1>3, TypeCorrect, KeysKept, PTL DEF Spec

-----------------------------------------------------------------------------
(* No stranded events.                                                     *)

\* A deferred chain has a timer, or the wake-up that its expired window needs.
LEMMA DeferredIsWatched ==
    ASSUME TypeOK, DrainDefer
    PROVE  wake' \/ multi_tap_timer' # None
<1> DEFINE deadline == Last(Scanned.chain).time + MultipleTapThreshold
<1>1. /\ multi_tap_timer' = IF deadline <= now THEN None ELSE deadline
      /\ wake' = (wake \/ deadline <= now)
    BY DEF DrainDefer, arm_multi_tap_timer_locked
<1>2. CASE deadline <= now
    BY <1>1, <1>2
<1>3. CASE ~(deadline <= now)
  <2>1. deadline # -1
    BY <1>3 DEF TypeOK
  <2> QED
    BY <1>1, <1>3, <2>1 DEF None
<1> QED
    BY <1>2, <1>3

\* Every step that queues an event signals it or is about to, and every drain
\* that leaves events behind arms the timer of their window or wakes again.
LEMMA NoStrandedStep ==
    ASSUME TypeOK, NoStrandedEvents, [Next]_vars
    PROVE  NoStrandedEvents'
<1> USE DEF NoStrandedEvents, Signalled
<1>1. CASE UNCHANGED vars
    BY <1>1 DEF vars, timers, consumer, injector
<1>2. CASE PressKey
    BY <1>2 DEF PressKey, timers, consumer, injector
<1>3. CASE ReleaseKey
    BY <1>3 DEF ReleaseKey, timers, consumer, injector
<1>4. CASE Tick
    BY <1>4 DEF Tick, timers, consumer, injector
<1>5. CASE KeyDown
    BY <1>5 DEF KeyDown
<1>6. CASE KeyUp
    BY <1>6 DEF KeyUp
<1>7. CASE KeyIgnored
    BY <1>7 DEF KeyIgnored, NextKey, injector, consumer
<1>8. CASE ReaderSignal \/ KeyDownSeen
    BY <1>8 DEF ReaderSignal, KeyDownSeen, button, timers, consumer, injector
<1>9. CASE LongTapExpire
    BY <1>9 DEF LongTapExpire, injector, consumer
<1>10. CASE LongTapCallback
    BY <1>10 DEF LongTapCallback, injector, consumer
<1>11. CASE MultiTapFire
    BY <1>11 DEF MultiTapFire
<1>12. CASE InjectTap \/ InjectLong \/ InjectMulti
    BY <1>12 DEF InjectTap, InjectLong, InjectMulti, InjectEvent
<1>13. CASE InjectPress
    BY <1>13 DEF InjectPress
<1>14. CASE IpcSignal
    BY <1>14 DEF IpcSignal
<1>15. CASE WakeInput \/ WakeLazy \/ WakeOther
    BY <1>15 DEF WakeInput, WakeLazy, WakeOther, Wake
<1>16. CASE Shutdown
    BY <1>16 DEF Shutdown, timers, injector
<1>17. CASE DrainEvents
  <2>1. CASE event_queue = <<>>
    BY <1>17, <2>1 DEF DrainEvents, DrainEmpty
  <2>2. CASE DrainPlain \/ DrainFlush
    BY <2>2 DEF DrainPlain, DrainFlush
  <2>3. CASE DrainDefer
    BY <2>3, DeferredIsWatched
  <2> QED
    BY <1>17, <2>1, <2>2, <2>3 DEF DrainEvents
<1>18. CASE arm_lazy_wait
    BY <1>18 DEF arm_lazy_wait, timers, injector
<1>19. CASE Terminated
    BY <1>19 DEF Terminated, vars, timers, consumer, injector
<1> QED
    BY <1>1, <1>2, <1>3, <1>4, <1>5, <1>6, <1>7, <1>8, <1>9, <1>10, <1>11,
       <1>12, <1>13, <1>14, <1>15, <1>16, <1>17, <1>18, <1>19
    DEF Next, Environment, Reader, Injector, Mainloop

\* Whatever the thresholds are and however the key, the timers, IPC clients and
\* the mainloop interleave, an event in event_queue is never left without
\* something that will make the mainloop call DrainEvents.
THEOREM NoEventStranded == Spec => []NoStrandedEvents
<1>1. Init => NoStrandedEvents
    BY DEF Init, NoStrandedEvents
<1> QED
    BY <1>1, NoStrandedStep, TypeCorrect, PTL DEF Spec

-----------------------------------------------------------------------------
(* The shutdown press.                                                     *)

\* Every step that starts a press signals the mainloop or is about to, and the
\* mainloop never waits without a timer for the press it sees.
LEMMA ShutdownWatchedStep ==
    ASSUME TypeOK, ShutdownWatched, [Next]_vars
    PROVE  ShutdownWatched'
<1> USE DEF ShutdownWatched, Signalled
<1>1. CASE UNCHANGED vars
    BY <1>1 DEF vars, clock, button, consumer, injector
<1>2. CASE PressKey
    BY <1>2 DEF PressKey, button, consumer, injector
<1>3. CASE ReleaseKey
    BY <1>3 DEF ReleaseKey, button, consumer, injector
<1>4. CASE Tick
    BY <1>4 DEF Tick, TypeOK, button, consumer, injector
<1>5. CASE KeyDown
    BY <1>5 DEF KeyDown
<1>6. CASE KeyUp
    BY <1>6 DEF KeyUp
<1>7. CASE KeyIgnored
    BY <1>7 DEF KeyIgnored, NextKey, clock, button, injector, consumer
<1>8. CASE ReaderSignal \/ KeyDownSeen
    BY <1>8 DEF ReaderSignal, KeyDownSeen, button, timers, consumer, injector
<1>9. CASE LongTapExpire
    BY <1>9 DEF LongTapExpire, clock, button, injector, consumer
<1>10. CASE LongTapCallback
    BY <1>10 DEF LongTapCallback, clock, injector, consumer
<1>11. CASE MultiTapFire
    BY <1>11 DEF MultiTapFire
<1>12. CASE InjectTap \/ InjectLong \/ InjectMulti
    BY <1>12 DEF InjectTap, InjectLong, InjectMulti, InjectEvent
<1>13. CASE InjectPress
    BY <1>13 DEF InjectPress
<1>14. CASE IpcSignal
    BY <1>14 DEF IpcSignal
<1>15. CASE WakeInput \/ WakeLazy \/ WakeOther
    BY <1>15 DEF WakeInput, WakeLazy, WakeOther, Wake
<1>16. CASE Shutdown
    BY <1>16 DEF Shutdown, clock, button, injector
<1>17. CASE DrainEvents
    BY <1>17 DEF DrainEvents
<1>18. CASE arm_lazy_wait
  <2>1. CASE ~(pressed /\ ShutdownThreshold > 0)
    BY <1>18, <2>1 DEF arm_lazy_wait, button
  <2>2. CASE pressed /\ ShutdownThreshold > 0
    <3>1. lazy_timer' = IF press_start + ShutdownThreshold < now THEN now
                        ELSE press_start + ShutdownThreshold
      BY <1>18, <2>2 DEF arm_lazy_wait, ShutdownDeadline
    <3>2. UNCHANGED <<press_start, now>>
      BY <1>18 DEF arm_lazy_wait, clock, button
    <3> QED
      BY <3>1, <3>2, ConfigAssumption DEF TypeOK, None
  <2> QED
    BY <2>1, <2>2
<1>19. CASE Terminated
    BY <1>19 DEF Terminated, vars, clock, button, consumer, injector
<1> QED
    BY <1>1, <1>2, <1>3, <1>4, <1>5, <1>6, <1>7, <1>8, <1>9, <1>10, <1>11,
       <1>12, <1>13, <1>14, <1>15, <1>16, <1>17, <1>18, <1>19
    DEF Next, Environment, Reader, Injector, Mainloop

\* Whenever the mainloop waits in its select while the button is held, its lazy
\* timer is set to the moment at which the hold becomes a shutdown press, or a
\* wake-up is on its way that makes it set the timer.
THEOREM ShutdownIsWatched == Spec => []ShutdownWatched
<1>1. Init => ShutdownWatched
    BY DEF Init, ShutdownWatched
<1> QED
    BY <1>1, ShutdownWatchedStep, TypeCorrect, PTL DEF Spec

=============================================================================
