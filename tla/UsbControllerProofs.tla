------------------------ MODULE UsbControllerProofs -------------------------
(***************************************************************************)
(* Proofs about UsbController, for any set of pids, any leftovers the      *)
(* assumption allows and any bound on the mounts.                          *)
(***************************************************************************)
EXTENDS UsbController, SequenceTheorems, TLAPS

-----------------------------------------------------------------------------
(* Type correctness.                                                       *)

\* Closing the layers of a process keeps the sequence of layers one.
LEMMA GoneTyped ==
    ASSUME TypeOK, NEW p \in Pids, NEW left \in {"free", "dead"}, Gone(p, left)
    PROVE  /\ procs' \in [Pids -> {"free", "adbd", "dead", "other", "alien"}]
           /\ signalled' \subseteq Pids /\ lost' \subseteq Pids
           /\ inherited' \subseteq Pids
           /\ mounts' \in Seq(Pids \cup {None}) /\ published' \in BOOLEAN
  <1>1. Len(mounts) \in Nat /\ mounts \in [1..Len(mounts) -> Pids \cup {None}]
    BY DEF TypeOK
  <1>2. mounts' \in [1..Len(mounts) -> Pids \cup {None}]
    BY <1>1 DEF Gone
  <1>3. mounts' \in Seq(Pids \cup {None})
    BY <1>1, <1>2
  <1>4. published' \in BOOLEAN
    BY Zenon DEF Gone, TypeOK
  <1> QED
    BY <1>3, <1>4 DEF Gone, TypeOK

\* A goroutine has a victim exactly between the read and the signal.
VictimOK ==
    /\ victim["apply"] # None <=> main # "down" /\ pc \in {"check", "signal"}
    /\ victim["main"] # None <=> main \in {"check", "signal"}

\* Where a goroutine of kill_adbd goes is one of the labels.
LEMMA MovesTyped ==
    ASSUME TypeOK, NEW a \in Goroutines, NEW from,
           NEW to \in {"check", "signal", "unlink"}, Moves(a, from, to)
    PROVE  /\ pc' \in Labels
           /\ main' \in {"run", "kill", "check", "signal", "unlink", "umount", "down"}
           /\ quiet' \in BOOLEAN
           /\ UNCHANGED <<gadget, ctx, apply>>
  <1>1. CASE a = "apply"
    BY <1>1, Zenon DEF Moves, At, Goto, TypeOK, Labels
  <1>2. CASE a = "main"
    BY <1>2, Zenon DEF Moves, TypeOK
  <1> QED
    BY <1>1, <1>2 DEF Goroutines

\* What a goroutine signals has a pid.
LEMMA VictimIsPid ==
    ASSUME TypeOK, VictimOK, NEW a \in Goroutines, NEW from \in {"check", "signal"},
           NEW to, Moves(a, from, to)
    PROVE  victim[a] \in Pids
  <1>1. CASE a = "apply"
    BY <1>1 DEF VictimOK, Moves, At, TypeOK, Goroutines
  <1>2. CASE a = "main"
    BY <1>2 DEF VictimOK, Moves, TypeOK, Goroutines
  <1> QED
    BY <1>1, <1>2 DEF Goroutines

\* What a step of kill_adbd leaves is typed.
LEMMA KillTyped ==
    ASSUME TypeOK, VictimOK, NEW a \in Goroutines, kill_adbd(a)
    PROVE  TypeOK'
  <1>1. ASSUME /\ procs' \in [Pids -> {"free", "adbd", "dead", "other", "alien"}]
               /\ handle' \in Pids \cup {None} /\ pidfile' \in Pids \cup {None}
               /\ victim' \in [Goroutines -> Pids \cup {None}]
               /\ signalled' \subseteq Pids /\ lost' \subseteq Pids
               /\ inherited' \subseteq Pids
               /\ mounts' \in Seq(Pids \cup {None}) /\ published' \in BOOLEAN,
               /\ pc' \in Labels
               /\ main' \in {"run", "kill", "check", "signal", "unlink", "umount",
                             "down"}
               /\ quiet' \in BOOLEAN,
               /\ UNCHANGED <<gadget, ctx, target, attempt>>
               /\ result' \in {"none", "ok", "error"} /\ fault' \in BOOLEAN
        PROVE  TypeOK'
    BY <1>1 DEF TypeOK, gadget, ctx
  <1>2. CASE KillTake(a)
    BY <1>1, <1>2, MovesTyped DEF KillTake, TypeOK, apply
  <1>3. CASE KillRead(a)
    BY <1>1, <1>3, MovesTyped DEF KillRead, TypeOK, apply
  <1>4. CASE KillCheck(a)
    BY <1>1, <1>4, MovesTyped DEF KillCheck, TypeOK, apply
  <1>5. CASE KillSignal(a)
    <2>1. victim[a] \in Pids
      BY <1>5, VictimIsPid DEF KillSignal
    <2>2. /\ procs' \in [Pids -> {"free", "adbd", "dead", "other", "alien"}]
          /\ signalled' \subseteq Pids /\ lost' \subseteq Pids
          /\ inherited' \subseteq Pids
          /\ mounts' \in Seq(Pids \cup {None}) /\ published' \in BOOLEAN
      <3>1. CASE Gone(victim[a], "free")
        BY <2>1, <3>1, GoneTyped
      <3>2. CASE ~Gone(victim[a], "free")
        BY <1>5, <2>1, <3>2 DEF KillSignal, TypeOK
      <3> QED
        BY <3>1, <3>2
    <2> QED
      BY <1>1, <1>5, <2>2, MovesTyped DEF KillSignal, TypeOK, apply
  <1>6. CASE KillUnlink(a)
    <2>1. /\ pc' \in Labels
          /\ main' \in {"run", "kill", "check", "signal", "unlink", "umount", "down"}
      BY <1>6 DEF KillUnlink, Moves, At, Goto, Fails, Labels, TypeOK, apply
    <2>2. quiet' \in BOOLEAN
      BY <1>6, Zenon DEF KillUnlink, Moves, At, TypeOK
    <2>3. /\ UNCHANGED <<gadget, ctx, target, attempt>>
          /\ result' \in {"none", "ok", "error"}
      BY <1>6 DEF KillUnlink, Moves, Fails, TypeOK, apply
    <2>4. fault' \in BOOLEAN
      BY <1>6 DEF KillUnlink, Moves, Fails, TypeOK, apply
    <2> QED
      BY <1>1, <1>6, <2>1, <2>2, <2>3, <2>4 DEF KillUnlink, TypeOK
  <1> QED
    BY <1>2, <1>3, <1>4, <1>5, <1>6 DEF kill_adbd

\* The layers that umount_ffs leaves are layers.
LEMMA UnmountedTyped ==
    ASSUME TypeOK, NEW ms \in Unmounted
    PROVE  ms \in Seq(Pids \cup {None})
  <1>1. PICK n \in 0..Len(mounts) : ms = SubSeq(mounts, 1, n)
    BY DEF Unmounted, Layers
  <1>2. mounts \in Seq(Pids \cup {None}) /\ Len(mounts) \in Nat
    BY DEF TypeOK
  <1>3. \A i \in 1..n : mounts[i] \in Pids \cup {None}
    BY <1>1, <1>2
  <1> QED
    BY <1>1, <1>2, <1>3, SubSeqProperties

LEMMA TypeInit == Init => TypeOK
  <1> SUFFICES ASSUME Init PROVE TypeOK
    OBVIOUS
  <1>1. known \subseteq Gadgets /\ bound \in Gadgets \cup {"none"} /\ confLive \in BOOLEAN
    BY LeftoversAssumption DEF Init, Gadgets
  <1>2. mounts \in Seq(Pids \cup {None})
    BY DEF Init
  <1> QED
    BY <1>1, <1>2 DEF Init, TypeOK, Labels

LEMMA TypeStep == TypeOK /\ VictimOK /\ [Next]_vars => TypeOK'
  <1> SUFFICES ASSUME TypeOK, VictimOK, [Next]_vars PROVE TypeOK'
    OBVIOUS
  <1>0. ASSUME UNCHANGED <<known, removing, confLive, bound, ctx, target, attempt, main>>,
               UNCHANGED <<procs, victim, signalled, mounts, published, lost, inherited>>,
               handle' \in Pids \cup {None}, pidfile' \in Pids \cup {None},
               linked' \in {"none", "rndis", "adb"}, pc' \in Labels,
               result' \in {"none", "ok", "error"}, fault' \in BOOLEAN,
               quiet' \in BOOLEAN
        PROVE  TypeOK'
    BY <1>0 DEF TypeOK, ctx
  <1> USE DEF TypeOK, At, Goto, Fails, Labels, apply, gadget, ctx, adb, daemon
  <1>1. ASSUME NEW f \in {"rndis", "adb"}, Begin(f) \/ rollback_mode(f) PROVE TypeOK'
    BY <1>1 DEF Begin, rollback_mode, AddFunction
  <1>2. CASE GiveUp
    BY <1>2 DEF GiveUp
  <1>3. CASE CleanNothing \/ CleanRemoves
    <2>1. CASE CleanNothing
      <3>1. /\ UNCHANGED <<known, removing, confLive, linked, bound>>
            /\ UNCHANGED <<target, attempt, result, fault, main>>
        BY <2>1 DEF CleanNothing
      <3>2. UNCHANGED <<procs, handle, victim, pidfile, signalled, mounts, published,
                        lost, inherited>>
        BY <2>1 DEF CleanNothing
      <3>3. pc' = "wait"
        BY <2>1 DEF CleanNothing
      <3>4. ctxGadget' \in BOOLEAN /\ ctxConfig' \in BOOLEAN /\ quiet' \in BOOLEAN
        BY <2>1, Zenon DEF CleanNothing
      <3> QED
        BY <3>1, <3>2, <3>3, <3>4
    <2>2. CASE CleanRemoves
      <3>1. known' \subseteq Gadgets /\ bound' \in Gadgets \cup {"none"}
        BY <2>2 DEF CleanRemoves, Unbound, First, Gadgets
      <3>2. removing' \in BOOLEAN /\ confLive' \in BOOLEAN
        BY <2>2, Zenon DEF CleanRemoves
      <3>3. linked' \in {"none", "rndis", "adb"}
        BY <2>2 DEF CleanRemoves
      <3>4. ctxGadget' \in BOOLEAN /\ ctxConfig' \in BOOLEAN /\ quiet' \in BOOLEAN
        BY <2>2, Zenon DEF CleanRemoves, CleanHandles
      <3>5. /\ UNCHANGED <<target, attempt, result, fault, main>> /\ pc' = "wait"
            /\ UNCHANGED <<procs, handle, victim, pidfile, signalled, mounts, published,
                           lost, inherited>>
        BY <2>2 DEF CleanRemoves
      <3> QED
        BY <3>1, <3>2, <3>3, <3>4, <3>5
    <2> QED
      BY <1>3, <2>1, <2>2
  <1>4. CASE CleanFails
    <2>1. bound' \in Gadgets \cup {"none"}
      BY <1>4 DEF CleanFails, Unbound, First, Gadgets
    <2>2. confLive' \in BOOLEAN
      BY <1>4, Zenon DEF CleanFails
    <2>3. linked' \in {"none", "rndis", "adb"}
      BY <1>4 DEF CleanFails
    <2> QED
      BY <1>4, <2>1, <2>2, <2>3 DEF CleanFails
  <1>5. CASE WaitRemoved \/ KernelRemoves
    <2>1. CASE WaitRemoved
      <3>1. fault' \in BOOLEAN /\ quiet' \in BOOLEAN
        BY <2>1, Zenon DEF WaitRemoved, wait_gadget_removed
      <3>2. /\ UNCHANGED <<known, removing, confLive, linked, bound>>
            /\ UNCHANGED <<ctxGadget, ctxConfig, target, attempt, result, main>>
            /\ pc' = "create"
        BY <2>1 DEF WaitRemoved, wait_gadget_removed
      <3>3. UNCHANGED <<procs, handle, victim, pidfile, signalled, mounts, published,
                        lost, inherited>>
        BY <2>1 DEF WaitRemoved
      <3> QED
        BY <3>1, <3>2, <3>3
    <2>2. CASE KernelRemoves
      <3>1. removing' \in BOOLEAN
        BY <2>2, Zenon DEF KernelRemoves
      <3>2. /\ UNCHANGED <<known, confLive, linked, bound, ctxGadget, ctxConfig>>
            /\ UNCHANGED <<target, attempt, result, fault, pc, main, quiet>>
        BY <2>2 DEF KernelRemoves
      <3>3. UNCHANGED <<procs, handle, victim, pidfile, signalled, mounts, published,
                        lost, inherited>>
        BY <2>2 DEF KernelRemoves
      <3> QED
        BY <3>1, <3>2, <3>3
    <2> QED
      BY <1>5, <2>1, <2>2
  <1>6. CASE CreateGadget \/ CreateFails
    <2>1. CASE CreateGadget
      BY <2>1 DEF CreateGadget, Gadgets
    <2>2. CASE CreateFails
      <3>1. known' \subseteq Gadgets
        BY <2>2 DEF CreateFails, Gadgets
      <3>2. confLive' \in BOOLEAN
        BY <2>2, Zenon DEF CreateFails
      <3>3. fault' \in BOOLEAN
        BY <2>2, Zenon DEF CreateFails
      <3> QED
        BY <2>2, <3>1, <3>2, <3>3 DEF CreateFails
    <2> QED
      BY <1>6, <2>1, <2>2
  <1>7. CASE AddRndis \/ AddFfs
    <2>1. fault' \in BOOLEAN /\ quiet' \in BOOLEAN
      BY <1>7, Zenon DEF AddRndis, AddFfs
    <2>2. /\ UNCHANGED <<known, removing, confLive, bound, ctx, target, attempt, main>>
          /\ linked' \in {"none", "rndis", "adb"} /\ pc' \in Labels
          /\ result' \in {"none", "ok", "error"}
      BY <1>7 DEF AddRndis, AddFfs
    <2>3. /\ UNCHANGED <<procs, victim, signalled, mounts, published, lost, inherited>>
          /\ handle' \in Pids \cup {None} /\ pidfile' \in Pids \cup {None}
      BY <1>7 DEF AddRndis, AddFfs
    <2> QED
      BY <1>0, <2>1, <2>2, <2>3
  <1>8. CASE EffectRndis \/ EffectAdbAttrs
    <2>1. fault' \in BOOLEAN /\ quiet' \in BOOLEAN
      BY <1>8, Zenon DEF EffectRndis, EffectAdbAttrs
    <2>2. /\ UNCHANGED <<known, removing, confLive, bound, ctx, target, attempt, main>>
          /\ linked' \in {"none", "rndis", "adb"} /\ pc' \in Labels
          /\ result' \in {"none", "ok", "error"}
      BY <1>8 DEF EffectRndis, EffectAdbAttrs
    <2>3. /\ UNCHANGED <<procs, victim, signalled, mounts, published, lost, inherited>>
          /\ handle' \in Pids \cup {None} /\ pidfile' \in Pids \cup {None}
      BY <1>8 DEF EffectRndis, EffectAdbAttrs
    <2> QED
      BY <1>0, <2>1, <2>2, <2>3
  <1>9. CASE MountFfs
    <2>1. PICK ms \in Unmounted :
             \/ /\ mounts' = Append(ms, None) /\ published' = FALSE
                /\ Goto("kill") /\ UNCHANGED <<apply, main>>
             \/ /\ mounts' = ms /\ published' = (published /\ ms = mounts)
                /\ Fails(TRUE)
      BY <1>9 DEF MountFfs
    <2>2. ms \in Seq(Pids \cup {None})
      BY UnmountedTyped
    <2>3. mounts' \in Seq(Pids \cup {None})
      BY <2>1, <2>2, AppendProperties
    <2>4. published' \in BOOLEAN
      BY <2>1
    <2>5. pc' \in Labels /\ result' \in {"none", "ok", "error"} /\ fault' \in BOOLEAN
      BY <2>1
    <2>6. UNCHANGED <<target, attempt, main>>
      BY <2>1
    <2>7. quiet' \in BOOLEAN
      BY <1>9, Zenon DEF MountFfs
    <2>8. UNCHANGED <<known, removing, confLive, linked, bound, ctxGadget, ctxConfig>>
      BY <1>9 DEF MountFfs
    <2>9. UNCHANGED <<procs, handle, victim, pidfile, signalled, lost, inherited>>
      BY <1>9 DEF MountFfs
    <2> QED
      BY <2>3, <2>4, <2>5, <2>6, <2>7, <2>8, <2>9
  <1>10. ASSUME NEW a \in Goroutines, kill_adbd(a) PROVE TypeOK'
    BY <1>10, KillTyped
  <1>11. CASE StartAdbd \/ StartFails
    <2>1. CASE StartAdbd
      <3>1. /\ procs' \in [Pids -> {"free", "adbd", "dead", "other", "alien"}]
            /\ handle' \in Pids \cup {None}
        BY <2>1 DEF StartAdbd, StartedHandle
      <3>2. pc' \in Labels /\ UNCHANGED <<gadget, ctx, apply, main>>
        BY <2>1 DEF StartAdbd
      <3>3. quiet' \in BOOLEAN
        BY <2>1, Zenon DEF StartAdbd
      <3>4. UNCHANGED <<victim, pidfile, signalled, mounts, published, lost, inherited>>
        BY <2>1 DEF StartAdbd
      <3> QED
        BY <3>1, <3>2, <3>3, <3>4
    <2>2. CASE StartFails
      <3>1. fault' \in BOOLEAN /\ quiet' \in BOOLEAN
        BY <2>2, Zenon DEF StartFails
      <3> QED
        BY <1>0, <2>2, <3>1 DEF StartFails
    <2> QED
      BY <1>11, <2>1, <2>2
  <1>12. CASE WritePidFile \/ AdbdTaken \/ AdbdReady
    <2>1. fault' \in BOOLEAN /\ quiet' \in BOOLEAN
      BY <1>12, Zenon DEF WritePidFile, AdbdTaken, AdbdReady
    <2>2. /\ UNCHANGED <<known, removing, confLive, bound, ctx, target, attempt, main>>
          /\ linked' \in {"none", "rndis", "adb"} /\ pc' \in Labels
          /\ result' \in {"none", "ok", "error"}
      BY <1>12 DEF WritePidFile, AdbdTaken, AdbdReady
    <2>3. /\ UNCHANGED <<procs, victim, signalled, mounts, published, lost, inherited>>
          /\ handle' \in Pids \cup {None} /\ pidfile' \in Pids \cup {None}
      BY <1>12 DEF WritePidFile, AdbdTaken, AdbdReady
    <2> QED
      BY <1>0, <2>1, <2>2, <2>3
  <1>13. CASE AdbdTimeout
    <2>1. fault' \in BOOLEAN /\ quiet' \in BOOLEAN
      BY <1>13, Zenon DEF AdbdTimeout
    <2>2. /\ UNCHANGED <<known, removing, confLive, bound, ctx, target, attempt, main>>
          /\ linked' \in {"none", "rndis", "adb"} /\ pc' \in Labels
          /\ result' \in {"none", "ok", "error"}
      BY <1>13 DEF AdbdTimeout
    <2>3. /\ UNCHANGED <<procs, victim, signalled, mounts, published, lost, inherited>>
          /\ handle' \in Pids \cup {None} /\ pidfile' \in Pids \cup {None}
      BY <1>13 DEF AdbdTimeout
    <2> QED
      BY <1>0, <2>1, <2>2, <2>3
  <1>14. CASE Enable \/ EnableFails
    <2>1. CASE Enable
      <3>1. fault' \in BOOLEAN
        BY <2>1, Zenon DEF Enable
      <3> QED
        BY <2>1, <3>1 DEF Enable, Gadgets
    <2>2. CASE EnableFails
      <3>1. fault' \in BOOLEAN
        BY <2>2, Zenon DEF EnableFails
      <3> QED
        BY <2>2, <3>1 DEF EnableFails
    <2> QED
      BY <1>14, <2>1, <2>2
  <1>15. ASSUME NEW p \in Pids, AdbdOpens(p) PROVE TypeOK'
    <2>1. Len(mounts) \in 1..Len(mounts) /\ mounts \in [1..Len(mounts) -> Pids \cup {None}]
      BY <1>15 DEF AdbdOpens
    <2>2. mounts' \in [1..Len(mounts) -> Pids \cup {None}]
      BY <1>15, <2>1 DEF AdbdOpens
    <2>3. mounts' \in Seq(Pids \cup {None})
      BY <2>1, <2>2
    <2> QED
      BY <1>15, <2>3 DEF AdbdOpens
  <1>16. ASSUME NEW p \in Pids, AdbdExits(p) \/ StrangerExits(p) PROVE TypeOK'
    <2>1. PICK left \in {"free", "dead"} : Gone(p, left)
      BY <1>16 DEF AdbdExits, StrangerExits
    <2> QED
      BY <1>16, <2>1, GoneTyped DEF AdbdExits, StrangerExits
  <1>17. ASSUME NEW p \in Pids, PidReused(p) PROVE TypeOK'
    BY <1>17 DEF PidReused
  <1>18. CASE Stop \/ Crash
    <2>1. CASE Stop
      BY <2>1 DEF Stop
    <2>2. CASE Crash
      <3>1. /\ procs' \in [Pids -> {"free", "adbd", "dead", "other", "alien"}]
            /\ lost' \subseteq Pids
        BY <2>2 DEF Crash, Ended, Running
      <3>2. /\ UNCHANGED <<known, removing, confLive, linked, bound, ctxGadget, ctxConfig>>
            /\ UNCHANGED <<target, attempt, result, fault, pc>>
        BY <2>2 DEF Crash
      <3>3. UNCHANGED <<pidfile, signalled, mounts, published, inherited>>
        BY <2>2 DEF Crash
      <3>4. /\ handle' = None /\ main' = "down"
            /\ victim' \in [Goroutines -> Pids \cup {None}]
        BY <2>2 DEF Crash, Ended
      <3>5. quiet' \in BOOLEAN
        BY <2>2, Zenon DEF Crash
      <3> QED
        BY <3>1, <3>2, <3>3, <3>4, <3>5
    <2> QED
      BY <1>18, <2>1, <2>2
  <1>19. CASE Start
    BY <1>19 DEF Start, Running
  <1>21. CASE CleanupUmount
    <2>1. mounts' \in Seq(Pids \cup {None})
      BY <1>21, UnmountedTyped DEF CleanupUmount
    <2>2. published' \in BOOLEAN
      BY <1>21 DEF CleanupUmount
    <2> QED
      BY <1>21, <2>1, <2>2 DEF CleanupUmount, Ended, Running
  <1>22. CASE UNCHANGED vars
    BY <1>22 DEF vars
  <1> QED
    BY <1>1, <1>2, <1>3, <1>4, <1>5, <1>6, <1>7, <1>8, <1>9, <1>10, <1>11, <1>12,
       <1>13, <1>14, <1>15, <1>16, <1>17, <1>18, <1>19, <1>21, <1>22
       DEF Next, ApplyNext

LEMMA VictimInit == Init => VictimOK
  BY DEF Init, VictimOK, Goroutines

LEMMA VictimStep == TypeOK /\ VictimOK /\ [Next]_vars => VictimOK'
  <1> SUFFICES ASSUME TypeOK, VictimOK, [Next]_vars PROVE VictimOK'
    OBVIOUS
  <1> USE DEF At, Goto, Fails, adb, daemon
  <1>1. ASSUME UNCHANGED <<victim, main>>,
               pc' = pc \/ {pc, pc'} \cap {"check", "signal"} = {}
        PROVE  VictimOK'
    BY <1>1 DEF VictimOK
  <1>2. ASSUME NEW f \in {"rndis", "adb"}, Begin(f) \/ rollback_mode(f) PROVE VictimOK'
    BY <1>1, <1>2 DEF Begin, rollback_mode
  <1>3. CASE GiveUp \/ CleanNothing \/ CleanRemoves \/ CleanFails \/ WaitRemoved
    BY <1>1, <1>3 DEF GiveUp, CleanNothing, CleanRemoves, CleanFails, WaitRemoved
  <1>4. CASE KernelRemoves \/ CreateGadget \/ CreateFails \/ AddRndis \/ AddFfs
    BY <1>1, <1>4 DEF KernelRemoves, CreateGadget, CreateFails, AddRndis, AddFfs
  <1>5. CASE EffectRndis \/ EffectAdbAttrs \/ MountFfs \/ AdbdTimeout
    BY <1>1, <1>5 DEF EffectRndis, EffectAdbAttrs, MountFfs, AdbdTimeout
  <1>6. CASE AdbdReady \/ Enable \/ EnableFails \/ StartAdbd \/ StartFails
    BY <1>1, <1>6 DEF AdbdReady, Enable, EnableFails, StartAdbd, StartFails
  <1>7. CASE WritePidFile \/ AdbdTaken
    BY <1>1, <1>7 DEF WritePidFile, AdbdTaken
  <1>8. ASSUME NEW a \in Goroutines, kill_adbd(a) PROVE VictimOK'
    <2>1. \A b \in Goroutines : b \in {"apply", "main"}
      BY DEF Goroutines
    <2>2. CASE KillTake(a)
      BY <2>1, <2>2 DEF KillTake, Moves, VictimOK, TypeOK, Goroutines
    <2>3. CASE KillRead(a)
      BY <2>1, <2>3 DEF KillRead, Moves, VictimOK, TypeOK, Goroutines
    <2>4. CASE KillCheck(a)
      BY <2>1, <2>4 DEF KillCheck, Moves, VictimOK, TypeOK, Goroutines
    <2>5. CASE KillSignal(a)
      BY <2>1, <2>5 DEF KillSignal, Moves, VictimOK, TypeOK, Goroutines
    <2>6. CASE KillUnlink(a)
      BY <2>1, <2>6 DEF KillUnlink, Moves, VictimOK, TypeOK, Goroutines
    <2> QED
      BY <1>8, <2>2, <2>3, <2>4, <2>5, <2>6 DEF kill_adbd
  <1>9. ASSUME NEW p \in Pids,
               AdbdOpens(p) \/ AdbdExits(p) \/ PidReused(p) \/ StrangerExits(p)
        PROVE  VictimOK'
    BY <1>1, <1>9 DEF AdbdOpens, AdbdExits, PidReused, StrangerExits
  <1>10. CASE Stop
    BY <1>10 DEF Stop, VictimOK
  <1>11. CASE CleanupUmount \/ Crash
    BY <1>11 DEF CleanupUmount, Crash, Ended, VictimOK, Goroutines
  <1>12. CASE Start
    BY <1>12 DEF Start, VictimOK
  <1>13. CASE UNCHANGED vars
    BY <1>1, <1>13 DEF vars
  <1> QED
    BY <1>2, <1>3, <1>4, <1>5, <1>6, <1>7, <1>8, <1>9, <1>10, <1>11, <1>12, <1>13
       DEF Next, ApplyNext

\* Types and victims together, for the theorems below.
LEMMA VictimsCorrect == Spec => [](TypeOK /\ VictimOK)
  BY TypeInit, TypeStep, VictimInit, VictimStep, PTL DEF Spec

\* Every reachable state of the controller is typed: the context, the gadget,
\* the processes and the mount point are what controller.go, c.go and adb.go
\* can make them.
THEOREM TypeCorrect == Spec => []TypeOK
  BY VictimsCorrect, PTL

-----------------------------------------------------------------------------
(* The gadget.                                                             *)

\* The labels from CreateGadget to the end of an attempt.
Built == {"add", "effect_rndis", "effect_adb", "mount", "kill", "check", "signal",
          "unlink", "start", "pidfile", "poll", "ready"}

\* What configfs and the context hold at each label of an attempt: after
\* CleanAll libusbgx knows no gadget, after CreateGadget only the own one.
GadgetInv ==
    /\ ~({"own", "other"} \subseteq known)
    /\ bound = "other" => "other" \in known
    /\ pc \in {"wait", "create"} => known = {} /\ ~ctxGadget /\ ~ctxConfig
    /\ pc = "create" /\ removing => fault
    /\ pc \in Built => known = {"own"} /\ ctxGadget /\ ctxConfig /\ confLive
    /\ FailureHasCause

LEMMA GadgetInit == Init => GadgetInv
  BY LeftoversAssumption DEF Init, GadgetInv, Built, FailureHasCause

LEMMA GadgetStep == TypeOK /\ GadgetInv /\ [Next]_vars => GadgetInv'
  <1> SUFFICES ASSUME TypeOK, GadgetInv, [Next]_vars PROVE GadgetInv'
    OBVIOUS
  <1> USE DEF GadgetInv, Built, FailureHasCause, At, Goto, Fails, apply, gadget,
              ctx, adb, daemon
  <1>1. ASSUME NEW f \in {"rndis", "adb"}, Begin(f) \/ rollback_mode(f) PROVE GadgetInv'
    BY <1>1 DEF Begin, rollback_mode
  <1>2. CASE GiveUp
    BY <1>2 DEF GiveUp
  <1>3. CASE CleanNothing
    BY <1>3 DEF CleanNothing
  <1>4. CASE CleanRemoves
    BY <1>4 DEF CleanRemoves, CleanHandles, Unbound, First, TypeOK, Gadgets
  <1>5. CASE CleanFails
    BY <1>5 DEF CleanFails, Unbound, First, TypeOK, Gadgets
  <1>6. CASE WaitRemoved
    BY <1>6 DEF WaitRemoved, wait_gadget_removed
  <1>7. CASE KernelRemoves
    BY <1>7 DEF KernelRemoves
  <1>8. CASE CreateGadget
    BY <1>8 DEF CreateGadget
  <1>9. CASE CreateFails
    BY <1>9 DEF CreateFails, DirExists
  <1>10. CASE AddRndis \/ AddFfs
    BY <1>10 DEF AddRndis, AddFfs
  <1>11. CASE EffectRndis \/ EffectAdbAttrs
    BY <1>11 DEF EffectRndis, EffectAdbAttrs
  <1>12. CASE MountFfs
    BY <1>12 DEF MountFfs
  <1>13. CASE StartAdbd \/ StartFails
    BY <1>13 DEF StartAdbd, StartFails
  <1>14. CASE WritePidFile \/ AdbdTaken \/ AdbdReady \/ AdbdTimeout
    BY <1>14 DEF WritePidFile, AdbdTaken, AdbdReady, AdbdTimeout
  <1>15. CASE Enable
    BY <1>15 DEF Enable
  <1>16. CASE EnableFails
    BY <1>16 DEF EnableFails, UdcFree, TypeOK, Gadgets
  <1>17. ASSUME NEW p \in Pids,
                AdbdOpens(p) \/ AdbdExits(p) \/ PidReused(p) \/ StrangerExits(p)
         PROVE  GadgetInv'
    BY <1>17 DEF AdbdOpens, AdbdExits, PidReused, StrangerExits
  <1>18. CASE Stop
    BY <1>18 DEF Stop
  <1>22. ASSUME NEW a \in Goroutines, kill_adbd(a) PROVE GadgetInv'
    <2>1. CASE KillTake(a) \/ KillRead(a)
      BY <2>1 DEF KillTake, KillRead, Moves
    <2>2. CASE KillCheck(a) \/ KillSignal(a)
      BY <2>2 DEF KillCheck, KillSignal, Moves
    <2>3. CASE KillUnlink(a)
      <3>1. UNCHANGED <<known, removing, confLive, bound, ctxGadget, ctxConfig>>
        BY <2>3 DEF KillUnlink, Moves
      <3>2. CASE pc' = "failed"
        BY <2>3, <3>1, <3>2 DEF KillUnlink, Moves
      <3>3. CASE pc' = pc \/ (pc' = "start" /\ pc = "unlink")
        <4>1. pc' \in Built => pc \in Built
          BY <3>3
        <4> QED
          BY <2>3, <3>1, <3>3, <4>1 DEF KillUnlink, Moves
      <3> QED
        BY <2>3, <3>2, <3>3 DEF KillUnlink, Moves
    <2> QED
      BY <1>22, <2>1, <2>2, <2>3 DEF kill_adbd
  <1>19. CASE CleanupUmount \/ Crash
    BY <1>19 DEF CleanupUmount, Crash, Ended
  <1>20. CASE Start
    BY <1>20 DEF Start
  <1>21. CASE UNCHANGED vars
    BY <1>21 DEF vars
  <1> QED
    BY <1>1, <1>2, <1>3, <1>4, <1>5, <1>6, <1>7, <1>8, <1>9, <1>10, <1>11, <1>12,
       <1>13, <1>14, <1>15, <1>16, <1>17, <1>18, <1>19, <1>20, <1>21,
       <1>22
       DEF Next, ApplyNext

\* Both handles of the libusbgx context are set and live where they are used,
\* whatever failed before; a dead one is kept at most from a failed CleanAll to
\* the next, which clears it (c.go, CleanAll and CreateGadget).
THEOREM HandlesAreLive == Spec => []HandlesLive
  <1>1. TypeOK /\ GadgetInv => HandlesLive
    BY DEF TypeOK, Labels, GadgetInv, HandlesLive, UsesHandles, Built
  <1> QED
    BY <1>1, TypeCorrect, GadgetInit, GadgetStep, PTL DEF Spec

\* No leftover of an earlier failure, stop or kill makes a later rebuild fail.
THEOREM FailuresHaveCause == Spec => []FailureHasCause
  <1>1. GadgetInv => FailureHasCause
    BY DEF GadgetInv
  <1> QED
    BY <1>1, TypeCorrect, GadgetInit, GadgetStep, PTL DEF Spec

-----------------------------------------------------------------------------
(* adbd.                                                                   *)

\* The labels of a kill_adbd that has chosen its victim, or found none.
Killing == {"check", "signal", "unlink"}

\* How each running adbd is accounted for, without the files that a kill_adbd
\* in progress is going to remove; and handle and pid file at the labels between
\* the kill of the old adbd and the pid file of the new one.
AdbdInv ==
    /\ AdbdAccounted
    /\ main # "down" /\ (pc \in Killing \/ main \in Killing) /\ pidfile \in Running =>
           pidfile \in {handle} \cup Victims \cup signalled
    /\ handle # None => pidfile \in {handle, None}
    /\ main # "down" /\ pc \in Killing \cup {"start"} => handle = None
    /\ main # "down" /\ pc \in {"start", "pidfile"} => pidfile = None
    /\ main = "down" => handle = None

\* Whatever ends a process keeps the others known, if nothing else changes.
LEMMA GoneAccounted ==
    ASSUME TypeOK, AdbdInv, NEW p \in Pids, NEW left \in {"free", "dead"},
           Gone(p, left), UNCHANGED <<handle, victim, pidfile, pc, main>>
    PROVE  AdbdInv'
  <1>1. Running' = Running \ {p} /\ Victims' = Victims /\ signalled' = signalled \ {p}
             /\ lost' = lost \ {p}
    BY DEF TypeOK, Running, Gone, Victims
  <1> QED
    BY <1>1 DEF AdbdInv, AdbdAccounted

\* The victims after goroutine a has taken one, and after it has let one go.
LEMMA VictimsTaken ==
    ASSUME TypeOK, VictimOK, NEW a \in Goroutines, NEW v \in Pids \cup {None},
           victim' = [victim EXCEPT ![a] = v], victim[a] = None
    PROVE  \A p \in Pids : p \in Victims' <=> p \in Victims \/ p = v
  BY NoneAssumption DEF TypeOK, Victims, Goroutines

LEMMA VictimsDropped ==
    ASSUME TypeOK, NEW a \in Goroutines, victim' = [victim EXCEPT ![a] = None]
    PROVE  \A p \in Pids : p \in Victims /\ p # victim[a] => p \in Victims'
  BY NoneAssumption DEF TypeOK, Victims, Goroutines

\* Where kill_adbd begins there is no victim yet.
LEMMA NoVictimYet ==
    ASSUME VictimOK, NEW a \in Goroutines, NEW to, Moves(a, "kill", to)
    PROVE  victim[a] = None
  BY DEF VictimOK, Moves, At, Goroutines

\* How a step of kill_adbd moves the two goroutines.
LEMMA KillMoves ==
    ASSUME NEW a \in Goroutines, NEW from, NEW to, Moves(a, from, to)
    PROVE  /\ main # "down" \/ from = "down"
           /\ \/ pc = from /\ pc' = to /\ main' = main /\ main # "down"
              \/ main = from /\ main' = to /\ pc' = pc
  BY DEF Moves, At, Goto, Goroutines

LEMMA KillAccounted ==
    ASSUME TypeOK, VictimOK, AdbdInv, NEW a \in Goroutines, kill_adbd(a)
    PROVE  AdbdInv'
  <1>1. CASE KillTake(a)
    <2>1. Moves(a, "kill", "signal")
      BY <1>1 DEF KillTake
    <2>2. \A p \in Pids : p \in Victims' <=> p \in Victims \/ p = handle
      BY <1>1, <2>1, NoVictimYet, VictimsTaken DEF KillTake, TypeOK
    <2>3. UNCHANGED <<procs, pidfile, signalled, lost>> /\ handle' = None /\ handle # None
      BY <1>1 DEF KillTake
    <2>4. Running' = Running
      BY <2>3 DEF Running
    <2>5. Running \subseteq Pids /\ pidfile \in {handle, None}
      BY <2>3 DEF Running, AdbdInv
    <2> QED
      BY <2>1, <2>2, <2>3, <2>4, <2>5, KillMoves, NoneAssumption
      DEF AdbdInv, AdbdAccounted, Killing
  <1>2. CASE KillRead(a)
    <2>1. PICK to \in {"check", "unlink"} : Moves(a, "kill", to)
      BY <1>2 DEF KillRead
    <2>2. \A p \in Pids : p \in Victims' <=> p \in Victims \/ p = pidfile
      BY <1>2, <2>1, NoVictimYet, VictimsTaken DEF KillRead, TypeOK
    <2>3. UNCHANGED <<procs, pidfile, handle, signalled, lost>> /\ handle = None
      BY <1>2 DEF KillRead
    <2>4. Running' = Running
      BY <2>3 DEF Running
    <2>5. Running \subseteq Pids
      BY DEF Running
    <2> QED
      BY <2>1, <2>2, <2>3, <2>4, <2>5, KillMoves, NoneAssumption
      DEF AdbdInv, AdbdAccounted, Killing
  <1>3. CASE KillCheck(a)
    <2>1. PICK to \in {"signal", "unlink"} : Moves(a, "check", to)
      BY <1>3 DEF KillCheck
    <2>2. UNCHANGED <<procs, pidfile, handle, signalled, lost>>
      BY <1>3 DEF KillCheck
    <2>3. Running' = Running /\ Running \subseteq Pids
      BY <2>2 DEF Running
    <2>4. \A p \in Running : p \in Victims => p \in Victims'
      BY <1>3, VictimsDropped DEF KillCheck, CommIsAdbd, Running, Victims
    <2> QED
      BY <2>1, <2>2, <2>3, <2>4, KillMoves DEF AdbdInv, AdbdAccounted, Killing
  <1>4. CASE KillSignal(a)
    <2>1. Moves(a, "signal", "unlink") /\ UNCHANGED <<handle, pidfile>>
      BY <1>4 DEF KillSignal
    <2>2. victim[a] \in Pids
      BY <2>1, VictimIsPid
    <2>3. \A p \in Pids : p \in Victims /\ p # victim[a] => p \in Victims'
      BY <1>4, VictimsDropped DEF KillSignal
    <2>4. /\ Running' \subseteq Running /\ Running \subseteq Pids
          /\ \A p \in Running' : /\ p \in lost => p \in lost'
                                 /\ p \in signalled => p \in signalled'
                                 /\ p = victim[a] => p \in signalled'
      BY <1>4, <2>2 DEF KillSignal, Gone, Running, TypeOK
    <2> QED
      BY <2>1, <2>3, <2>4, KillMoves DEF AdbdInv, AdbdAccounted, Killing
  <1>5. CASE KillUnlink(a)
    <2>1. UNCHANGED <<procs, handle, victim, signalled, lost>> /\ pidfile' = None
      BY <1>5 DEF KillUnlink
    <2>2. main # "down" /\ (pc = "unlink" \/ main = "unlink")
      BY <1>5 DEF KillUnlink, Moves, At
    <2>3. Running' = Running /\ Victims' = Victims /\ None \notin Running
      BY <2>1, NoneAssumption DEF Running, Victims
    <2>4. main' # "down" /\ (pc' \in Killing \cup {"start"} => pc \in Killing \cup {"start"})
      BY <1>5, <2>2 DEF KillUnlink, Moves, At, Goto, Fails, Killing
    <2> QED
      BY <2>1, <2>2, <2>3, <2>4 DEF AdbdInv, AdbdAccounted, Killing
  <1> QED
    BY <1>1, <1>2, <1>3, <1>4, <1>5 DEF kill_adbd

LEMMA AdbdInit == Init => AdbdInv
  BY DEF Init, AdbdInv, AdbdAccounted, Running, Killing

LEMMA AdbdStep == TypeOK /\ VictimOK /\ AdbdInv /\ [Next]_vars => AdbdInv'
  <1> SUFFICES ASSUME TypeOK, VictimOK, AdbdInv, [Next]_vars PROVE AdbdInv'
    OBVIOUS
  <1> USE DEF At, Goto, Fails, adb, daemon
  <1>1. ASSUME UNCHANGED <<procs, handle, victim, pidfile, signalled, lost, main>>,
               pc' = pc \/ pc' \notin Killing \cup {"start", "pidfile"}
        PROVE  AdbdInv'
    BY <1>1 DEF AdbdInv, AdbdAccounted, Running, Victims, Killing
  <1>2. ASSUME NEW f \in {"rndis", "adb"}, Begin(f) \/ rollback_mode(f) PROVE AdbdInv'
    BY <1>1, <1>2 DEF Begin, rollback_mode, Killing
  <1>3. CASE GiveUp \/ CleanNothing \/ CleanRemoves \/ CleanFails \/ WaitRemoved
    BY <1>1, <1>3 DEF GiveUp, CleanNothing, CleanRemoves, CleanFails, WaitRemoved,
       Killing
  <1>4. CASE KernelRemoves \/ CreateGadget \/ CreateFails \/ AddRndis \/ AddFfs
    BY <1>1, <1>4 DEF KernelRemoves, CreateGadget, CreateFails, AddRndis, AddFfs,
       Killing
  <1>5. CASE EffectRndis \/ EffectAdbAttrs \/ MountFfs
    BY <1>1, <1>5 DEF EffectRndis, EffectAdbAttrs, MountFfs, Killing
  <1>6. CASE AdbdReady \/ AdbdTimeout \/ Enable \/ EnableFails
    BY <1>1, <1>6 DEF AdbdReady, AdbdTimeout, Enable, EnableFails, Killing
  <1>7. ASSUME NEW a \in Goroutines, kill_adbd(a) PROVE AdbdInv'
    BY <1>7, KillAccounted
  <1>8. CASE StartAdbd
    BY <1>8, NoneAssumption
    DEF StartAdbd, StartedHandle, TypeOK, AdbdInv, AdbdAccounted, Running, Victims,
        Killing
  <1>9. CASE StartFails
    BY <1>9 DEF StartFails, AdbdInv, AdbdAccounted, Running, Victims, Killing
  <1>10. CASE WritePidFile
    BY <1>10, NoneAssumption
    DEF WritePidFile, TypeOK, AdbdInv, AdbdAccounted, Running, Victims, Killing
  <1>11. CASE AdbdTaken
    BY <1>11, NoneAssumption
    DEF AdbdTaken, TypeOK, AdbdInv, AdbdAccounted, Running, Victims, Killing, Goroutines
  <1>13. ASSUME NEW p \in Pids, AdbdOpens(p) PROVE AdbdInv'
    BY <1>1, <1>13 DEF AdbdOpens
  <1>14. ASSUME NEW p \in Pids, AdbdExits(p) \/ StrangerExits(p) PROVE AdbdInv'
    <2>1. PICK left \in {"free", "dead"} : Gone(p, left)
      BY <1>14 DEF AdbdExits, StrangerExits
    <2>2. UNCHANGED <<handle, victim, pidfile, pc, main>>
      BY <1>14 DEF AdbdExits, StrangerExits
    <2> QED
      BY <2>1, <2>2, GoneAccounted
  <1>15. ASSUME NEW p \in Pids, PidReused(p) PROVE AdbdInv'
    <2>1. Running' = Running
      BY <1>15 DEF PidReused, TypeOK, Running
    <2> QED
      BY <1>15, <2>1 DEF PidReused, AdbdInv, AdbdAccounted, Victims
  <1>16. CASE Stop
    BY <1>16 DEF Stop, AdbdInv, AdbdAccounted, Running, Victims, Killing
  <1>18. CASE CleanupUmount \/ Crash
    <2>1. Running' = Running /\ handle' = None /\ main' = "down" /\ UNCHANGED pidfile
      BY <1>18 DEF CleanupUmount, Crash, Ended, TypeOK, Running
    <2>2. lost' = lost \cup {p \in Running : p \in {handle} \cup Victims /\ p # pidfile}
      BY <1>18 DEF CleanupUmount, Crash, Ended
    <2>3. UNCHANGED signalled
      BY <1>18 DEF CleanupUmount, Crash
    <2> QED
      BY <2>1, <2>2, <2>3 DEF AdbdInv, AdbdAccounted
  <1>19. CASE Start
    BY <1>19 DEF Start, AdbdInv, AdbdAccounted, Running, Victims, Killing
  <1>20. CASE UNCHANGED vars
    BY <1>1, <1>20 DEF vars
  <1> QED
    BY <1>2, <1>3, <1>4, <1>5, <1>6, <1>7, <1>8, <1>9, <1>10, <1>11,
       <1>13, <1>14, <1>15, <1>16, <1>18, <1>19, <1>20
       DEF Next, ApplyNext

\* No adbd escapes: handle, pid file, a SIGTERM or the named loss of a pid file
\* accounts for every one that runs, over any number of rebuilds, races with
\* CleanupRuntime, kills and restarts (adb.go, effect and kill_adbd).
THEOREM AdbdsAccounted == Spec => []AdbdAccounted
  <1>1. AdbdInv => AdbdAccounted
    BY DEF AdbdInv
  <1> QED
    BY <1>1, VictimsCorrect, AdbdInit, AdbdStep, PTL DEF Spec

-----------------------------------------------------------------------------
(* CleanupRuntime.                                                         *)

\* This daemon's adbds are the one of the handle and those it is killing; a
\* layer that is held open is held by a running adbd; a quiet CleanupRuntime
\* finds no apply.
StopInv ==
    /\ main # "down" => Running \subseteq {handle} \cup Victims \cup inherited
    /\ \A i \in DOMAIN mounts : mounts[i] # None => mounts[i] \in Running
    /\ quiet /\ main \in {"kill", "umount"} \cup Killing => pc = "idle"
    /\ quiet /\ main \in {"umount"} \cup Killing => handle = None

\* The end of a process.
LEMMA GoneStop ==
    ASSUME TypeOK, StopInv, NEW p \in Pids, NEW left \in {"free", "dead"},
           Gone(p, left)
    PROVE  /\ Running' = Running \ {p}
           /\ inherited' = inherited \ {p}
           /\ \A i \in DOMAIN mounts' : mounts'[i] # None => mounts'[i] \in Running'
  BY NoneAssumption DEF TypeOK, StopInv, Running, Gone

\* A quiet CleanupRuntime stays quiet through its own steps, and no step of an
\* apply's kill_adbd leaves it quiet.
LEMMA KillQuiet ==
    ASSUME StopInv, NEW a \in Goroutines, NEW from, NEW to, Moves(a, from, to), quiet',
           main' \in {"kill", "umount"} \cup Killing
    PROVE  /\ main = from /\ main' = to /\ quiet /\ UNCHANGED pc
           /\ a = "main"
  BY DEF Moves, At, Goroutines, Killing

LEMMA KillStop ==
    ASSUME TypeOK, VictimOK, StopInv, NEW a \in Goroutines, kill_adbd(a)
    PROVE  StopInv'
  <1>1. CASE KillTake(a)
    <2>1. Moves(a, "kill", "signal")
      BY <1>1 DEF KillTake
    <2>2. \A p \in Pids : p \in Victims' <=> p \in Victims \/ p = handle
      BY <1>1, <2>1, NoVictimYet, VictimsTaken DEF KillTake, TypeOK
    <2>3. UNCHANGED <<procs, mounts, inherited>> /\ handle' = None
      BY <1>1 DEF KillTake
    <2>4. Running' = Running /\ Running \subseteq Pids
      BY <2>3 DEF Running
    <2> QED
      BY <2>1, <2>2, <2>3, <2>4, KillMoves, KillQuiet DEF StopInv
  <1>2. CASE KillRead(a)
    <2>1. PICK to \in {"check", "unlink"} : Moves(a, "kill", to)
      BY <1>2 DEF KillRead
    <2>2. \A p \in Pids : p \in Victims' <=> p \in Victims \/ p = pidfile
      BY <1>2, <2>1, NoVictimYet, VictimsTaken DEF KillRead, TypeOK
    <2>3. UNCHANGED <<procs, mounts, inherited, handle>> /\ handle = None
      BY <1>2 DEF KillRead
    <2>4. Running' = Running /\ Running \subseteq Pids
      BY <2>3 DEF Running
    <2> QED
      BY <2>1, <2>2, <2>3, <2>4, KillMoves, KillQuiet DEF StopInv
  <1>3. CASE KillCheck(a)
    <2>1. PICK to \in {"signal", "unlink"} : Moves(a, "check", to)
      BY <1>3 DEF KillCheck
    <2>2. UNCHANGED <<procs, mounts, inherited, handle>>
      BY <1>3 DEF KillCheck
    <2>3. Running' = Running /\ Running \subseteq Pids
      BY <2>2 DEF Running
    <2>4. \A p \in Running : p \in Victims => p \in Victims'
      BY <1>3, VictimsDropped DEF KillCheck, CommIsAdbd, Running, Victims
    <2> QED
      BY <2>1, <2>2, <2>3, <2>4, KillMoves, KillQuiet DEF StopInv, Killing
  <1>4. CASE KillSignal(a)
    <2>1. Moves(a, "signal", "unlink") /\ UNCHANGED handle
      BY <1>4 DEF KillSignal
    <2>2. victim[a] \in Pids
      BY <2>1, VictimIsPid
    <2>3. \A p \in Pids : p \in Victims /\ p # victim[a] => p \in Victims'
      BY <1>4, VictimsDropped DEF KillSignal
    <2>4. /\ Running' \subseteq Running /\ Running \subseteq Pids
          /\ \A p \in Running' : /\ p \in inherited => p \in inherited'
                                 /\ p = victim[a] => p \in inherited'
      BY <1>4, <2>2 DEF KillSignal, IsChild, Gone, Running, TypeOK
    <2>5. \A i \in DOMAIN mounts' : mounts'[i] # None => mounts'[i] \in Running'
      <3>1. CASE Gone(victim[a], "free")
        BY <2>2, <3>1, GoneStop
      <3>2. CASE ~Gone(victim[a], "free")
        BY <1>4, <3>2 DEF KillSignal, StopInv, Running
      <3> QED
        BY <3>1, <3>2
    <2> QED
      BY <2>1, <2>3, <2>4, <2>5, KillMoves, KillQuiet DEF StopInv, Killing
  <1>5. CASE KillUnlink(a)
    <2>1. UNCHANGED <<procs, handle, victim, mounts, inherited>>
      BY <1>5 DEF KillUnlink
    <2>2. Running' = Running /\ Victims' = Victims
      BY <2>1 DEF Running, Victims
    <2>3. main # "down"
      BY <1>5 DEF KillUnlink, Moves, At
    <2>4. quiet' /\ main' \in {"kill", "umount"} \cup Killing =>
              main = "unlink" /\ quiet /\ UNCHANGED pc
      BY <1>5 DEF KillUnlink, Moves, At, Goroutines, Killing, Fails
    <2> QED
      BY <2>1, <2>2, <2>3, <2>4 DEF StopInv, Killing
  <1> QED
    BY <1>1, <1>2, <1>3, <1>4, <1>5 DEF kill_adbd

\* The layers that umount_ffs leaves were there before, and the top one is busy.
LEMMA UnmountedStop ==
    ASSUME TypeOK, StopInv, NEW ms \in Unmounted
    PROVE  /\ \A i \in DOMAIN ms : ms[i] # None => ms[i] \in Running
           /\ ms # <<>> => Len(ms) \in DOMAIN ms /\ ms[Len(ms)] # None
  <1>1. PICK n \in 0..Len(mounts) : ms = SubSeq(mounts, 1, n)
    BY DEF Unmounted, Layers
  <1>2. mounts \in Seq(Pids \cup {None}) /\ Len(mounts) \in Nat
    BY DEF TypeOK
  <1>3. Len(ms) = n /\ DOMAIN ms = 1..n /\ \A i \in 1..n : ms[i] = mounts[i]
    BY <1>1, <1>2
  <1>4. ms \in Seq(Pids \cup {None})
    BY UnmountedTyped
  <1>5. ms # <<>> => n # 0
    BY <1>3, <1>4
  <1> QED
    BY <1>2, <1>3, <1>5 DEF StopInv, Unmounted

LEMMA StopInit == Init => StopInv
  BY DEF Init, StopInv, Running, Killing

LEMMA StopStep ==
    TypeOK /\ VictimOK /\ AdbdInv /\ StopInv /\ [Next]_vars => StopInv'
  <1> SUFFICES ASSUME TypeOK, VictimOK, AdbdInv, StopInv, [Next]_vars PROVE StopInv'
    OBVIOUS
  <1> USE DEF At, Goto, Fails, adb, daemon
  <1>1. ASSUME UNCHANGED <<procs, handle, victim, mounts, inherited, main>>,
               \/ UNCHANGED <<quiet, pc>>
               \/ main # "down" /\ (quiet' => quiet /\ main = "run")
        PROVE  StopInv'
    <2>1. Running' = Running /\ Victims' = Victims
      BY <1>1 DEF Running, Victims
    <2>2. quiet' /\ main' \in {"kill", "umount"} \cup Killing => quiet /\ pc' = pc
      BY <1>1 DEF Killing
    <2> QED
      BY <1>1, <2>1, <2>2 DEF StopInv
  <1>2. ASSUME NEW f \in {"rndis", "adb"}, Begin(f) \/ rollback_mode(f) PROVE StopInv'
    BY <1>1, <1>2 DEF Begin, rollback_mode
  <1>3. CASE GiveUp \/ CleanNothing \/ CleanRemoves \/ CleanFails \/ WaitRemoved
    BY <1>1, <1>3 DEF GiveUp, CleanNothing, CleanRemoves, CleanFails, WaitRemoved
  <1>4. CASE CreateGadget \/ CreateFails \/ AddRndis \/ AddFfs
    BY <1>1, <1>4 DEF CreateGadget, CreateFails, AddRndis, AddFfs
  <1>21. CASE KernelRemoves
    BY <1>1, <1>21 DEF KernelRemoves
  <1>5. CASE EffectRndis \/ EffectAdbAttrs
    BY <1>1, <1>5 DEF EffectRndis, EffectAdbAttrs
  <1>6. CASE AdbdReady \/ Enable \/ EnableFails \/ WritePidFile \/ AdbdTaken
    BY <1>1, <1>6 DEF AdbdReady, Enable, EnableFails, WritePidFile, AdbdTaken
  <1>7. CASE MountFfs
    <2>1. PICK ms \in Unmounted : mounts' \in {Append(ms, None), ms}
      BY <1>7 DEF MountFfs
    <2>2. ms \in Seq(Pids \cup {None})
      BY UnmountedTyped
    <2>3. \A i \in DOMAIN mounts' : mounts'[i] # None => mounts'[i] \in Running
      BY <2>1, <2>2, UnmountedStop
    <2>4. UNCHANGED <<procs, handle, victim, inherited, main>> /\ main # "down"
      BY <1>7 DEF MountFfs
    <2>5. quiet' = (quiet /\ main = "run")
      BY <1>7 DEF MountFfs
    <2> QED
      BY <2>3, <2>4, <2>5 DEF StopInv, Running, Victims, Killing
  <1>8. ASSUME NEW a \in Goroutines, kill_adbd(a) PROVE StopInv'
    BY <1>8, KillStop
  <1>9. CASE StartAdbd
    BY <1>9, NoneAssumption
    DEF StartAdbd, StartedHandle, TypeOK, AdbdInv, StopInv, Running, Victims, Killing
  <1>10. CASE StartFails
    BY <1>10 DEF StartFails, AdbdInv, StopInv, Running, Victims, Killing
  <1>11. CASE AdbdTimeout
    BY <1>1, <1>11 DEF AdbdTimeout
  <1>12. ASSUME NEW p \in Pids, AdbdOpens(p) PROVE StopInv'
    <2>1. Len(mounts) \in DOMAIN mounts /\ DOMAIN mounts' = DOMAIN mounts
      BY <1>12 DEF AdbdOpens, TypeOK
    <2>2. \A i \in DOMAIN mounts' : mounts'[i] # None => mounts'[i] \in Running
      BY <1>12, <2>1 DEF AdbdOpens, StopInv, Running
    <2> QED
      BY <1>12, <2>2 DEF AdbdOpens, StopInv, Running, Victims
  <1>13. ASSUME NEW p \in Pids, AdbdExits(p) \/ StrangerExits(p) PROVE StopInv'
    <2>1. PICK left \in {"free", "dead"} : Gone(p, left)
      BY <1>13 DEF AdbdExits, StrangerExits
    <2>2. UNCHANGED <<handle, victim, pc, main, quiet>>
      BY <1>13 DEF AdbdExits, StrangerExits
    <2> QED
      BY <2>1, <2>2, GoneStop DEF StopInv, Victims
  <1>14. ASSUME NEW p \in Pids, PidReused(p) PROVE StopInv'
    <2>1. Running' = Running
      BY <1>14 DEF PidReused, TypeOK, Running
    <2> QED
      BY <1>14, <2>1 DEF PidReused, StopInv, Victims
  <1>15. CASE Stop
    BY <1>15 DEF Stop, StopInv, Running, Victims, Killing
  <1>17. CASE CleanupUmount
    <2>1. \A i \in DOMAIN mounts' : mounts'[i] # None => mounts'[i] \in Running
      BY <1>17, UnmountedStop DEF CleanupUmount
    <2>2. Running' = Running /\ main' = "down"
      BY <1>17 DEF CleanupUmount, Ended, Running, TypeOK
    <2> QED
      BY <2>1, <2>2 DEF StopInv, Killing
  <1>18. CASE Crash
    BY <1>18 DEF Crash, Ended, TypeOK, StopInv, Running, Killing
  <1>19. CASE Start
    BY <1>19 DEF Start, StopInv, Running, Killing
  <1>20. CASE UNCHANGED vars
    BY <1>1, <1>20 DEF vars
  <1> QED
    BY <1>2, <1>3, <1>4, <1>5, <1>6, <1>7, <1>8, <1>9, <1>10, <1>11, <1>12,
       <1>13, <1>14, <1>15, <1>17, <1>18, <1>19, <1>20,
       <1>21 DEF Next, ApplyNext

\* A stop at rest leaves nothing of this daemon: CleanupRuntime's kill comes
\* before its umount, and no layer is held by anyone but an inherited adbd.
THEOREM StopsLeaveNothing == Spec => StopLeavesNothing
  <1>1. TypeOK /\ VictimOK /\ StopInv /\ [Next]_vars =>
            [main = "umount" /\ main' = "down" /\ quiet' =>
                /\ {p \in Pids : procs'[p] = "adbd"} \subseteq inherited
                /\ mounts' # <<>> => mounts'[Len(mounts')] \in inherited]_vars
    <2> SUFFICES ASSUME TypeOK, VictimOK, StopInv, Next,
                        main = "umount", main' = "down", quiet'
                 PROVE  /\ {p \in Pids : procs'[p] = "adbd"} \subseteq inherited
                        /\ mounts' # <<>> => mounts'[Len(mounts')] \in inherited
      BY DEF vars, daemon
    <2>1. CASE CleanupUmount
      <3>1. {p \in Pids : procs'[p] = "adbd"} = Running /\ quiet
        BY <2>1 DEF CleanupUmount, Ended, Running, TypeOK
      <3>2. Running \subseteq inherited
        <4>1. pc = "idle" /\ handle = None
          BY <3>1 DEF StopInv
        <4>2. Victims = {None}
          BY <4>1 DEF VictimOK, Victims, Goroutines
        <4> QED
          BY <4>1, <4>2, NoneAssumption DEF StopInv, Running
      <3>3. mounts' # <<>> => mounts'[Len(mounts')] \in Running
        BY <2>1, UnmountedStop DEF CleanupUmount
      <3> QED
        BY <3>1, <3>2, <3>3
    <2>2. CASE Crash
      BY <2>2 DEF Crash
    <2>3. Next /\ ~CleanupUmount /\ ~Crash => main' # "down"
      <3>1. ASSUME ApplyNext PROVE UNCHANGED main
        BY <3>1 DEF ApplyNext, Begin, rollback_mode, GiveUp, CleanNothing, CleanRemoves,
           CleanFails, WaitRemoved, CreateGadget, CreateFails, AddRndis, AddFfs,
           EffectRndis, EffectAdbAttrs, MountFfs, StartAdbd, StartFails,
           WritePidFile, AdbdTaken, AdbdReady, AdbdTimeout, Enable, EnableFails, Fails
      <3>2. ASSUME NEW a \in Goroutines, kill_adbd(a) PROVE main' # "down"
        BY <3>2 DEF kill_adbd, KillTake, KillRead, KillCheck, KillSignal, KillUnlink,
           Moves, Fails
      <3> QED
        BY <3>1, <3>2 DEF Next, KernelRemoves, AdbdOpens, AdbdExits, PidReused,
           StrangerExits, Stop, Start, daemon
    <2> QED
      BY <2>1, <2>2, <2>3
  <1> QED
    BY <1>1, VictimsCorrect, AdbdInit, AdbdStep, StopInit, StopStep, PTL
    DEF Spec, StopLeavesNothing

\* While the daemon is not stopping there is one adbd of its own at most: where a
\* rebuild starts one, kill_adbd has waited for the one before (adb.go, effect,
\* kill_adbd and stop_process).
THEOREM OnlyOneAdbd == Spec => []OneAdbd
  <1>1. VictimOK /\ AdbdInv /\ StopInv => OneAdbd
    <2> SUFFICES ASSUME VictimOK, AdbdInv, StopInv, main = "run"
                 PROVE  \A p, q \in Running \ inherited : p = q
      BY DEF OneAdbd
    <2>1. victim["main"] = None /\ Running \ inherited \subseteq {handle} \cup Victims
      BY DEF VictimOK, StopInv
    <2>2. victim["apply"] = None \/ handle = None
      BY DEF VictimOK, AdbdInv, Killing
    <2>3. None \notin Running
      BY NoneAssumption DEF Running
    <2> QED
      BY <2>1, <2>2, <2>3 DEF Victims, Goroutines
  <1> QED
    BY <1>1, VictimsCorrect, AdbdInit, AdbdStep, StopInit, StopStep, PTL DEF Spec

=============================================================================
