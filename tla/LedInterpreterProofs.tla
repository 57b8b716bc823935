------------------------ MODULE LedInterpreterProofs ------------------------
(***************************************************************************)
(* LedInterpreter's safety for any set of modes, durations and goroutines. *)
(* OneLoop needs to know what mode_cancel names; NeverSpins, that a loop   *)
(* about to iterate has no time left on its timer and that the interpreter *)
(* is started with nothing to wait for; LedFollowsMode, that a mode that   *)
(* has not begun is at its first action and due; RoundTakesItsTime, that   *)
(* the time since SetMode covers the waits of the actions played so far.   *)
(***************************************************************************)
EXTENDS LedInterpreter, WellFoundedInduction, TLAPS

Playing(l) == loops[l].pc # "none" /\ ~loops[l].cancelled

\* OneLoop, loop by loop, with what mode_cancel holds.
Owned ==
    /\ running => mode_cancel \in Loops
    /\ ~running => mode_cancel = NoLoop
    /\ \A l \in Loops : Playing(l) <=> (running /\ l = mode_cancel)

TimersDone == \A l \in Loops : loops[l].pc = "top" => loops[l].timer = 0

TimersCover == \A l \in Loops : Playing(l) => next_action_time <= loops[l].timer

Fresh == ~init => mode_action_index = 0 /\ next_action_time = 0

Loading ==
    /\ life = "loading" => mode = MODE_PRESET_OFF
    /\ life \in {"loading", "broken", "loaded"} => next_action_time = 0 /\ ~running

IInv ==
    /\ TypeOK
    /\ Owned
    /\ TimersDone
    /\ TimersCover
    /\ Fresh
    /\ Loading
    /\ LedFollowsMode

LEMMA ActionTypes ==
    ASSUME TypeOK, Len(mode) # 0
    PROVE  /\ Len(mode) \in Nat
           /\ DOMAIN mode = 1 .. Len(mode)
           /\ mode_action_index + 1 \in 1 .. Len(mode)
           /\ current_action \in Actions
           /\ \A i \in 1 .. Len(mode) : mode[i] \in Actions
  <1>1. mode \in Seq(Actions)
    BY ModesAssumption DEF TypeOK
  <1>2. Len(mode) \in Nat /\ DOMAIN mode = 1 .. Len(mode)
    BY <1>1
  <1>3. \A i \in 1 .. Len(mode) : mode[i] \in Actions
    BY <1>1
  <1>4. mode_action_index + 1 \in 1 .. Len(mode)
    BY <1>2 DEF TypeOK
  <1> QED BY <1>2, <1>3, <1>4 DEF current_action

\* What a step of act() does to the fields that Next's actions share.
LEMMA ActTypes ==
    ASSUME TypeOK, act
    PROVE  /\ mode' = mode
           /\ init' \in BOOLEAN
           /\ mode_action_index' \in Nat
           /\ mode_action_index' < Len(mode) \/ mode_action_index' = 0
           /\ next_action_time' \in 0 .. MaxDuration
           /\ loop_count' \in -1 .. MaxInt \div 2 - 1
           /\ light' \in BOOLEAN
           /\ trigger' \in {"none", "other"}
           /\ failed' \in BOOLEAN /\ retried' \in BOOLEAN
           /\ elapsed' \in 0 .. MaxElapsed
  <1> USE DEF TypeOK
  <1>1. MaxInt \in Nat /\ MaxInt >= 8
    BY BoundsAssumption
  <1>2. ASSUME ~NotDue
        PROVE  /\ Counted \in -1 .. MaxInt \div 2 - 1
               /\ SkipAction \in Nat /\ SkipAction < Len(mode)
               /\ current_action.duration \in 0 .. MaxDuration
    <2>1. Len(mode) # 0
      BY <1>2 DEF NotDue
    <2>2. Len(mode) \in Nat /\ current_action \in Actions
      BY <2>1, ActionTypes
    <2>3. SkipAction \in Nat /\ SkipAction < Len(mode)
      BY <2>1, <2>2 DEF SkipAction
    <2>4. Counted \in -1 .. MaxInt \div 2 - 1
      BY <1>1 DEF Counted
    <2> QED BY <2>2, <2>3, <2>4 DEF Actions
  <1>3. CASE ActNothing
    BY <1>3 DEF ActNothing, device, record
  <1>4. CASE ActWait
    BY <1>2, <1>4 DEF ActWait, device, record
  <1>5. CASE ActWrite
    <2>1. light' \in BOOLEAN
      BY <1>5 DEF ActWrite
    <2> QED BY <1>2, <1>5, <2>1 DEF ActWrite
  <1>6. CASE ActFails
    <2>1. light' \in BOOLEAN /\ retried' \in BOOLEAN
      BY <1>6, Zenon DEF ActFails
    <2> QED BY <1>2, <1>6, <2>1 DEF ActFails
  <1> QED BY <1>3, <1>4, <1>5, <1>6 DEF act

LEMMA NextIndex ==
    ASSUME NEW n \in Nat \ {0}, NEW i \in 0 .. n - 1
    PROVE  \/ (i + 1) % n = 0 /\ i + 1 = n
           \/ (i + 1) % n = i + 1 /\ i + 1 < n
  <1>1. n % n = 0
    BY SMTT(20)
  <1>2. ASSUME NEW k \in Nat, k < n
        PROVE  k % n = k
    BY <1>2, SMTT(20)
  <1> QED BY <1>1, <1>2

\* act() leaves the LED following its mode.
LEMMA ActFollows ==
    ASSUME TypeOK, Fresh, LedFollowsMode, act
    PROVE  LedFollowsMode' /\ Fresh'
  <1>0. mode_action_index \in Nat /\ mode \in Seq(Actions) /\ next_action_time \in Nat
    BY ModesAssumption DEF TypeOK
  <1>1. CASE ActNothing
    <2>1. UNCHANGED <<mode, mode_action_index, next_action_time, light, trigger,
                      failed>> /\ init' = TRUE
      BY <1>1 DEF ActNothing, device, record
    <2>2. CASE init
      BY <2>1, <2>2 DEF LedFollowsMode, Fresh, Written, Played
    <2>3. CASE ~init
      <3>1. Len(mode) = 0
        BY <1>1, <2>3 DEF ActNothing, NotDue, Fresh
      <3>2. DOMAIN mode = {}
        BY <1>0, <3>1
      <3>3. Written' = {}
        BY <2>1, <2>3, <3>2 DEF Written, Played, Fresh
      <3> QED BY <2>1, <3>3 DEF LedFollowsMode, Fresh
    <2> QED BY <2>2, <2>3
  <1>2. ASSUME ~NotDue
        PROVE  /\ Len(mode) \in Nat \ {0}
               /\ DOMAIN mode = 1 .. Len(mode)
               /\ mode_action_index \in 0 .. Len(mode) - 1
               /\ \/ SkipAction = 0 /\ mode_action_index + 1 = Len(mode)
                  \/ SkipAction = mode_action_index + 1 /\ SkipAction # 0
    <2>1. Len(mode) # 0
      BY <1>2 DEF NotDue
    <2>2. /\ Len(mode) \in Nat \ {0}
          /\ DOMAIN mode = 1 .. Len(mode)
          /\ mode_action_index \in 0 .. Len(mode) - 1
      <3>1. /\ Len(mode) \in Nat /\ DOMAIN mode = 1 .. Len(mode)
            /\ mode_action_index + 1 \in 1 .. Len(mode)
        BY <2>1, ActionTypes
      <3>2. ASSUME NEW n \in Nat, NEW i \in Nat, i + 1 \in 1 .. n
            PROVE  i \in 0 .. n - 1
        BY ONLY <3>2
      <3>3. mode_action_index \in Nat
        BY <1>0, Zenon
      <3> QED BY <2>1, <3>1, <3>2, <3>3, Zenon
    <2>3. \/ SkipAction = 0 /\ mode_action_index + 1 = Len(mode)
          \/ SkipAction = mode_action_index + 1 /\ mode_action_index + 1 < Len(mode)
      BY <2>2, NextIndex DEF SkipAction
    <2>4. mode_action_index + 1 # 0
      BY <2>2
    <2>5. SkipAction = mode_action_index + 1 => SkipAction # 0
      BY <2>4
    <2> QED BY <2>2, <2>3, <2>5, Zenon
  <1>3. CASE ActWait
    <2>1. /\ UNCHANGED <<mode, light, trigger, failed>> /\ init' = TRUE
          /\ mode_action_index' = SkipAction
          /\ mode[mode_action_index + 1].action = "WAIT"
          /\ ~NotDue
      BY <1>3 DEF ActWait, device, record, current_action
    <2>2. Played' = 1 .. mode_action_index + 1
      BY <1>2, <2>1 DEF Played
    <2>5. Written' = {i \in 1 .. mode_action_index + 1 : mode[i].action # "WAIT"}
      BY <2>1, <2>2 DEF Written
    <2>3. CASE mode_action_index = 0
      <3>1. Written' = {}
        BY <2>1, <2>3, <2>5
      <3> QED BY <2>1, <3>1 DEF LedFollowsMode, Fresh
    <2>4. CASE mode_action_index # 0
      <3>1. Played = 1 .. mode_action_index
        BY <2>4 DEF Played
      <3>2. Written' = Written
        <4>1. 1 .. mode_action_index + 1
                  = (1 .. mode_action_index) \cup {mode_action_index + 1}
          <5>1. mode_action_index \in Nat
            BY <1>2, <2>1
          <5> QED BY ONLY <5>1
        <4>2. Written = {i \in 1 .. mode_action_index : mode[i].action # "WAIT"}
          BY <3>1 DEF Written
        <4> QED BY <2>1, <2>5, <4>1, <4>2, Zenon
      <3>3. init
        BY <2>4 DEF Fresh
      <3> QED BY <2>1, <3>2, <3>3 DEF LedFollowsMode, Fresh
    <2> QED BY <2>3, <2>4
  <1>4. CASE ActWrite
    <2>1. /\ mode' = mode /\ init' = TRUE
          /\ mode_action_index' = SkipAction
          /\ mode[mode_action_index + 1].action # "WAIT"
          /\ ~NotDue
          /\ trigger' = "none"
          /\ light' = (mode[mode_action_index + 1].action = "ON")
      BY <1>4 DEF ActWrite, current_action
    <2>2. Played' = 1 .. mode_action_index + 1
      BY <1>2, <2>1 DEF Played
    <2>5. Written' = {i \in 1 .. mode_action_index + 1 : mode[i].action # "WAIT"}
      BY <2>1, <2>2 DEF Written
    <2>3. mode_action_index + 1 \in Written'
      <3>1. mode_action_index + 1 \in 1 .. mode_action_index + 1
        BY <1>0
      <3> QED BY <2>1, <2>5, <3>1
    <2>4. \A i \in Written' : (\A j \in Written' : j <= i) => i = mode_action_index + 1
      BY <2>3, <2>5
    <2> QED BY <2>1, <2>4 DEF LedFollowsMode, Fresh
  <1>5. CASE ActFails
    BY <1>5 DEF ActFails, LedFollowsMode, Fresh
  <1> QED BY <1>1, <1>3, <1>4, <1>5 DEF act

-----------------------------------------------------------------------------
(* The invariant.                                                          *)

LEMMA InitInv == Init => IInv
  <1> SUFFICES ASSUME Init PROVE IInv
    OBVIOUS
  <1>1. TypeOK
    <2>1. light \in BOOLEAN /\ 0 \in 0 .. MaxDuration /\ 0 \in 0 .. MaxElapsed
      BY ModesAssumption, BoundsAssumption DEF Init
    <2>2. -1 \in -1 .. MaxInt \div 2 - 1
      BY BoundsAssumption
    <2> QED BY <2>1, <2>2, ModesAssumption DEF Init, TypeOK, IdleLoop
  <1>2. Owned /\ TimersDone /\ TimersCover
    BY DEF Init, Owned, TimersDone, TimersCover, Playing, IdleLoop
  <1>3. Fresh /\ Loading /\ LedFollowsMode
    BY DEF Init, Fresh, Loading, LedFollowsMode
  <1> QED BY <1>1, <1>2, <1>3 DEF IInv

\* Steps that change neither the mode nor the device keep what the LED shows.
LEMMA FollowsFrame ==
    ASSUME LedFollowsMode, Fresh,
           UNCHANGED <<mode, init, mode_action_index, light, trigger, failed>>,
           next_action_time' = next_action_time \/ next_action_time' = 0
    PROVE  LedFollowsMode' /\ Fresh'
  BY DEF LedFollowsMode, Fresh, Written, Played

LEMMA TickInv ==
    ASSUME IInv, TickOk \/ TickFails
    PROVE  IInv'
  <1> USE DEF IInv
  <1>1. /\ act /\ life = "loading"
        /\ UNCHANGED <<running, mode_cancel, loops, healthy, quiet>>
        /\ life' \in {"loaded", "broken"}
    BY DEF TickOk, TickFails, act
  <1>2. TypeOK'
    BY <1>1, ActTypes DEF TypeOK
  <1>3. LedFollowsMode' /\ Fresh'
    BY <1>1, ActFollows
  <1>4. next_action_time' = 0
    <2>1. mode = <<Off>> /\ next_action_time = 0 /\ Len(mode) = 1
      BY <1>1 DEF Loading, MODE_PRESET_OFF
    <2>2. mode_action_index = 0
      BY <2>1 DEF TypeOK
    <2>3. current_action = Off
      BY <2>1, <2>2 DEF current_action
    <2>4. current_action.action # "WAIT"
      BY <2>3 DEF Off
    <2> QED BY <1>1, <2>1, <2>4 DEF act, ActNothing, ActWait, ActWrite, ActFails
  <1>5. Owned' /\ TimersDone'
    BY <1>1 DEF Owned, TimersDone, Playing
  <1>6. TimersCover'
    BY <1>1, <1>4 DEF TimersCover, TypeOK, Playing, Owned, Loading
  <1>7. Loading'
    BY <1>1, <1>4 DEF Loading
  <1> QED BY <1>2, <1>3, <1>5, <1>6, <1>7

LoopStates == [pc : {"none", "top", "timer", "parked"},
               cancelled : BOOLEAN, timer : 0 .. MaxDuration]

\* After mode_cancel() no loop plays any more.
LEMMA CancelledLoops ==
    ASSUME TypeOK, Owned
    PROVE  /\ Cancelled(loops) \in [Loops -> LoopStates]
           /\ \A k \in Loops : LET c == Cancelled(loops)[k]
                               IN /\ c.pc = loops[k].pc /\ c.timer = loops[k].timer
                                  /\ c.pc = "none" \/ c.cancelled
           /\ ~running => Cancelled(loops) = loops
  <1>1. ASSUME NEW k \in Loops
        PROVE  LET c == Cancelled(loops)[k]
               IN /\ c \in LoopStates
                  /\ c.pc = loops[k].pc /\ c.timer = loops[k].timer
                  /\ c.pc = "none" \/ c.cancelled
    <2>1. loops[k] \in LoopStates
      BY DEF TypeOK, LoopStates
    <2>2. CASE k = mode_cancel
      <3>1. Cancelled(loops)[k] = [loops[k] EXCEPT !.cancelled = TRUE]
        BY <2>2 DEF Cancelled
      <3> QED BY <2>1, <3>1 DEF LoopStates
    <2>3. CASE k # mode_cancel
      <3>1. Cancelled(loops)[k] = loops[k]
        BY <2>3 DEF Cancelled
      <3> QED BY <2>1, <2>3, <3>1 DEF Owned, Playing
    <2> QED BY <2>2, <2>3
  <1>2. Cancelled(loops) \in [Loops -> LoopStates]
    BY <1>1 DEF Cancelled
  <1>3. ASSUME ~running PROVE Cancelled(loops) = loops
    <2>1. \A k \in Loops : k # mode_cancel
      BY <1>3, BoundsAssumption DEF Owned
    <2> QED BY <2>1 DEF Cancelled, TypeOK
  <1> QED BY <1>1, <1>2, <1>3

\* A new loop is the only one that plays.
LEMMA StartedLoops ==
    ASSUME TypeOK, Owned, NEW l \in Loops, loops' = Started(l, Cancelled(loops))
    PROVE  /\ loops' \in [Loops -> LoopStates]
           /\ \A k \in Loops : Playing(k)' <=> k = l
           /\ loops'[l].timer = 0
           /\ \A k \in Loops \ {l} : /\ loops'[k].pc = loops[k].pc
                                     /\ loops'[k].timer = loops[k].timer
  <1>1. 0 \in 0 .. MaxDuration
    BY ModesAssumption
  <1>2. /\ loops'[l] = [pc |-> "top", cancelled |-> FALSE, timer |-> 0]
        /\ \A k \in Loops \ {l} : loops'[k] = Cancelled(loops)[k]
        /\ DOMAIN loops' = Loops /\ loops' = [k \in Loops |-> loops'[k]]
    BY CancelledLoops DEF Started, IdleLoop
  <1>3. loops'[l] \in LoopStates
    BY <1>1, <1>2 DEF LoopStates
  <1>4. loops' \in [Loops -> LoopStates]
    BY <1>2, <1>3, CancelledLoops
  <1>5. \A k \in Loops : Playing(k)' <=> k = l
    BY <1>2, CancelledLoops DEF Playing
  <1> QED BY <1>2, <1>4, <1>5, CancelledLoops

LEMMA SetModeInv ==
    ASSUME IInv, NEW m \in LedModes, SetMode(m)
    PROVE  IInv'
  <1> USE DEF IInv
  <1>1. /\ mode' = m /\ init' = FALSE /\ mode_action_index' = 0
        /\ next_action_time' = 0 /\ loop_count' = -1
        /\ failed' = FALSE /\ retried' = FALSE /\ elapsed' = 0
        /\ UNCHANGED <<life, healthy, quiet, running, light, trigger>>
        /\ life \in {"started", "stopped"}
    BY DEF SetMode, Begun, FirstLoopCount, env, device
  <1>2. loops' \in [Loops -> LoopStates] /\ mode_cancel' \in Loops \cup {NoLoop}
        /\ Owned' /\ TimersDone'
    <2>1. CASE running
      <3>1. PICK l \in Loops : /\ loops[l].pc = "none"
                               /\ loops' = Started(l, Cancelled(loops))
                               /\ mode_cancel' = l
        BY <2>1 DEF SetMode
      <3>2. Owned'
        BY <1>1, <2>1, <3>1, StartedLoops DEF Owned
      <3>3. TimersDone'
        BY <3>1, StartedLoops DEF TimersDone
      <3> QED BY <3>1, <3>2, <3>3, StartedLoops
    <2>2. CASE ~running
      <3>1. loops' = loops /\ mode_cancel' = NoLoop
        BY <2>2, CancelledLoops DEF SetMode
      <3>2. loops \in [Loops -> LoopStates]
        BY DEF TypeOK, LoopStates
      <3> QED BY <1>1, <2>2, <3>1, <3>2 DEF Owned, TimersDone, Playing
    <2> QED BY <2>1, <2>2
  <1>3. TypeOK'
    <2>1. /\ 0 \in 0 .. MaxDuration /\ 0 \in 0 .. MaxElapsed
          /\ -1 \in -1 .. MaxInt \div 2 - 1
      BY ModesAssumption, BoundsAssumption
    <2> QED BY <1>1, <1>2, <2>1 DEF TypeOK, LoopStates
  <1>4. TimersCover'
    BY <1>1, <1>2, <1>3 DEF TimersCover, TypeOK
  <1>5. Fresh' /\ Loading' /\ LedFollowsMode'
    BY <1>1 DEF Fresh, Loading, LedFollowsMode
  <1> QED BY <1>2, <1>3, <1>4, <1>5

LEMMA StartStopInv ==
    ASSUME IInv, Start \/ Stop
    PROVE  IInv'
  <1> USE DEF IInv
  <1>1. /\ UNCHANGED <<mode, init, mode_action_index, next_action_time, loop_count,
                       light, trigger, failed, retried, elapsed, healthy, quiet>>
        /\ life' \in {"started", "stopped"}
    BY DEF Start, Stop, fields, device, record
  <1>2. /\ loops' \in [Loops -> LoopStates] /\ mode_cancel' \in Loops \cup {NoLoop}
        /\ running' \in BOOLEAN
        /\ Owned' /\ TimersDone' /\ TimersCover'
    <2>1. CASE Start
      <3>1. ~running /\ running' = TRUE /\ next_action_time = 0
        BY <2>1 DEF Start, Loading
      <3>2. PICK l \in Loops : /\ loops[l].pc = "none"
                               /\ loops' = Started(l, Cancelled(loops))
                               /\ mode_cancel' = l
        BY <2>1, <3>1, CancelledLoops DEF Start
      <3>3. Owned'
        BY <3>1, <3>2, StartedLoops DEF Owned
      <3>4. TimersDone'
        BY <3>2, StartedLoops DEF TimersDone
      <3>5. TimersCover'
        BY <1>1, <3>1, <3>2, StartedLoops DEF TimersCover, TypeOK
      <3> QED BY <3>1, <3>2, <3>3, <3>4, <3>5, StartedLoops
    <2>2. CASE Stop
      <3>1. loops' = Cancelled(loops) /\ mode_cancel' = NoLoop /\ running' = FALSE
        BY <2>2 DEF Stop
      <3>2. \A k \in Loops : ~Playing(k)'
        BY <3>1, CancelledLoops DEF Playing
      <3> QED BY <1>1, <3>1, <3>2, CancelledLoops DEF Owned, TimersDone, TimersCover
    <2> QED BY <2>1, <2>2
  <1>3. TypeOK'
    BY <1>1, <1>2 DEF TypeOK, LoopStates
  <1>4. Fresh' /\ LedFollowsMode'
    BY <1>1, FollowsFrame
  <1>5. Loading'
    BY <1>1 DEF Loading
  <1> QED BY <1>2, <1>3, <1>4, <1>5

\* Steps of a loop other than an iteration.
LEMMA LoopInv ==
    ASSUME IInv, NEW l \in Loops, LoopReturns(l) \/ LoopTimer(l) \/ LoopDone(l)
    PROVE  IInv'
  <1> USE DEF IInv
  <1>1. /\ UNCHANGED <<mode, init, mode_action_index, next_action_time, loop_count,
                       light, trigger, failed, retried, elapsed, life, healthy,
                       quiet, running, mode_cancel>>
    BY DEF LoopReturns, LoopTimer, LoopDone, env, fields, device, record
  <1>2. loops \in [Loops -> LoopStates] /\ 0 \in 0 .. MaxDuration
    BY ModesAssumption DEF TypeOK, LoopStates
  <1>3. /\ loops' \in [Loops -> LoopStates]
        /\ \A k \in Loops : /\ Playing(k)' <=> Playing(k)
                            /\ Playing(k)' => loops'[k].timer = loops[k].timer
        /\ TimersDone'
    <2>1. CASE LoopReturns(l) \/ LoopDone(l)
      <3>1. /\ loops' = [loops EXCEPT ![l] = IdleLoop]
            /\ ~Playing(l)
        BY <2>1, <1>2 DEF LoopReturns, LoopDone, Done, Playing, Owned
      <3>2. IdleLoop \in LoopStates /\ IdleLoop.pc = "none"
        BY <1>2 DEF IdleLoop, LoopStates
      <3> QED BY <1>2, <3>1, <3>2 DEF Playing, TimersDone
    <2>2. CASE LoopTimer(l)
      <3>1. /\ loops' = [loops EXCEPT ![l].pc = "top"]
            /\ loops[l].pc = "timer" /\ loops[l].timer = 0
        BY <2>2 DEF LoopTimer
      <3>2. /\ loops'[l] = [loops[l] EXCEPT !.pc = "top"]
            /\ \A k \in Loops \ {l} : loops'[k] = loops[k]
            /\ DOMAIN loops' = Loops /\ loops' = [k \in Loops |-> loops'[k]]
        BY <1>2, <3>1
      <3>3. loops'[l] \in LoopStates
        BY <1>2, <3>2 DEF LoopStates
      <3>4. loops' \in [Loops -> LoopStates]
        BY <1>2, <3>2, <3>3
      <3>5. loops'[l].pc = "top" /\ loops'[l].timer = 0 /\ loops'[l].cancelled = loops[l].cancelled
        BY <1>2, <3>1, <3>2 DEF LoopStates
      <3> QED BY <3>1, <3>2, <3>4, <3>5 DEF Playing, TimersDone
    <2> QED BY <2>1, <2>2
  <1>4. TypeOK'
    BY <1>1, <1>3 DEF TypeOK, LoopStates
  <1>5. Owned' /\ TimersCover'
    BY <1>1, <1>3 DEF Owned, TimersCover
  <1>6. Fresh' /\ LedFollowsMode'
    BY <1>1, FollowsFrame
  <1>7. Loading'
    BY <1>1 DEF Loading
  <1> QED BY <1>3, <1>4, <1>5, <1>6, <1>7

\* An iteration: only the loop that plays gets this far, and it finds its
\* action due and its timer over.
LEMMA IterateInv ==
    ASSUME IInv, NEW l \in Loops, Iterate(l)
    PROVE  IInv'
  <1> USE DEF IInv
  <1>1. /\ act /\ running /\ loops[l].pc = "top" /\ ~loops[l].cancelled
        /\ UNCHANGED <<life, healthy, quiet, running, mode_cancel>>
    BY DEF Iterate, env
  <1>2. Playing(l) /\ l = mode_cancel
    BY <1>1 DEF Playing, Owned
  <1>3. next_action_time = 0
    <2>1. next_action_time <= 0
      BY <1>1, <1>2 DEF TimersCover, TimersDone
    <2> QED BY <2>1 DEF TypeOK
  <1>4. loops \in [Loops -> LoopStates] /\ 0 \in 0 .. MaxDuration
    BY ModesAssumption DEF TypeOK, LoopStates
  <1>5. ASSUME ~Static
        PROVE  /\ LoopWait \in 0 .. MaxDuration
               /\ next_action_time' <= LoopWait
    <2>1. Len(mode) # 0
      BY <1>5 DEF Static
    <2>2. current_action \in Actions
      BY <2>1, ActionTypes
    <2>3. LoopWait \in 0 .. MaxDuration
      BY <1>4, <2>2 DEF LoopWait, Actions
    <2>4. CASE ActWait
      BY <2>3, <2>4 DEF ActWait, LoopWait
    <2>5. CASE ActNothing \/ ActWrite \/ ActFails
      <3>1. next_action_time' = 0
        BY <1>3, <2>5 DEF ActNothing, ActWrite, ActFails
      <3> QED BY <2>3, <3>1
    <2> QED BY <1>1, <2>3, <2>4, <2>5 DEF act
  <1>6. ASSUME Static
        PROVE  next_action_time' = 0
    <2>1. ~ActWait
      BY <1>6 DEF Static, ActWait, NotDue
    <2> QED BY <1>1, <1>3, <2>1 DEF act, ActNothing, ActWrite, ActFails
  <1>7. /\ loops' \in [Loops -> LoopStates]
        /\ \A k \in Loops \ {l} : loops'[k] = loops[k]
        /\ loops'[l].pc # "none" /\ loops'[l].pc # "top" /\ ~loops'[l].cancelled
        /\ next_action_time' <= loops'[l].timer
    <2>1. CASE Static
      <3>1. loops' = [loops EXCEPT ![l] = [@ EXCEPT !.pc = "parked"]]
        BY <2>1 DEF Iterate
      <3>2. /\ loops'[l] = [loops[l] EXCEPT !.pc = "parked"]
            /\ \A k \in Loops \ {l} : loops'[k] = loops[k]
            /\ loops' = [k \in Loops |-> loops'[k]]
        BY <1>4, <3>1
      <3>3. /\ loops'[l] \in LoopStates /\ loops'[l].pc = "parked"
            /\ ~loops'[l].cancelled /\ loops'[l].timer = 0
        BY <1>1, <1>4, <3>2 DEF LoopStates, TimersDone
      <3>4. loops' \in [Loops -> LoopStates]
        BY <1>4, <3>2, <3>3
      <3> QED BY <1>6, <2>1, <3>2, <3>3, <3>4
    <2>2. CASE ~Static
      <3>1. loops' = [loops EXCEPT ![l] = [@ EXCEPT !.pc = "timer", !.timer = LoopWait]]
        BY <2>2 DEF Iterate
      <3>2. /\ loops'[l] = [loops[l] EXCEPT !.pc = "timer", !.timer = LoopWait]
            /\ \A k \in Loops \ {l} : loops'[k] = loops[k]
            /\ loops' = [k \in Loops |-> loops'[k]]
        BY <1>4, <3>1
      <3>3. /\ loops'[l] \in LoopStates /\ loops'[l].pc = "timer"
            /\ ~loops'[l].cancelled /\ loops'[l].timer = LoopWait
        BY <1>1, <1>4, <1>5, <2>2, <3>2 DEF LoopStates
      <3>4. loops' \in [Loops -> LoopStates]
        BY <1>4, <3>2, <3>3
      <3> QED BY <1>5, <2>2, <3>2, <3>3, <3>4
    <2> QED BY <2>1, <2>2
  <1>8. TypeOK'
    BY <1>1, <1>7, ActTypes DEF TypeOK, LoopStates
  <1>9. LedFollowsMode' /\ Fresh'
    BY <1>1, ActFollows
  <1>10. Owned' /\ TimersDone'
    BY <1>1, <1>2, <1>7 DEF Owned, TimersDone, Playing
  <1>11. TimersCover'
    BY <1>2, <1>7, <1>10 DEF TimersCover, Playing, Owned
  <1>12. Loading'
    BY <1>1 DEF Loading
  <1> QED BY <1>8, <1>9, <1>10, <1>11, <1>12

LEMMA ElapseInv ==
    ASSUME IInv, Elapse
    PROVE  IInv'
  <1> USE DEF IInv
  <1>1. /\ UNCHANGED <<mode, init, mode_action_index, loop_count, light, trigger,
                       failed, retried, life, healthy, quiet, running, mode_cancel>>
        /\ next_action_time' = CountDown(next_action_time)
        /\ elapsed' \in 0 .. MaxElapsed
    BY BoundsAssumption DEF Elapse, env, device, TypeOK
  <1>2. loops \in [Loops -> LoopStates] /\ MaxDuration \in Nat
    BY ModesAssumption DEF TypeOK, LoopStates
  <1>3. next_action_time' \in 0 .. MaxDuration /\ (next_action_time = 0 => next_action_time' = 0)
    BY <1>1, <1>2 DEF CountDown, TypeOK
  <1>4. ASSUME NEW k \in Loops
        PROVE  /\ loops'[k] \in LoopStates
               /\ loops'[k].pc = loops[k].pc /\ loops'[k].cancelled = loops[k].cancelled
               /\ loops'[k].timer = CountDown(loops[k].timer)
    <2>1. loops'[k] = [loops[k] EXCEPT !.timer = CountDown(@)]
      BY DEF Elapse
    <2>2. CountDown(loops[k].timer) \in 0 .. MaxDuration
      BY <1>2 DEF CountDown, LoopStates
    <2> QED BY <1>2, <2>1, <2>2 DEF LoopStates
  <1>5. loops' \in [Loops -> LoopStates]
    BY <1>4 DEF Elapse
  <1>6. TypeOK'
    BY <1>1, <1>3, <1>5 DEF TypeOK, LoopStates
  <1>7. Owned' /\ TimersDone'
    BY <1>1, <1>4 DEF Owned, TimersDone, Playing, CountDown
  <1>8. TimersCover'
    <2> SUFFICES ASSUME NEW k \in Loops, Playing(k)'
                 PROVE  next_action_time' <= loops'[k].timer
      BY DEF TimersCover
    <2>1. next_action_time <= loops[k].timer
      BY <1>4 DEF Playing, TimersCover
    <2>2. next_action_time \in Nat /\ loops[k].timer \in Nat
      BY <1>2 DEF TypeOK, LoopStates
    <2> QED BY <1>1, <1>4, <2>1, <2>2 DEF CountDown
  <1>9. Fresh' /\ Loading'
    BY <1>1, <1>3 DEF Fresh, Loading
  <1>10. LedFollowsMode'
    BY <1>1 DEF LedFollowsMode, Written, Played
  <1> QED BY <1>6, <1>7, <1>8, <1>9, <1>10

LEMMA EnvInv ==
    ASSUME IInv, Break \/ Repair \/ Quiet \/ UNCHANGED vars
    PROVE  IInv'
  <1> USE DEF IInv
  <1>1. /\ UNCHANGED <<life, mode, init, mode_action_index, next_action_time,
                       loop_count, running, mode_cancel, loops, light, trigger,
                       failed, retried, elapsed>>
    BY DEF Break, Repair, Quiet, vars, env, fields, device, record
  <1>2. healthy' \in BOOLEAN /\ quiet' \in BOOLEAN
    BY DEF Break, Repair, Quiet, vars, env, TypeOK
  <1>3. TypeOK'
    BY <1>1, <1>2 DEF TypeOK
  <1>4. Owned' /\ TimersDone' /\ TimersCover' /\ Loading'
    BY <1>1 DEF Owned, TimersDone, TimersCover, Playing, Loading
  <1>5. Fresh' /\ LedFollowsMode'
    BY <1>1, FollowsFrame
  <1> QED BY <1>3, <1>4, <1>5

THEOREM Inductive == Spec => []IInv
  <1>1. IInv /\ [Next]_vars => IInv'
    BY TickInv, SetModeInv, StartStopInv, LoopInv, IterateInv, ElapseInv, EnvInv DEF Next
  <1> QED BY <1>1, InitInv, PTL DEF Spec

\* The fields of the interpreter, the goroutines and the device keep their
\* types; the action index never leaves the mode that is being played.
THEOREM TypeCorrect == Spec => []TypeOK
  <1>1. IInv => TypeOK
    BY DEF IInv
  <1> QED BY <1>1, Inductive, PTL

\* However SetMode, Start and Stop interleave with the loops of earlier
\* modes, exactly one goroutine plays a running LED and none a stopped one.
THEOREM OneLoopPlays == Spec => []OneLoop
  <1>1. IInv => OneLoop
    <2> SUFFICES ASSUME IInv PROVE OneLoop
      OBVIOUS
    <2>1. \A l \in Loops : l \in LiveLoops <=> (running /\ l = mode_cancel)
      BY DEF IInv, Owned, Playing, LiveLoops
    <2>2. CASE running
      BY <2>1, <2>2 DEF OneLoop, LiveLoops, IInv, Owned
    <2>3. CASE ~running
      BY <2>1, <2>3 DEF OneLoop, LiveLoops
    <2> QED BY <2>2, <2>3
  <1> QED BY <1>1, Inductive, PTL

\* For every set of modes, a LED that has begun its mode shows the last ON or
\* OFF of that mode, unless its write failed.
THEOREM LedFollows == Spec => []LedFollowsMode
  <1>1. IInv => LedFollowsMode
    BY DEF IInv
  <1> QED BY <1>1, Inductive, PTL

\* For all durations, the loop's timer and next_action_time agree: no loop
\* goes round without waiting for its action.
THEOREM LoopsNeverSpin == Spec => []NeverSpins
  <1>1. IInv => NeverSpins
    BY DEF IInv, NeverSpins, TimersCover, Playing, LiveLoops
  <1> QED BY <1>1, Inductive, PTL

-----------------------------------------------------------------------------
(* A round takes its time.                                                 *)

\* A set of numbers that is not empty has a least element.
LEMMA LeastElement ==
    ASSUME NEW T, T \subseteq Nat, T # {}
    PROVE  \E n \in T : \A m \in T : ~(m < n)
  <1> DEFINE R == OpToRel(<, Nat)
  <1>1. IsWellFoundedOn(R, Nat)
    BY NatLessThanWellFounded, Zenon
  <1> HIDE DEF R
  <1>2. PICK n \in T : \A m \in T : ~ (<<m, n>> \in R)
    BY <1>1, WFMin
  <1>3. \A m \in T : m < n => <<m, n>> \in R
    BY DEF R, OpToRel
  <1> QED BY <1>2, <1>3

\* A set with 0 that is closed under successor holds every number.
LEMMA SetInduction ==
    ASSUME NEW S, 0 \in S, \A n \in Nat : n \in S => n + 1 \in S
    PROVE  Nat \subseteq S
  <1> SUFFICES ASSUME Nat \ S # {} PROVE FALSE
    OBVIOUS
  <1>1. PICK n \in Nat \ S : \A m \in Nat \ S : ~(m < n)
    BY LeastElement
  <1>2. n # 0
    BY <1>1
  <1>3. n - 1 \in Nat /\ n - 1 < n
    BY <1>2
  <1>4. n - 1 \in S
    BY <1>1, <1>3
  <1>5. (n - 1) + 1 \in S
    BY <1>3, <1>4
  <1> QED BY <1>5

\* What the i-th action of m waits for.
WaitOf(m, i) == IF m[i].action = "WAIT" THEN m[i].duration ELSE 0

\* f sums the waits of the first n actions of m.
SumsTo(f, m, n) ==
    /\ f \in [0 .. n -> Nat]
    /\ f[0] = 0
    /\ \A i \in 1 .. n : f[i] = f[i - 1] + WaitOf(m, i)

LEMMA WaitsAreNumbers ==
    ASSUME NEW m \in LedModes
    PROVE  Len(m) \in Nat /\ \A i \in 1 .. Len(m) : WaitOf(m, i) \in Nat
  <1>1. m \in Seq(Actions) /\ MaxDuration \in Nat
    BY ModesAssumption
  <1>2. \A i \in 1 .. Len(m) : m[i] \in Actions
    BY <1>1
  <1> QED BY <1>1, <1>2 DEF WaitOf, Actions

\* The recursive function Waits(m) exists: a function like it can be built up
\* action by action.
LEMMA WaitsSum ==
    ASSUME NEW m \in LedModes
    PROVE  SumsTo(Waits(m), m, Len(m))
  <1> DEFINE S == {n \in Nat : n <= Len(m) => \E f : SumsTo(f, m, n)}
             W == Waits(m)
  <1>1. 0 \in S
    <2>1. SumsTo([i \in 0 .. 0 |-> 0], m, 0)
      BY DEF SumsTo
    <2> QED BY <2>1
  <1>2. ASSUME NEW n \in Nat, n \in S PROVE n + 1 \in S
    <2> SUFFICES ASSUME n + 1 <= Len(m) PROVE \E g : SumsTo(g, m, n + 1)
      OBVIOUS
    <2>1. PICK f : SumsTo(f, m, n)
      BY <1>2, WaitsAreNumbers
    <2> DEFINE g == [i \in 0 .. n + 1 |-> IF i <= n THEN f[i]
                                                    ELSE f[n] + WaitOf(m, n + 1)]
    <2>2. f[n] \in Nat /\ WaitOf(m, n + 1) \in Nat /\ f \in [0 .. n -> Nat]
      BY <2>1, WaitsAreNumbers DEF SumsTo
    <2>3. g \in [0 .. n + 1 -> Nat]
      BY <2>2
    <2>4. g[0] = 0 /\ g[n + 1] = f[n] + WaitOf(m, n + 1)
          /\ \A i \in 0 .. n : g[i] = f[i]
      BY <2>1 DEF SumsTo
    <2> HIDE DEF g
    <2>5. ASSUME NEW i \in 1 .. n + 1 PROVE g[i] = g[i - 1] + WaitOf(m, i)
      <3>1. CASE i = n + 1
        <4>1. i - 1 = n /\ g[n] = f[n]
          BY <2>4, <3>1
        <4> QED BY <2>4, <3>1, <4>1
      <3>2. CASE i # n + 1
        <4>1. i \in 1 .. n /\ i \in 0 .. n /\ i - 1 \in 0 .. n
          BY <3>2
        <4>2. f[i] = f[i - 1] + WaitOf(m, i)
          BY <2>1, <4>1 DEF SumsTo
        <4> QED BY <2>4, <4>1, <4>2
      <3> QED BY <3>1, <3>2
    <2>6. SumsTo(g, m, n + 1)
      BY <2>3, <2>4, <2>5 DEF SumsTo
    <2> QED BY <2>6
  <1>3. PICK f : SumsTo(f, m, Len(m))
    <2>1. Nat \subseteq S
      <3> HIDE DEF S
      <3> QED BY <1>1, <1>2, SetInduction
    <2> QED BY <2>1, WaitsAreNumbers
  <1>4. f = [i \in 0 .. Len(m) |-> IF i = 0 THEN 0 ELSE f[i - 1] + WaitOf(m, i)]
    <2>1. ASSUME NEW i \in 0 .. Len(m)
          PROVE  f[i] = IF i = 0 THEN 0 ELSE f[i - 1] + WaitOf(m, i)
      BY <1>3, WaitsAreNumbers DEF SumsTo
    <2>2. f \in [0 .. Len(m) -> Nat]
      BY <1>3 DEF SumsTo
    <2> QED BY <2>1, <2>2
  <1>5. W = [i \in 0 .. Len(m) |-> IF i = 0 THEN 0 ELSE W[i - 1] + WaitOf(m, i)]
    <2>1. W = CHOOSE g : g = [i \in 0 .. Len(m) |->
                 IF i = 0 THEN 0 ELSE g[i - 1] + WaitOf(m, i)]
      BY Zenon DEF Waits, WaitOf
    <2> HIDE DEF W
    <2> QED BY <1>4, <2>1, Zenon
  <1> HIDE DEF W
  <1>6. W[0] = 0 /\ \A i \in 1 .. Len(m) : W[i] = W[i - 1] + WaitOf(m, i)
    BY <1>5, WaitsAreNumbers
  <1>7. \A i \in 0 .. Len(m) : W[i] \in Nat
    <2> DEFINE P == {n \in Nat : n <= Len(m) => W[n] \in Nat}
    <2>1. 0 \in P
      BY <1>6
    <2>2. ASSUME NEW n \in Nat, n \in P PROVE n + 1 \in P
      <3> SUFFICES ASSUME n + 1 <= Len(m) PROVE W[n + 1] \in Nat
        OBVIOUS
      <3>1. n + 1 \in 1 .. Len(m) /\ (n + 1) - 1 = n /\ W[n] \in Nat
        BY <2>2, WaitsAreNumbers
      <3>2. W[n + 1] = W[n] + WaitOf(m, n + 1)
        BY <1>6, <3>1
      <3>3. WaitOf(m, n + 1) \in Nat
        BY <3>1, WaitsAreNumbers
      <3> QED BY <3>1, <3>2, <3>3
    <2>3. Nat \subseteq P
      <3> HIDE DEF P
      <3> QED BY <2>1, <2>2, SetInduction
    <2> QED BY <2>3, WaitsAreNumbers
  <1>8. W \in [0 .. Len(m) -> Nat]
    BY <1>5, <1>7
  <1> QED BY <1>6, <1>8 DEF SumsTo, W

\* A round waits for at least what its first actions wait for.
LEMMA WaitsGrow ==
    ASSUME NEW m \in LedModes, NEW i \in 0 .. Len(m)
    PROVE  Waits(m)[i] <= Period(m)
  <1> DEFINE W == Waits(m)
             P == {n \in Nat : i + n <= Len(m) => W[i] <= W[i + n]}
  <1>1. SumsTo(W, m, Len(m))
    BY WaitsSum
  <1>2. Len(m) \in Nat /\ i \in Nat
    BY WaitsAreNumbers
  <1>3. Period(m) = W[Len(m)]
    BY DEF Period
  <1> HIDE DEF W
  <1>4. \A k \in 0 .. Len(m) : W[k] \in Nat
    BY <1>1 DEF SumsTo
  <1>5. 0 \in P
    BY <1>2, <1>4
  <1>6. ASSUME NEW n \in Nat, n \in P PROVE n + 1 \in P
    <2> SUFFICES ASSUME i + (n + 1) <= Len(m) PROVE W[i] <= W[i + (n + 1)]
      OBVIOUS
    <2>1. /\ i + (n + 1) \in 1 .. Len(m) /\ (i + (n + 1)) - 1 = i + n
          /\ i + n \in 0 .. Len(m) /\ W[i] <= W[i + n]
      BY <1>2, <1>6
    <2>2. W[i + (n + 1)] = W[i + n] + WaitOf(m, i + (n + 1))
      BY <1>1, <2>1 DEF SumsTo
    <2>3. WaitOf(m, i + (n + 1)) \in Nat /\ W[i + n] \in Nat /\ W[i] \in Nat
      BY <1>4, <2>1, WaitsAreNumbers
    <2> QED BY <2>1, <2>2, <2>3
  <1>7. Nat \subseteq P
    <2> HIDE DEF P
    <2> QED BY <1>5, <1>6, SetInduction
  <1>8. Len(m) - i \in Nat /\ i + (Len(m) - i) = Len(m)
    BY <1>2
  <1>9. W[i] <= W[Len(m)]
    BY <1>7, <1>8, <1>2
  <1> QED BY <1>3, <1>9 DEF W

\* How many actions of the mode have been played: at index 0, all of them.
PlayedTo == IF mode_action_index = 0 THEN Len(mode) ELSE mode_action_index

\* In the first round, what was waited for and what is left of the current
\* wait cover the waits of the actions played; from the second on, the first
\* round was waited for.
Waited ==
    ~retried =>
        /\ loop_count = -1 => mode_action_index = 0
        /\ loop_count = 0 => elapsed + next_action_time >= Waits(mode)[PlayedTo]
        /\ loop_count >= 1 => elapsed >= Period(mode)

\* What the waits of the current mode add up to, where its actions stand.
LEMMA WaitsHere ==
    ASSUME TypeOK, Len(mode) # 0
    PROVE  /\ Len(mode) \in Nat \ {0} /\ mode_action_index \in 0 .. Len(mode) - 1
           /\ PlayedTo \in 1 .. Len(mode)
           /\ WaitOf(mode, mode_action_index + 1) \in Nat
           /\ \A i \in 0 .. Len(mode) : Waits(mode)[i] \in Nat
           /\ Waits(mode)[0] = 0
           /\ Waits(mode)[mode_action_index + 1]
                 = Waits(mode)[mode_action_index] + WaitOf(mode, mode_action_index + 1)
  <1>1. /\ Len(mode) \in Nat \ {0} /\ mode_action_index \in 0 .. Len(mode) - 1
        /\ mode_action_index + 1 \in 1 .. Len(mode)
    BY ActionTypes DEF TypeOK
  <1>2. PlayedTo \in 1 .. Len(mode)
    BY <1>1 DEF PlayedTo
  <1>3. SumsTo(Waits(mode), mode, Len(mode))
    BY WaitsSum DEF TypeOK
  <1>4. WaitOf(mode, mode_action_index + 1) \in Nat
    BY <1>1, WaitsAreNumbers DEF TypeOK
  <1>5. (mode_action_index + 1) - 1 = mode_action_index
    BY <1>1
  <1> QED BY <1>1, <1>2, <1>3, <1>4, <1>5 DEF SumsTo

\* An action is played, or waits to be tried again: its wait is added to what
\* is left, and the first one starts a round only when the last has been
\* waited for.
LEMMA ActWaited ==
    ASSUME TypeOK, Waited, act
    PROVE  Waited'
  <1> USE DEF TypeOK
  <1>1. CASE ActNothing
    BY <1>1 DEF ActNothing, record, Waited, PlayedTo
  <1>2. CASE ActWait \/ ActWrite \/ ActFails
    <2> SUFFICES ASSUME ~retried' PROVE Waited'
      BY DEF Waited
    <2>1. /\ ~NotDue /\ mode' = mode /\ elapsed' = elapsed /\ loop_count' = Counted
          /\ ~retried
      BY <1>2 DEF ActWait, ActWrite, ActFails, record
    <2>2. Len(mode) # 0 /\ next_action_time = 0
      BY <2>1 DEF NotDue
    <2> DEFINE i == mode_action_index
               n == Len(mode)
               w == Waits(mode)
               d == WaitOf(mode, mode_action_index + 1)
    <2>3. /\ n \in Nat \ {0} /\ i \in 0 .. n - 1
          /\ d \in Nat
          /\ \A k \in 0 .. n : w[k] \in Nat
          /\ w[0] = 0
          /\ w[i + 1] = w[i] + d
          /\ Period(mode) = w[n]
      BY <2>2, WaitsHere DEF Period
    <2>4. /\ loop_count = -1 => i = 0
          /\ loop_count = 0 => elapsed >= w[IF i = 0 THEN n ELSE i]
          /\ loop_count >= 1 => elapsed >= w[n]
      BY <2>1, <2>2, <2>3 DEF Waited, PlayedTo
    <2>5. /\ loop_count = -1 => Counted = 0
          /\ loop_count >= 0 /\ i = 0 => Counted >= 1
          /\ loop_count = 0 /\ i # 0 => Counted = 0
          /\ loop_count >= 1 => Counted >= 1
          /\ loop_count \in Int /\ loop_count >= -1
      BY <2>4, BoundsAssumption DEF Counted
    <2>6. elapsed \in Nat
      BY BoundsAssumption
    <2>7. CASE ActFails
      <3>1. i # 0 /\ mode_action_index' = i /\ next_action_time' = 0
        BY <2>2, <2>7 DEF ActFails
      <3>2. PlayedTo' = i
        BY <3>1 DEF PlayedTo
      <3> HIDE DEF i, n, w, d
      <3>3. /\ Counted = 0 => elapsed >= w[i]
            /\ Counted >= 1 => elapsed >= w[n]
            /\ Counted # -1
        BY <2>3, <2>4, <2>5, <2>6, <3>1
      <3>4. elapsed' + next_action_time' = elapsed
        BY <2>1, <2>6, <3>1
      <3> QED BY <2>1, <2>3, <3>2, <3>3, <3>4 DEF Waited, w
    <2>8. CASE ActWait \/ ActWrite
      <3>1. mode_action_index' = SkipAction /\ next_action_time' = d
        BY <2>2, <2>8 DEF ActWait, ActWrite, current_action, WaitOf
      <3>2. PlayedTo' = i + 1
        <4>1. \/ SkipAction = 0 /\ i + 1 = n
              \/ SkipAction = i + 1 /\ i + 1 # 0
          BY <2>3, NextIndex DEF SkipAction
        <4>2. PlayedTo' = IF SkipAction = 0 THEN n ELSE SkipAction
          BY <2>1, <3>1 DEF PlayedTo
        <4> QED BY <4>1, <4>2
      <3> HIDE DEF i, n, w, d
      <3>3. Counted = 0 => elapsed + d >= w[i + 1]
        <4>1. CASE i = 0
          BY <2>3, <2>6, <4>1
        <4>2. CASE i # 0
          BY <2>3, <2>4, <2>5, <2>6, <4>2
        <4> QED BY <4>1, <4>2
      <3>4. Counted >= 1 => elapsed >= w[n]
        BY <2>3, <2>4, <2>5, <2>6
      <3>5. Counted # -1
        BY <2>4, <2>5
      <3>6. Period(mode') = w[n] /\ Waits(mode')[PlayedTo'] = w[i + 1]
        BY <2>1, <2>3, <3>2 DEF w
      <3> QED BY <2>1, <3>1, <3>3, <3>4, <3>5, <3>6 DEF Waited
    <2> QED BY <1>2, <2>7, <2>8
  <1> QED BY <1>1, <1>2 DEF act

\* Time moves from what is left of the wait to what was waited for; the
\* record is full only when it covers a whole round.
LEMMA ElapseWaited ==
    ASSUME TypeOK, Waited, Elapse
    PROVE  Waited'
  <1> USE DEF TypeOK
  <1>1. /\ UNCHANGED <<mode, mode_action_index, loop_count, retried>>
        /\ next_action_time' = CountDown(next_action_time)
        /\ elapsed' = IF elapsed < MaxElapsed THEN elapsed + 1 ELSE elapsed
    BY DEF Elapse
  <1>2. elapsed \in Nat /\ next_action_time \in Nat /\ MaxElapsed \in Nat
    BY BoundsAssumption, ModesAssumption
  <1>3. PlayedTo' = PlayedTo
    BY <1>1 DEF PlayedTo
  <1> DEFINE w == Waits(mode)[PlayedTo]
             p == Period(mode)
  <1>4. w \in Nat /\ p \in Nat /\ w <= p /\ p <= MaxElapsed
    <2>1. SumsTo(Waits(mode), mode, Len(mode)) /\ Len(mode) \in Nat
      BY WaitsSum, WaitsAreNumbers
    <2>2. PlayedTo \in 0 .. Len(mode) /\ Len(mode) \in 0 .. Len(mode)
      BY <2>1 DEF PlayedTo
    <2>3. w \in Nat /\ p \in Nat
      BY <2>1, <2>2 DEF SumsTo, Period
    <2>4. w <= p
      BY <2>2, WaitsGrow
    <2> QED BY <2>3, <2>4, RecordAssumption
  <1>5. Waits(mode')[PlayedTo'] = w /\ Period(mode') = p
    BY <1>1, <1>3
  <1> HIDE DEF w, p
  <1>6. elapsed + next_action_time >= w => elapsed' + next_action_time' >= w
    BY <1>1, <1>2, <1>4 DEF CountDown
  <1>7. elapsed >= p => elapsed' >= p
    BY <1>1, <1>2, <1>4
  <1> QED BY <1>1, <1>5, <1>6, <1>7 DEF Waited, w, p

LEMMA WaitedStep ==
    ASSUME IInv, Waited, [Next]_vars
    PROVE  Waited'
  <1>1. CASE TickOk \/ TickFails \/ \E l \in Loops : Iterate(l)
    <2>1. act
      BY <1>1 DEF TickOk, TickFails, Iterate, act
    <2> QED BY <2>1, ActWaited DEF IInv
  <1>2. CASE \E m \in LedModes : SetMode(m)
    <2>1. loop_count' = -1 /\ mode_action_index' = 0
      BY <1>2 DEF SetMode, FirstLoopCount
    <2> QED BY <2>1 DEF Waited
  <1>3. CASE Elapse
    BY <1>3, ElapseWaited DEF IInv
  <1>4. CASE \/ Start \/ Stop \/ Break \/ Repair \/ Quiet \/ UNCHANGED vars
             \/ \E l \in Loops : LoopReturns(l) \/ LoopTimer(l) \/ LoopDone(l)
    <2>1. UNCHANGED <<mode, mode_action_index, next_action_time, loop_count,
                      retried, elapsed>>
      BY <1>4 DEF Start, Stop, Break, Repair, Quiet, vars, LoopReturns, LoopTimer,
                  LoopDone, fields, record
    <2> QED BY <2>1 DEF Waited, PlayedTo
  <1> QED BY <1>1, <1>2, <1>3, <1>4 DEF Next

\* For every set of modes, GetLoopCount() >= 1 means that all waits of the
\* mode have been waited for since SetMode, unless its first write failed: the
\* mainloop never ends a LED's dark period early.
THEOREM RoundIsWaited == Spec => []RoundTakesItsTime
  <1>1. Init => Waited
    BY DEF Init, Waited
  <1>2. IInv /\ Waited /\ [Next]_vars => Waited'
    BY WaitedStep
  <1>3. Waited => RoundTakesItsTime
    BY DEF Waited, RoundTakesItsTime
  <1> QED BY <1>1, <1>2, <1>3, Inductive, PTL DEF Spec
=============================================================================
