--------------------------- MODULE LedInterpreter ---------------------------
(***************************************************************************)
(* One LED and its interpreter (core/led/interpreter.go, mode.go, led.go). *)
(*                                                                         *)
(* SetMode, called by the mainloop, the apply goroutine and the IPC        *)
(* handlers, replaces the mode and starts a loop goroutine for it; the     *)
(* loop of the mode before is cancelled, but it may be anywhere between    *)
(* two of its iterations and ends only when it notices.  Everything that   *)
(* touches the interpreter's fields or the device holds `lock`, so that an *)
(* iteration of loop(), SetMode, Start, Stop and Tick are one step each.   *)
(*                                                                         *)
(* Time is kept as what is left of each wait: next_action_time and the     *)
(* timers count down, and a timer that is over may be noticed late.        *)
(***************************************************************************)
EXTENDS Integers, Sequences, FiniteSets

CONSTANTS
    LedModes,     \* the LED modes in use: sequences of actions
    MaxDuration,  \* bound on the duration of a WAIT
    MaxElapsed,   \* bound on the recorded time: a whole round of every mode
    MaxInt,       \* math.MaxInt
    Loops,        \* identities for loop goroutines (bounds how many coexist)
    NoLoop        \* mode_cancel = nil

Actions == [action : {"ON", "OFF", "WAIT"}, duration : 0 .. MaxDuration]

\* The presets of mode.go and the modes daemon.go builds.
On == [action |-> "ON", duration |-> 0]
Off == [action |-> "OFF", duration |-> 0]
Wait(d) == [action |-> "WAIT", duration |-> d]
MODE_PRESET_ON == <<On>>
MODE_PRESET_OFF == <<Off>>

ASSUME ModesAssumption ==
    /\ MaxDuration \in Nat
    /\ LedModes \subseteq Seq(Actions)
    /\ MODE_PRESET_OFF \in LedModes

ASSUME BoundsAssumption ==
    /\ MaxInt \in Nat /\ MaxInt >= 8
    /\ MaxElapsed \in Nat
    /\ Loops # {} /\ NoLoop \notin Loops

\* What the first i actions of a mode wait for, and a whole round of it.  ON
\* and OFF wait for nothing, whatever their duration.
Waits(m) ==
    LET sum[i \in 0 .. Len(m)] ==
            IF i = 0 THEN 0
            ELSE sum[i - 1] + (IF m[i].action = "WAIT" THEN m[i].duration ELSE 0)
    IN  sum
Period(m) == Waits(m)[Len(m)]

ASSUME RecordAssumption == \A m \in LedModes : Period(m) <= MaxElapsed

VARIABLES
    life,              \* how far the daemon has brought this LED
    mode, init, mode_action_index, next_action_time, loop_count,
    running, mode_cancel,
    loops,             \* the loop goroutines
    light, trigger,    \* the device: is it lit, and what drives it
    healthy,           \* do reads and writes of the device succeed?
    quiet,             \* the callers have made their last call
    \* Recorded for the properties: whether the last write failed, whether
    \* the first action of the mode ever did, and the time since SetMode.
    failed, retried, elapsed

fields == <<mode, init, mode_action_index, next_action_time, loop_count>>
device == <<light, trigger>>
env == <<life, healthy, quiet>>
record == <<failed, retried, elapsed>>
vars == <<env, fields, running, mode_cancel, loops, device, record>>

IdleLoop == [pc |-> "none", cancelled |-> FALSE, timer |-> 0]
LiveLoops == {l \in Loops : loops[l].pc # "none" /\ ~loops[l].cancelled}

-----------------------------------------------------------------------------
(* One action of the mode: act, apply_action.                              *)

current_action == mode[mode_action_index + 1]

SkipAction == (mode_action_index + 1) % Len(mode)

\* loop_count, with the code's own guard against overflow.
Counted ==
    LET n == loop_count + (IF mode_action_index = 0 THEN 1 ELSE 0)
    IN IF n >= MaxInt \div 2 THEN MaxInt \div 4 ELSE n

\* act returns at once: nothing to do, nothing left to do, or not yet due.
NotDue ==
    \/ Len(mode) = 0
    \/ Len(mode) = 1 /\ init
    \/ next_action_time > 0

ActNothing ==
    /\ NotDue
    /\ init' = TRUE
    /\ UNCHANGED <<mode, mode_action_index, next_action_time, loop_count,
                   device, record>>

ActWait ==
    /\ ~NotDue
    /\ current_action.action = "WAIT"
    /\ loop_count' = Counted
    /\ next_action_time' = current_action.duration
    /\ mode_action_index' = SkipAction
    /\ init' = TRUE
    /\ UNCHANGED <<mode, device, record>>

\* ON and OFF give the LED to nobody's trigger and write the brightness.
ActWrite ==
    /\ ~NotDue
    /\ current_action.action # "WAIT"
    /\ healthy
    /\ loop_count' = Counted
    /\ trigger' = "none"
    /\ light' = (current_action.action = "ON")
    /\ mode_action_index' = SkipAction
    /\ init' = TRUE
    /\ failed' = FALSE
    /\ UNCHANGED <<mode, next_action_time, retried, elapsed>>

\* A read, a write or the reading back fails: both writes are tried, and each
\* may or may not have reached the device.  The action is not skipped, but it
\* has been counted.
ActFails ==
    /\ ~NotDue
    /\ current_action.action # "WAIT"
    /\ ~healthy
    /\ loop_count' = Counted
    /\ trigger' \in {trigger, "none"}
    /\ light' \in {light, current_action.action = "ON"}
    /\ failed' = TRUE
    /\ retried' = (retried \/ mode_action_index = 0)
    /\ UNCHANGED <<mode, init, mode_action_index, next_action_time, elapsed>>

act == ActNothing \/ ActWait \/ ActWrite \/ ActFails

-----------------------------------------------------------------------------
(* The callers.                                                            *)

\* load_led_interpreters: SetMode (in Init), then one Tick; a LED that cannot
\* be written is left out for good.
TickOk ==
    /\ life = "loading"
    /\ ActNothing \/ ActWait \/ ActWrite
    /\ life' = "loaded"
    /\ UNCHANGED <<running, mode_cancel, loops, healthy, quiet>>

TickFails ==
    /\ life = "loading"
    /\ ActFails
    /\ life' = "broken"
    /\ UNCHANGED <<running, mode_cancel, loops, healthy, quiet>>

Cancelled_missed(ls) == ls
Cancelled(ls) ==
    [l \in Loops |-> IF l = mode_cancel THEN [ls[l] EXCEPT !.cancelled = TRUE]
                                        ELSE ls[l]]

\* start_mode_loop_locked, for a mode_cancel that has been called already.
Started(l, ls) == [ls EXCEPT ![l] = [IdleLoop EXCEPT !.pc = "top"]]

Begun_kept == init
Begun == FALSE

FirstLoopCount_zero == 0
FirstLoopCount == -1

\* The callers start with the mainloop; an apply goroutine may outlive it.
SetMode(m) ==
    /\ life \in {"started", "stopped"} /\ ~quiet
    /\ mode' = m
    /\ init' = Begun
    /\ mode_action_index' = 0
    /\ next_action_time' = 0
    /\ loop_count' = FirstLoopCount
    /\ failed' = FALSE /\ retried' = FALSE /\ elapsed' = 0
    /\ \/ /\ running
          /\ \E l \in Loops :
                /\ loops[l].pc = "none"
                /\ loops' = Started(l, Cancelled(loops))
                /\ mode_cancel' = l
       \/ /\ ~running
          /\ loops' = Cancelled(loops)
          /\ mode_cancel' = NoLoop
    /\ UNCHANGED <<env, running, device>>

\* start_led_interpreters and stop_led_interpreters: once each, by Mainloop.
Start ==
    /\ life = "loaded" /\ ~quiet
    /\ life' = "started"
    /\ ~running
    /\ running' = TRUE
    /\ \E l \in Loops :
          /\ loops[l].pc = "none"
          /\ loops' = Started(l, loops)
          /\ mode_cancel' = l
    /\ UNCHANGED <<healthy, quiet, fields, device, record>>

Stop ==
    /\ life = "started" /\ ~quiet
    /\ life' = "stopped"
    /\ running
    /\ running' = FALSE
    /\ loops' = Cancelled(loops)
    /\ mode_cancel' = NoLoop
    /\ UNCHANGED <<healthy, quiet, fields, device, record>>

-----------------------------------------------------------------------------
(* The loop goroutine.                                                     *)

\* Cancelled or stopped before this iteration took the lock.
LoopReturns(l) ==
    /\ loops[l].pc = "top"
    /\ ~running \/ loops[l].cancelled
    /\ loops' = [loops EXCEPT ![l] = IdleLoop]
    /\ UNCHANGED <<env, fields, running, mode_cancel, device, record>>

Static_always == TRUE
Static ==
    \/ Len(mode) = 0
    \/ Len(mode) = 1 /\ current_action.action # "WAIT"

\* How long loop() waits after the action: it looks at the action that was
\* current before act(), whether or not act() did anything.
LoopWait_none == 0
LoopWait == IF current_action.action = "WAIT" THEN current_action.duration ELSE 0

Iterate(l) ==
    /\ loops[l].pc = "top"
    /\ running /\ ~loops[l].cancelled
    /\ act
    /\ loops' = [loops EXCEPT ![l] =
                    IF Static THEN [@ EXCEPT !.pc = "parked"]
                              ELSE [@ EXCEPT !.pc = "timer", !.timer = LoopWait]]
    /\ UNCHANGED <<env, running, mode_cancel>>

\* The select at the end of an iteration: the timer, or ctx.Done().
LoopTimer(l) ==
    /\ loops[l].pc = "timer" /\ loops[l].timer = 0
    /\ loops' = [loops EXCEPT ![l].pc = "top"]
    /\ UNCHANGED <<env, fields, running, mode_cancel, device, record>>

Done(l) == loops[l].pc \in {"timer", "parked"} /\ loops[l].cancelled

LoopDone(l) ==
    /\ Done(l)
    /\ loops' = [loops EXCEPT ![l] = IdleLoop]
    /\ UNCHANGED <<env, fields, running, mode_cancel, device, record>>

-----------------------------------------------------------------------------
(* The environment.                                                        *)

CountDown(n) == IF n > 0 THEN n - 1 ELSE 0

\* Time passes.
Elapse ==
    /\ next_action_time > 0 \/ \E l \in Loops : loops[l].timer > 0
    /\ next_action_time' = CountDown(next_action_time)
    /\ loops' = [l \in Loops |-> [loops[l] EXCEPT !.timer = CountDown(@)]]
    /\ elapsed' = IF elapsed < MaxElapsed THEN elapsed + 1 ELSE elapsed
    /\ UNCHANGED <<env, mode, init, mode_action_index, loop_count, running,
                   mode_cancel, device, failed, retried>>

\* The device's files stop working, and work again.
Break ==
    /\ healthy /\ ~quiet
    /\ healthy' = FALSE
    /\ UNCHANGED <<life, quiet, fields, running, mode_cancel, loops, device, record>>

Repair ==
    /\ ~healthy
    /\ healthy' = TRUE
    /\ UNCHANGED <<life, quiet, fields, running, mode_cancel, loops, device, record>>

\* The callers have made their last call, and the device breaks no more.
Quiet ==
    /\ ~quiet
    /\ quiet' = TRUE
    /\ UNCHANGED <<life, healthy, fields, running, mode_cancel, loops, device, record>>

-----------------------------------------------------------------------------
Init ==
    /\ life = "loading"
    /\ mode = MODE_PRESET_OFF
    /\ init = FALSE
    /\ mode_action_index = 0
    /\ next_action_time = 0
    /\ loop_count = -1
    /\ running = FALSE
    /\ mode_cancel = NoLoop
    /\ loops = [l \in Loops |-> IdleLoop]
    /\ light \in BOOLEAN
    /\ trigger \in {"none", "other"}
    /\ healthy = TRUE
    /\ quiet = FALSE
    /\ failed = FALSE /\ retried = FALSE /\ elapsed = 0

LoopStep(l) == LoopReturns(l) \/ Iterate(l) \/ LoopTimer(l) \/ LoopDone(l)

Next ==
    \/ TickOk
    \/ TickFails
    \/ \E m \in LedModes : SetMode(m)
    \/ Start
    \/ Stop
    \/ \E l \in Loops : LoopReturns(l)
    \/ \E l \in Loops : Iterate(l)
    \/ \E l \in Loops : LoopTimer(l)
    \/ \E l \in Loops : LoopDone(l)
    \/ Elapse
    \/ Break
    \/ Repair
    \/ Quiet

Spec == Init /\ [][Next]_vars

\* Go schedules every goroutine that can run and timers expire.  That a
\* failing device works again is the one assumption about the hardware.
FairSpec ==
    /\ Spec
    /\ \A l \in Loops : WF_vars(LoopStep(l))
    /\ WF_vars(Elapse)
    /\ WF_vars(Repair)

-----------------------------------------------------------------------------
(* Properties.                                                             *)

TypeOK ==
    /\ life \in {"loading", "broken", "loaded", "started", "stopped"}
    /\ mode \in LedModes
    /\ init \in BOOLEAN
    /\ mode_action_index \in Nat
    /\ mode_action_index < Len(mode) \/ mode_action_index = 0
    /\ next_action_time \in 0 .. MaxDuration
    /\ loop_count \in -1 .. MaxInt \div 2 - 1
    /\ running \in BOOLEAN
    /\ mode_cancel \in Loops \cup {NoLoop}
    /\ loops \in [Loops -> [pc : {"none", "top", "timer", "parked"},
                            cancelled : BOOLEAN, timer : 0 .. MaxDuration]]
    /\ light \in BOOLEAN
    /\ trigger \in {"none", "other"}
    /\ healthy \in BOOLEAN /\ quiet \in BOOLEAN
    /\ failed \in BOOLEAN /\ retried \in BOOLEAN
    /\ elapsed \in 0 .. MaxElapsed

\* However SetMode, Start and Stop interleave with loops that have not yet
\* noticed their cancellation, exactly one goroutine plays a running LED's
\* mode, the one mode_cancel ends, and none plays a stopped one's.
OneLoop == LiveLoops = IF running THEN {mode_cancel} ELSE {}

\* The positions of the current mode whose actions were the last to be done.
Played == IF mode_action_index = 0 THEN DOMAIN mode ELSE 1 .. mode_action_index
Written == {i \in Played : mode[i].action # "WAIT"}

\* A LED that has begun its mode shows the last ON or OFF of this mode that
\* was played, never one of the mode that SetMode replaced, unless that very
\* write failed: a mode is not taken for begun before it has been written.
LedFollowsMode ==
    init /\ ~failed =>
        \A i \in Written : (\A j \in Written : j <= i) =>
            trigger = "none" /\ light = (mode[i].action = "ON")

\* An iteration of the playing loop always finds its action due: its timer
\* and next_action_time never disagree so that act() declines and the loop
\* goes round without waiting.
NeverSpins ==
    \A l \in LiveLoops : next_action_time <= loops[l].timer

\* GetLoopCount() >= 1, by which the mainloop tells that the LED's dark period
\* is over, means that every wait of the mode has been waited for, unless its
\* first write failed and was tried again.
RoundTakesItsTime ==
    loop_count >= 1 /\ ~retried => elapsed >= Period(mode)

\* A mode that alternates keeps doing so; a mode that only shows something
\* shows it in the end, if the device works when SetMode is called and after.
Alternates(m) ==
    \A a \in {"ON", "OFF"} : \E i \in DOMAIN m : m[i].action = a

LastModeShown ==
    /\ (quiet /\ running /\ Alternates(mode)) ~> light
    /\ (quiet /\ running /\ Alternates(mode)) ~> ~light
    /\ (quiet /\ healthy /\ running /\ mode = MODE_PRESET_ON /\ ~failed) ~> light
    /\ (quiet /\ healthy /\ running /\ mode = MODE_PRESET_OFF /\ ~failed) ~> ~light
=============================================================================
