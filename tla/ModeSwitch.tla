----------------------------- MODULE ModeSwitch -----------------------------
(***************************************************************************)
(* The mode-switching core of the daemon (core/daemon/daemon.go).          *)
(*                                                                         *)
(* Three kinds of goroutine share the fields of Daemon without a lock: the *)
(* mainloop, which turns button events and IPC requests into a selected    *)
(* mode and submode; the apply goroutines (apply_function, finish_apply),  *)
(* which rebuild the USB gadget and, when that fails, roll back to the     *)
(* last good configuration; and led_init_indication, which plays the       *)
(* power-on LED sequence beside the first apply.  mode_changing is the     *)
(* only thing that keeps two applies apart.                                *)
(*                                                                         *)
(* One step is the code between two points at which another goroutine can  *)
(* make a difference: a channel operation, a controller call, or a re-read *)
(* of shared fields.  A LED call and the reads that choose its argument    *)
(* are one step.  Button events arrive here as DrainEvents returns them;   *)
(* module InputDevice models how presses become events.                    *)
(***************************************************************************)
EXTENDS Integers, Sequences, FiniteSets

CONSTANTS
    N,            \* number of configured modes (--gadget entries)
    Kind,         \* Kind[m]: the gadget type of mode m
    MaxSubmode,   \* MaxSubmode[m]: highest submode of mode m
    InitSubmode,  \* InitSubmode[m]: submode configured at start (name.N)
    Leds,         \* the LED slots whose interpreter initialised
    NLeds,        \* number of configured LED slots
    Workers,      \* identities for apply goroutines (bounds how many coexist)
    ReqCap,       \* capacity of gadget_req_chan
    MaxInputs,    \* bound on the button events and IPC calls of a behaviour
    Buttons,      \* the button events that occur
    ReqSubmodes,  \* submodes an IPC gadget request may ask for
    LedCommands,  \* the `ipc led` commands that occur: TRUE is `led off`
    ShutdownOn,   \* shutdown_threshold > 0
    EarlyInput    \* may input arrive before the boot apply has started?

Modes == 0 .. N - 1
Kinds == {"rndis", "adb"}
LedModes == {"off", "on", "slow", "blink", "entry", "entry_over"}
ButtonEvents == {"TAP", "LONG_TAP", "MULTIPLE_TAP"}
None == -1     \* no gadget, no function, no network configuration
Targets == [mode : Modes, submode : Nat]
Requests == [name : Kinds, submode : ReqSubmodes]

ASSUME ModesAssumption ==
    /\ N \in Nat \ {0}
    /\ Kind \in [Modes -> Kinds]
    /\ MaxSubmode \in [Modes -> Nat]
    /\ InitSubmode \in [Modes -> Nat]
    /\ \A m \in Modes : InitSubmode[m] <= MaxSubmode[m]

ASSUME LedsAssumption == NLeds \in Nat /\ Leds \subseteq 0 .. NLeds - 1

ASSUME BoundsAssumption ==
    /\ Workers # {}
    /\ ReqCap \in Nat \ {0}
    /\ MaxInputs \in Nat
    /\ Buttons \subseteq ButtonEvents
    /\ ReqSubmodes \subseteq Nat
    /\ LedCommands \subseteq BOOLEAN
    /\ ShutdownOn \in BOOLEAN
    /\ EarlyInput \in BOOLEAN

VARIABLES
    \* What is selected, and what the mainloop still has to do about it.
    current_mode, submode, mode_changed, submode_changed, reapply,
    submode_selection, submode_entry_done,
    \* The apply protocol.
    mode_changing, first_apply, rebind_chan, pending_enable, enable_due,
    pending_apply, last_good, apply_error, workers,
    \* Has input come between the two reads of some snapshot so far?  (Not in
    \* the code.)
    torn,
    \* The controller: the mode whose gadget is built in configfs, whether it
    \* is bound to the UDC, and the submode its network is configured for.
    ctl,
    \* LEDs and the start-up coordination.
    led, turn_off_leds, apply_done, led_init_done, led_init, led_init_i,
    \* The mainloop and what wakes it.
    mainloop, batch, shutting_down,
    event_queue, input_wake, wake_chan, gadget_req_chan, held, stopped,
    \* Number of inputs so far (bounded by MaxInputs).
    inputs

selected == <<current_mode, submode>>
flags == <<mode_changed, submode_changed, reapply, submode_selection,
           submode_entry_done>>
lock == <<mode_changing, first_apply>>
rebind == <<rebind_chan, pending_enable, enable_due, pending_apply>>
outcome == <<last_good, apply_error, torn>>
startup == <<apply_done, led_init_done, led_init, led_init_i>>
loop == <<mainloop, batch, shutting_down>>
channels == <<event_queue, input_wake, wake_chan, gadget_req_chan, held,
              stopped, inputs>>
vars == <<selected, flags, lock, rebind, outcome, workers, ctl, led,
          turn_off_leds, startup, loop, channels>>

-----------------------------------------------------------------------------
(* LEDs.  A LED slot without a working interpreter is skipped.             *)

\* current_interpreter().SetMode(m): no effect when there is no interpreter.
SetLed(i, m) == [j \in Leds |-> IF j = i THEN m ELSE led[j]]

\* Mutant: turn_off_all_leds reaches no LED.
turn_off_all_leds_missed == led

turn_off_all_leds == [j \in Leds |-> "off"]

\* LED_SUBMODE_MODES[submode % 2]: steady on, or slow blinking.
submode_led_mode == IF submode[current_mode] % 2 = 0 THEN "on" ELSE "slow"

\* The LEDs after display_mode_state, given apply_error.
display_mode_state(error) ==
    IF error THEN turn_off_all_leds
    ELSE SetLed(current_mode, IF turn_off_leds THEN "off" ELSE submode_led_mode)

\* GetLoopCount() >= 1 is possible only in a mode with more than one action:
\* MODE_PRESET_ON and MODE_PRESET_OFF stay at loop 0, submode_entry_mode gets
\* there after its dark period (EntryElapse), the blinking modes soon.
MayHaveLooped(i) == i \in Leds /\ led[i] \in {"slow", "blink", "entry_over"}

-----------------------------------------------------------------------------
(* Apply goroutines.                                                       *)

IdleWorker == [pc |-> "idle", job |-> "mode",
               target |-> [mode |-> 0, submode |-> 0], fn |-> 0]

Busy == {w \in Workers : workers[w].pc # "idle"}

\* Where apply_function is before it sets mode_changing.
Snapshotting == {"apply", "apply_mode", "apply_submode", "apply_flag", "apply_clear"}

\* The boot apply runs before mode_changing is set: Mainloop starts it
\* directly, unlike handle_events, which sets the flag before its `go`.
BootPending == \E w \in Workers : workers[w].pc \in Snapshotting /\ ~mode_changing

Running == mainloop # "exited"

\* A new goroutine in a free slot, about to execute from label pc.
Spawn(pc) ==
    \E w \in Workers :
        /\ workers[w].pc = "idle"
        /\ workers' = [workers EXCEPT ![w] = [IdleWorker EXCEPT !.pc = pc]]

\* Mutant: an early return that does not set apply_failed.
Failed_unreported(w) == "idle"

\* Where a goroutine goes after an error: apply_failed is set and the deferred
\* handler runs; in a rollback, the rollback has failed.
Failed(w) == IF workers[w].job = "rollback" THEN "give_up" ELSE "fail"

Goto(w, pc) == workers' = [workers EXCEPT ![w].pc = pc]

\* apply_function reads current_mode into its target.  Go leaves open whether
\* this comes before or after the submode, which is read through current_mode
\* once more; input between the two reads tears the snapshot: the submode is
\* then that of another mode.  fn remembers the mode that the first read saw.
SnapshotMode(w) ==
    /\ Running
    /\ workers[w].pc \in {"apply", "apply_mode"}
    /\ workers' = [workers EXCEPT ![w] =
            [pc |-> IF workers[w].pc = "apply" THEN "apply_submode" ELSE "apply_flag",
             job |-> "mode",
             target |-> [mode |-> current_mode, submode |-> workers[w].target.submode],
             fn |-> current_mode]]
    /\ torn' = (torn \/ (workers[w].pc = "apply_mode" /\ workers[w].fn # current_mode))
    /\ UNCHANGED <<selected, flags, lock, rebind, last_good, apply_error, ctl,
                   led, turn_off_leds, startup, loop, channels>>

\* ... and the submode of the mode that is current at that moment.
SnapshotSubmode(w) ==
    /\ Running
    /\ workers[w].pc \in {"apply", "apply_submode"}
    /\ workers' = [workers EXCEPT ![w] =
            [pc |-> IF workers[w].pc = "apply" THEN "apply_mode" ELSE "apply_flag",
             job |-> "mode",
             target |-> [mode |-> workers[w].target.mode, submode |-> submode[current_mode]],
             fn |-> IF workers[w].pc = "apply" THEN current_mode ELSE workers[w].fn]]
    /\ torn' = (torn \/ (workers[w].pc = "apply_submode" /\ workers[w].fn # current_mode))
    /\ UNCHANGED <<selected, flags, lock, rebind, last_good, apply_error, ctl,
                   led, turn_off_leds, startup, loop, channels>>

\* It decides between reconfiguring the network and rebuilding ...
SnapshotFlag(w) ==
    /\ Running
    /\ workers[w].pc = "apply_flag"
    /\ workers' = [workers EXCEPT ![w] =
            [workers[w] EXCEPT !.pc = "apply_clear",
                               !.job = IF submode_changed THEN "submode" ELSE "mode"]]
    /\ UNCHANGED <<selected, flags, lock, rebind, outcome, ctl, led,
                   turn_off_leds, startup, loop, channels>>

\* ... then clears submode_changed, also when a tap has set it since the read,
\* and sets mode_changing.
ClearFlag(w) ==
    /\ Running
    /\ workers[w].pc = "apply_clear"
    /\ Goto(w, "effect_led")
    /\ submode_changed' = FALSE
    /\ mode_changing' = TRUE
    /\ UNCHANGED <<selected, mode_changed, reapply, submode_selection,
                   submode_entry_done, first_apply, rebind, outcome, ctl, led,
                   turn_off_leds, startup, loop, channels>>

\* apply_function up to `mode_changing = true`: reads that no lock holds
\* together, beside the mainloop.
apply_function(w) ==
    SnapshotMode(w) \/ SnapshotSubmode(w) \/ SnapshotFlag(w) \/ ClearFlag(w)

\* The LED shown while a submode switch runs: off.
EffectLedSubmode(w) ==
    /\ Running
    /\ workers[w].pc = "effect_led" /\ workers[w].job = "submode"
    /\ Goto(w, "configure")
    /\ led' = SetLed(current_mode, "off")
    /\ UNCHANGED <<selected, flags, lock, rebind, outcome, ctl, turn_off_leds,
                   startup, loop, channels>>

\* The LED shown while a rebuild runs: untouched at boot, off in submode
\* selection, fast blinking otherwise.  reapply and first_apply are consumed.
EffectLedMode(w) ==
    /\ Running
    /\ workers[w].pc = "effect_led" /\ workers[w].job = "mode"
    /\ Goto(w, "rebuild")
    /\ reapply' = FALSE
    /\ first_apply' = FALSE
    /\ led' = IF first_apply THEN led
              ELSE SetLed(current_mode,
                          IF submode_selection /\ ~reapply THEN "off" ELSE "blink")
    /\ UNCHANGED <<selected, mode_changed, submode_changed, submode_selection,
                   submode_entry_done, mode_changing, rebind, outcome, ctl,
                   turn_off_leds, startup, loop, channels>>

\* ClearFunctions, AddFunction and ApplyFunctions succeed: the old gadget is
\* gone, the new one exists but is not bound.  A first attempt records
\* pending_apply and goes on to hand over to the mainloop; a rollback sleeps
\* rebind_delay and goes on by itself.
RebuildOk(w) ==
    /\ Running
    /\ workers[w].pc = "rebuild"
    /\ ctl' = [built |-> workers[w].fn, bound |-> FALSE, net |-> None]
    /\ IF workers[w].job = "rollback"
       THEN /\ Goto(w, "enable")
            /\ UNCHANGED pending_apply
       ELSE /\ Goto(w, "handoff")
            /\ pending_apply' = workers[w].target
    /\ UNCHANGED <<selected, flags, lock, rebind_chan, pending_enable,
                   enable_due, outcome, led, turn_off_leds, startup, loop,
                   channels>>

\* ApplyFunctions fails: CleanAll disabled the old gadget but could not remove
\* it, or the gadget was removed and a later step (create, add, effect) failed.
RebuildFail(w) ==
    /\ Running
    /\ workers[w].pc = "rebuild"
    /\ \E left \in {ctl.built, None} :
           ctl' = [built |-> left, bound |-> FALSE, net |-> None]
    /\ Goto(w, Failed(w))
    /\ UNCHANGED <<selected, flags, lock, rebind, outcome, led, turn_off_leds,
                   startup, loop, channels>>

\* The end of phase one: send the rebind deadline to the mainloop.
Handoff(w) ==
    /\ Running
    /\ workers[w].pc = "handoff"
    /\ ~rebind_chan
    /\ rebind_chan' = TRUE
    /\ workers' = [workers EXCEPT ![w] = IdleWorker]
    /\ UNCHANGED <<selected, flags, lock, pending_enable, enable_due,
                   pending_apply, outcome, ctl, led, turn_off_leds, startup,
                   loop, channels>>

\* ... or give up because the daemon is stopping.
HandoffStopped(w) ==
    /\ Running
    /\ workers[w].pc = "handoff"
    /\ stopped
    /\ workers' = [workers EXCEPT ![w] = IdleWorker]
    /\ UNCHANGED <<selected, flags, lock, rebind, outcome, ctl, led,
                   turn_off_leds, startup, loop, channels>>

\* Controller.Enable binds the UDC of the gadget that the last rebuild left
\* (an error if there is none); the function of that gadget is enabled next.
\* finish_apply takes its target from pending_apply.
Enable(w) ==
    /\ Running
    /\ workers[w].pc = "enable"
    /\ \E ok \in BOOLEAN :
           /\ ok => ctl.built # None
           /\ ctl' = [ctl EXCEPT !.bound = ok]
           /\ workers' = [workers EXCEPT ![w] =
                [pc |-> IF ok THEN "configure" ELSE Failed(w),
                 job |-> workers[w].job,
                 target |-> IF workers[w].job = "rollback" THEN workers[w].target
                            ELSE pending_apply,
                 fn |-> IF ok THEN ctl.built ELSE workers[w].fn]]
    /\ UNCHANGED <<selected, flags, lock, rebind, outcome, led, turn_off_leds,
                   startup, loop, channels>>

\* Where a goroutine goes when function.enable() returned without an error.
Configured(w) == Goto(w, IF workers[w].job = "rollback" THEN "rolled_back" ELSE "commit")

\* Mutant: enable() does not wait for its interface.
InterfaceUp_assumed == TRUE

\* An RNDIS network interface exists only while an RNDIS gadget is bound.
InterfaceUp == ctl.bound /\ ctl.built \in Modes /\ Kind[ctl.built] = "rndis"

\* enable() of ADB is the base class's no-op.
ConfigureAdb(w) ==
    /\ Running
    /\ workers[w].pc = "configure" /\ Kind[workers[w].fn] = "adb"
    /\ Configured(w)
    /\ UNCHANGED <<selected, flags, lock, rebind, outcome, ctl, led,
                   turn_off_leds, startup, loop, channels>>

\* enable() of RNDIS finds its interface and dispatches on the submode it has
\* at that moment: 0 sets up the gateway, 1 starts probing for an upstream.
ConfigureRndis(w) ==
    /\ Running
    /\ workers[w].pc = "configure" /\ Kind[workers[w].fn] = "rndis"
    /\ InterfaceUp
    /\ \/ /\ submode[workers[w].fn] = 0
          /\ Configured(w)
          /\ ctl' = [ctl EXCEPT !.net = 0]
       \/ /\ submode[workers[w].fn] = 1
          /\ Goto(w, "probe")
          /\ ctl' = [ctl EXCEPT !.net = None]
    /\ UNCHANGED <<selected, flags, lock, rebind, outcome, led, turn_off_leds,
                   startup, loop, channels>>

\* enable() of RNDIS fails: no interface within five seconds, or a submode
\* that enable() does not know.
ConfigureFail(w) ==
    /\ Running
    /\ workers[w].pc = "configure" /\ Kind[workers[w].fn] = "rndis"
    /\ Goto(w, Failed(w))
    /\ UNCHANGED <<selected, flags, lock, rebind, outcome, ctl, led,
                   turn_off_leds, startup, loop, channels>>

\* enable_client_mode: a DHCP lease or an ICS gateway was found ...
ProbeOk(w) ==
    /\ Running
    /\ workers[w].pc = "probe"
    /\ Configured(w)
    /\ ctl' = [ctl EXCEPT !.net = 1]
    /\ UNCHANGED <<selected, flags, lock, rebind, outcome, led, turn_off_leds,
                   startup, loop, channels>>

\* ... or neither was: fallback_to_gateway_mode sets the submode to 0, from
\* this goroutine, and runs the gateway configuration, still without an error.
fallback_to_gateway_mode(w) ==
    /\ Running
    /\ workers[w].pc = "probe"
    /\ Configured(w)
    /\ submode' = [submode EXCEPT ![workers[w].fn] = 0]
    /\ ctl' = [ctl EXCEPT !.net = 0]
    /\ UNCHANGED <<current_mode, flags, lock, rebind, outcome, led,
                   turn_off_leds, startup, loop, channels>>

\* Mutant: recording what is selected now.
CommitTarget_reread(w) == [mode |-> current_mode, submode |-> submode[current_mode]]

\* What commit_mode records: the snapshot that apply_function took.
CommitTarget(w) == workers[w].target

\* commit_mode; phase two also announces apply_done.
commit_mode(w) ==
    /\ Running
    /\ workers[w].pc = "commit"
    /\ Goto(w, "display")
    /\ last_good' = CommitTarget(w)
    /\ apply_error' = FALSE
    /\ apply_done' = (apply_done \/ workers[w].job = "mode")
    /\ UNCHANGED <<selected, flags, lock, rebind, torn, ctl, led, turn_off_leds,
                   led_init_done, led_init, led_init_i, loop, channels>>

\* The end of a successful apply: show the state and release mode_changing.
\* Phase two leaves the LEDs to led_init_indication while that still runs.
FinishApply(w) ==
    /\ Running
    /\ workers[w].pc = "display"
    /\ workers' = [workers EXCEPT ![w] = IdleWorker]
    /\ mode_changing' = FALSE
    /\ led' = IF workers[w].job = "submode" THEN display_mode_state(FALSE)
              ELSE IF led_init_done THEN display_mode_state(apply_error)
              ELSE led
    /\ UNCHANGED <<selected, flags, first_apply, rebind, outcome, ctl,
                   turn_off_leds, startup, loop, channels>>

\* A single gadget, or the last good configuration itself, has no rollback.
should_rollback(failed) == N > 1 /\ failed # last_good

\* Mutant: a rollback that forgets set_current_mode.
RollbackMode_unset == current_mode

\* The mode that rollback_mode and rollback_submode select again.
RollbackMode == last_good.mode

\* handle_apply_failure up to the controller calls of rollback_mode or
\* rollback_submode, which first select the last good mode and submode again.
handle_apply_failure(w) ==
    /\ Running
    /\ workers[w].pc = "fail"
    /\ apply_done' = TRUE
    /\ led' = turn_off_all_leds
    /\ IF should_rollback(workers[w].target)
       THEN /\ current_mode' = RollbackMode
            /\ submode' = [submode EXCEPT ![last_good.mode] = last_good.submode]
            /\ workers' = [workers EXCEPT ![w] =
                    [pc |-> IF workers[w].job = "submode" THEN "configure" ELSE "rebuild",
                     job |-> "rollback", target |-> last_good, fn |-> last_good.mode]]
       ELSE /\ Goto(w, "give_up")
            /\ UNCHANGED <<selected>>
    /\ UNCHANGED <<flags, lock, rebind, outcome, ctl, turn_off_leds,
                   led_init_done, led_init, led_init_i, loop, channels>>

\* The end of handle_apply_failure: record whether there is an error, restore
\* the last good submode if so, show the state, release mode_changing.
EndFailure(w) ==
    /\ Running
    /\ workers[w].pc \in {"rolled_back", "give_up"}
    /\ workers' = [workers EXCEPT ![w] = IdleWorker]
    /\ mode_changing' = FALSE
    /\ apply_error' = (workers[w].pc = "give_up")
    /\ submode' = IF workers[w].pc = "give_up"
                  THEN [submode EXCEPT ![last_good.mode] = last_good.submode]
                  ELSE submode
    /\ led' = IF led_init_done THEN display_mode_state(workers[w].pc = "give_up")
              ELSE led
    /\ UNCHANGED <<current_mode, flags, first_apply, rebind, last_good, torn, ctl,
                   turn_off_leds, startup, loop, channels>>

ApplyStep(w) ==
    \/ apply_function(w) \/ EffectLedSubmode(w) \/ EffectLedMode(w)
    \/ RebuildOk(w) \/ RebuildFail(w) \/ Handoff(w) \/ HandoffStopped(w)
    \/ Enable(w) \/ ConfigureAdb(w) \/ ConfigureRndis(w) \/ ConfigureFail(w)
    \/ ProbeOk(w) \/ fallback_to_gateway_mode(w)
    \/ commit_mode(w) \/ FinishApply(w)
    \/ handle_apply_failure(w) \/ EndFailure(w)

-----------------------------------------------------------------------------
(* The power-on LED indication, a goroutine of its own.                    *)

InitBegin ==
    /\ Running
    /\ led_init = "begin"
    /\ led' = turn_off_all_leds
    /\ led_init' = "next"
    /\ UNCHANGED <<selected, flags, lock, rebind, outcome, workers, ctl,
                   turn_off_leds, apply_done, led_init_done, led_init_i, loop,
                   channels>>

\* Light the next working LED; an unrecoverable apply error ends the sequence.
InitLight ==
    /\ Running
    /\ led_init = "next" /\ ~apply_error /\ led_init_i < NLeds
    /\ IF led_init_i \in Leds
       THEN led' = SetLed(led_init_i, "on") /\ led_init' = "lit" /\ UNCHANGED led_init_i
       ELSE led_init_i' = led_init_i + 1 /\ UNCHANGED <<led, led_init>>
    /\ UNCHANGED <<selected, flags, lock, rebind, outcome, workers, ctl,
                   turn_off_leds, apply_done, led_init_done, loop, channels>>

InitDim ==
    /\ Running
    /\ led_init = "lit"
    /\ led' = SetLed(led_init_i, "off")
    /\ led_init' = "next"
    /\ led_init_i' = led_init_i + 1
    /\ UNCHANGED <<selected, flags, lock, rebind, outcome, workers, ctl,
                   turn_off_leds, apply_done, led_init_done, loop, channels>>

InitDone ==
    /\ Running
    /\ led_init = "next" /\ (apply_error \/ led_init_i >= NLeds)
    /\ led_init_done' = TRUE
    /\ led_init' = "display"
    /\ UNCHANGED <<selected, flags, lock, rebind, outcome, workers, ctl, led,
                   turn_off_leds, apply_done, led_init_i, loop, channels>>

\* Whoever of this goroutine and the first apply ends last shows the mode.
InitDisplay ==
    /\ Running
    /\ led_init = "display"
    /\ led_init' = "done"
    /\ led' = IF apply_done THEN display_mode_state(apply_error) ELSE led
    /\ UNCHANGED <<selected, flags, lock, rebind, outcome, workers, ctl,
                   turn_off_leds, apply_done, led_init_done, led_init_i, loop,
                   channels>>

led_init_indication ==
    InitBegin \/ InitLight \/ InitDim \/ InitDone \/ InitDisplay

-----------------------------------------------------------------------------
(* The mainloop.                                                           *)

\* The button has been held for shutdown_threshold (input_device.State()).
ShutdownDue == ShutdownOn /\ held

\* Mutant: the deadline is never noticed.
RebindDue_never(pending) == FALSE

\* The rebind deadline has passed.
RebindDue(pending) == pending /\ enable_due

\* handle_events up to DrainEvents: start phase two when the rebind deadline has
\* passed, check for a shutdown press, take the queued button events.  pending is
\* pending_enable after the wake-up.  The status that `ipc status` shows, which
\* nothing else reads, is left out.
handle_events(pending) ==
    /\ IF RebindDue(pending)
       THEN /\ Spawn("enable")
            /\ pending_enable' = FALSE
            /\ enable_due' = FALSE
       ELSE /\ pending_enable' = pending
            /\ UNCHANGED <<workers, enable_due>>
    /\ IF ShutdownDue
       THEN /\ shutting_down' = TRUE
            /\ mainloop' = "shutdown"
            /\ UNCHANGED <<batch, event_queue>>
       ELSE /\ mainloop' = "handle"
            /\ batch' = event_queue
            /\ event_queue' = <<>>
            /\ UNCHANGED shutting_down
    /\ UNCHANGED <<selected, flags, lock, pending_apply, outcome, ctl, led,
                   turn_off_leds, startup, gadget_req_chan, held,
                   stopped, inputs>>

\* The select of Mainloop: any ready channel may be taken.
WakeInput ==
    /\ mainloop = "select" /\ input_wake
    /\ input_wake' = FALSE
    /\ handle_events(pending_enable)
    /\ UNCHANGED <<wake_chan, rebind_chan>>

WakeIpc ==
    /\ mainloop = "select" /\ wake_chan
    /\ wake_chan' = FALSE
    /\ handle_events(pending_enable)
    /\ UNCHANGED <<input_wake, rebind_chan>>

WakeRebind ==
    /\ mainloop = "select" /\ rebind_chan
    /\ rebind_chan' = FALSE
    /\ handle_events(TRUE)
    /\ UNCHANGED <<input_wake, wake_chan>>

\* The lazy timer is armed for the rebind deadline and the shutdown deadline.
WakeTimer ==
    /\ mainloop = "select"
    /\ RebindDue(pending_enable) \/ ShutdownDue
    /\ handle_events(pending_enable)
    /\ UNCHANGED <<input_wake, wake_chan, rebind_chan>>

\* Mutant: a stop waits for the running apply.
StopReady_idle == stopped /\ ~mode_changing

StopReady == stopped

WakeStop ==
    /\ mainloop = "select" /\ StopReady
    /\ mainloop' = "leaving"
    /\ UNCHANGED <<selected, flags, lock, rebind, outcome, workers, ctl, led,
                   turn_off_leds, startup, batch,
                   shutting_down, channels>>

\* One button event of the batch; what all of them leave alone.
NextEvent(e) ==
    /\ mainloop = "handle" /\ batch # <<>> /\ Head(batch) = e
    /\ batch' = Tail(batch)
    /\ UNCHANGED <<lock, rebind, outcome, workers, ctl, turn_off_leds, startup,
                   mainloop, shutting_down, channels>>

NextSubmode == (submode[current_mode] + 1) % (MaxSubmode[current_mode] + 1)

NextMode == (current_mode + 1) % N

\* A tap in submode selection steps the submode, modulo the number it has.
TapSubmode ==
    /\ NextEvent("TAP") /\ submode_selection
    /\ submode' = [submode EXCEPT ![current_mode] = NextSubmode]
    /\ mode_changed' = TRUE
    /\ submode_changed' = TRUE
    /\ UNCHANGED <<current_mode, reapply, submode_selection, submode_entry_done,
                   led>>

\* Any other tap selects the next mode.
TapMode ==
    /\ NextEvent("TAP") /\ ~submode_selection
    /\ current_mode' = NextMode
    /\ mode_changed' = TRUE
    /\ submode_changed' = FALSE
    /\ UNCHANGED <<submode, reapply, submode_selection, submode_entry_done, led>>

\* A long tap enters or leaves submode selection; the LED goes dark for a while.
LongTap ==
    /\ NextEvent("LONG_TAP")
    /\ submode_selection' = ~submode_selection
    /\ submode_entry_done' = FALSE
    /\ led' = SetLed(current_mode, "entry")
    /\ UNCHANGED <<selected, mode_changed, submode_changed, reapply>>

\* A multiple tap asks for a full rebuild of the current mode.
MultipleTap ==
    /\ NextEvent("MULTIPLE_TAP")
    /\ reapply' = TRUE
    /\ mode_changed' = TRUE
    /\ submode_changed' = FALSE
    /\ UNCHANGED <<selected, submode_selection, submode_entry_done, led>>

\* The modes a gadget request can mean: only the first one of its name.
Named(name) == {m \in Modes : Kind[m] = name /\ \A k \in 0 .. m - 1 : Kind[k] # name}

\* handle_gadget_requests takes requests until the channel is empty.
NextRequest(r) ==
    /\ mainloop = "handle" /\ batch = <<>>
    /\ gadget_req_chan # <<>> /\ r = Head(gadget_req_chan)
    /\ gadget_req_chan' = Tail(gadget_req_chan)
    /\ UNCHANGED <<reapply, submode_selection, submode_entry_done, lock, rebind,
                   outcome, workers, ctl, led, turn_off_leds, startup, loop,
                   event_queue, input_wake, wake_chan, held, stopped, inputs>>

\* A mutation: the check against MaxSubmode is lost.
RequestMode_unchecked ==
    \E r \in Requests : \E m \in Named(r.name) :
        /\ NextRequest(r)
        /\ m # current_mode
        /\ current_mode' = m
        /\ submode' = [submode EXCEPT ![m] = r.submode]
        /\ mode_changed' = TRUE
        /\ submode_changed' = FALSE

\* An IPC request for another mode: a rebuild.
RequestMode ==
    \E r \in Requests : \E m \in Named(r.name) :
        /\ NextRequest(r)
        /\ r.submode <= MaxSubmode[m] /\ m # current_mode
        /\ current_mode' = m
        /\ submode' = [submode EXCEPT ![m] = r.submode]
        /\ mode_changed' = TRUE
        /\ submode_changed' = FALSE

\* An IPC request for another submode of the current mode: a reconfiguration.
RequestSubmode ==
    \E r \in Requests : \E m \in Named(r.name) :
        /\ NextRequest(r)
        /\ r.submode <= MaxSubmode[m] /\ m = current_mode /\ r.submode # submode[m]
        /\ submode' = [submode EXCEPT ![m] = r.submode]
        /\ mode_changed' = TRUE
        /\ submode_changed' = TRUE
        /\ UNCHANGED current_mode

\* An unknown gadget, an unknown submode, or what is selected already.
RequestNothing ==
    \E r \in Requests :
        /\ NextRequest(r)
        /\ \A m \in Named(r.name) :
               r.submode > MaxSubmode[m] \/ (m = current_mode /\ r.submode = submode[m])
        /\ UNCHANGED <<selected, mode_changed, submode_changed>>

\* The events and requests are handled.
EventsHandled == mainloop = "handle" /\ batch = <<>> /\ gadget_req_chan = <<>>

\* The dark period of a long tap may be over, as far as the current LED's loop
\* count tells; the check runs only when something else woke the mainloop.
EntryOver(over) ==
    /\ over => ~submode_entry_done /\ MayHaveLooped(current_mode)
    /\ submode_entry_done' = (submode_entry_done \/ over)

\* Mutant: an apply is started without asking whether one is running.
ApplyDue_unlocked == mode_changed

\* A change waits and no apply is running.
ApplyDue == mode_changed /\ ~mode_changing

\* handle_events starts an apply: take the lock, all LEDs off, `go apply_function`.
StartApply ==
    /\ EventsHandled
    /\ ApplyDue
    /\ \E over \in BOOLEAN : EntryOver(over)
    /\ mode_changed' = FALSE
    /\ mode_changing' = TRUE
    /\ led' = turn_off_all_leds
    /\ Spawn("apply")
    /\ mainloop' = "select"
    /\ UNCHANGED <<selected, submode_changed, reapply, submode_selection,
                   first_apply, rebind, outcome, ctl, turn_off_leds, startup,
                   batch, shutting_down, channels>>

\* Nothing to apply, or an apply is still running: back to the select.
ReturnToSelect ==
    /\ EventsHandled
    /\ ~ApplyDue
    /\ \E over \in BOOLEAN :
           /\ EntryOver(over)
           /\ led' = IF over THEN SetLed(current_mode, submode_led_mode) ELSE led
    /\ mainloop' = "select"
    /\ UNCHANGED <<selected, mode_changed, submode_changed, reapply,
                   submode_selection, lock, rebind, outcome, workers, ctl,
                   turn_off_leds, startup, batch,
                   shutting_down, channels>>

\* do_shutdown: play the LEDs down to the first one, run the command, wait for
\* it or for shutdown_timeout.
do_shutdown ==
    /\ mainloop = "shutdown"
    /\ mainloop' = "leaving"
    /\ led' = [j \in Leds |-> IF \A k \in Leds : j <= k THEN "on" ELSE "off"]
    /\ UNCHANGED <<selected, flags, lock, rebind, outcome, workers, ctl,
                   turn_off_leds, startup, batch,
                   shutting_down, channels>>

\* Mainloop returns, its deferred clean-up runs, and the process ends.
Exit ==
    /\ mainloop = "leaving"
    /\ mainloop' = "exited"
    /\ UNCHANGED <<selected, flags, lock, rebind, outcome, workers, ctl, led,
                   turn_off_leds, startup, batch,
                   shutting_down, channels>>

MainloopStep ==
    \/ WakeInput \/ WakeIpc \/ WakeRebind \/ WakeTimer \/ WakeStop
    \/ TapSubmode \/ TapMode \/ LongTap \/ MultipleTap
    \/ RequestMode \/ RequestSubmode \/ RequestNothing
    \/ StartApply \/ ReturnToSelect \/ do_shutdown \/ Exit

-----------------------------------------------------------------------------
(* The environment: the button, IPC clients, signals and the clock.        *)

\* EarlyInput = FALSE assumes that the boot apply is scheduled before anything
\* reaches the mainloop.
MayArrive == Running /\ inputs < MaxInputs /\ (EarlyInput \/ ~BootPending)

Button(e) ==
    /\ MayArrive
    /\ event_queue' = Append(event_queue, e)
    /\ input_wake' = TRUE
    /\ inputs' = inputs + 1
    /\ UNCHANGED <<selected, flags, lock, rebind, outcome, workers, ctl, led,
                   turn_off_leds, startup, loop, wake_chan, gadget_req_chan,
                   held, stopped>>

\* RequestGadget queues a request for the mainloop and wakes it.
RequestGadget(r) ==
    /\ MayArrive
    /\ Len(gadget_req_chan) < ReqCap
    /\ gadget_req_chan' = Append(gadget_req_chan, r)
    /\ wake_chan' = TRUE
    /\ inputs' = inputs + 1
    /\ UNCHANGED <<selected, flags, lock, rebind, outcome, workers, ctl, led,
                   turn_off_leds, startup, loop, event_queue, input_wake, held,
                   stopped>>

\* `ipc led on|off`, on the IPC goroutine: store, then apply_led_state.
SetTurnOffLeds(off) ==
    /\ MayArrive
    /\ turn_off_leds' = off
    /\ led' = IF apply_error THEN turn_off_all_leds
              ELSE SetLed(current_mode, IF off THEN "off" ELSE submode_led_mode)
    /\ inputs' = inputs + 1
    /\ UNCHANGED <<selected, flags, lock, rebind, outcome, workers, ctl,
                   startup, loop, event_queue, input_wake, wake_chan,
                   gadget_req_chan, held, stopped>>

\* The button is held past shutdown_threshold, or let go again.
Hold ==
    /\ MayArrive
    /\ ShutdownOn /\ ~held
    /\ held' = TRUE
    /\ inputs' = inputs + 1
    /\ UNCHANGED <<selected, flags, lock, rebind, outcome, workers, ctl, led,
                   turn_off_leds, startup, loop, event_queue, input_wake,
                   wake_chan, gadget_req_chan, stopped>>

LetGo ==
    /\ Running /\ held
    /\ held' = FALSE
    /\ input_wake' = TRUE
    /\ UNCHANGED <<selected, flags, lock, rebind, outcome, workers, ctl, led,
                   turn_off_leds, startup, loop, event_queue, wake_chan,
                   gadget_req_chan, stopped, inputs>>

\* SIGTERM or SIGINT: close stop_chan.
Stop ==
    /\ Running /\ ~stopped
    /\ stopped' = TRUE
    /\ UNCHANGED <<selected, flags, lock, rebind, outcome, workers, ctl, led,
                   turn_off_leds, startup, loop, event_queue, input_wake,
                   wake_chan, gadget_req_chan, held, inputs>>

\* rebind_delay passes.
Elapse ==
    /\ Running /\ (rebind_chan \/ pending_enable) /\ ~enable_due
    /\ enable_due' = TRUE
    /\ UNCHANGED <<selected, flags, lock, rebind_chan, pending_enable,
                   pending_apply, outcome, workers, ctl, led, turn_off_leds,
                   startup, loop, channels>>

\* The dark period of a LED in submode_entry_mode passes: its second loop
\* begins, still dark.
EntryElapse(j) ==
    /\ Running /\ led[j] = "entry"
    /\ led' = SetLed(j, "entry_over")
    /\ UNCHANGED <<selected, flags, lock, rebind, outcome, workers, ctl,
                   turn_off_leds, startup, loop, channels>>

Environment ==
    \/ \E e \in Buttons : Button(e)
    \/ \E r \in Requests : RequestGadget(r)
    \/ \E off \in LedCommands : SetTurnOffLeds(off)
    \/ \E j \in Leds : EntryElapse(j)
    \/ Hold \/ LetGo \/ Stop \/ Elapse

\* The process has ended.
Terminated == mainloop = "exited" /\ UNCHANGED vars

-----------------------------------------------------------------------------
BootTarget == [mode |-> 0, submode |-> InitSubmode[0]]

\* Mainloop has just started the boot apply and the LED indication.
Init ==
    /\ current_mode = 0
    /\ submode = InitSubmode
    /\ mode_changed = FALSE /\ submode_changed = FALSE /\ reapply = FALSE
    /\ submode_selection = FALSE /\ submode_entry_done = TRUE
    /\ mode_changing = FALSE /\ first_apply = TRUE
    /\ rebind_chan = FALSE /\ pending_enable = FALSE /\ enable_due = FALSE
    /\ pending_apply = [mode |-> 0, submode |-> 0]
    /\ last_good = BootTarget /\ apply_error = FALSE /\ torn = FALSE
    /\ \E boot \in Workers :
           workers = [w \in Workers |->
               IF w = boot THEN [IdleWorker EXCEPT !.pc = "apply"] ELSE IdleWorker]
    /\ ctl = [built |-> None, bound |-> FALSE, net |-> None]
    /\ led = [j \in Leds |-> "off"]
    /\ turn_off_leds = FALSE /\ apply_done = FALSE
    /\ led_init_done = FALSE /\ led_init = "begin" /\ led_init_i = 0
    /\ mainloop = "select" /\ batch = <<>>
    /\ shutting_down = FALSE
    /\ event_queue = <<>> /\ input_wake = FALSE
    /\ wake_chan = FALSE /\ gadget_req_chan = <<>>
    /\ held = FALSE /\ stopped = FALSE /\ inputs = 0

Next ==
    \/ MainloopStep
    \/ \E w \in Workers : ApplyStep(w)
    \/ led_init_indication
    \/ Environment
    \/ Terminated

Spec == Init /\ [][Next]_vars

\* The mainloop and the apply goroutines run when they can, controller calls
\* return (they have internal timeouts), and the clock advances.  Nothing forces
\* a user or a signal, and nothing waits for the power-on indication.
Fairness ==
    /\ WF_vars(MainloopStep)
    /\ \A w \in Workers : WF_vars(ApplyStep(w))
    /\ WF_vars(Elapse)

FairSpec == Spec /\ Fairness

-----------------------------------------------------------------------------
(* Properties.                                                             *)

PcLabels == Snapshotting \cup
            {"idle", "effect_led", "rebuild", "handoff", "enable", "configure",
             "probe", "commit", "display", "fail", "rolled_back", "give_up"}

WorkerRecords == [pc : PcLabels, job : {"mode", "submode", "rollback"},
                  target : Targets, fn : Modes]

SelectionType ==
    /\ current_mode \in Modes /\ submode \in [Modes -> Nat]
    /\ mode_changed \in BOOLEAN /\ submode_changed \in BOOLEAN
    /\ reapply \in BOOLEAN
    /\ submode_selection \in BOOLEAN /\ submode_entry_done \in BOOLEAN

ApplyType ==
    /\ mode_changing \in BOOLEAN /\ first_apply \in BOOLEAN
    /\ rebind_chan \in BOOLEAN /\ pending_enable \in BOOLEAN
    /\ enable_due \in BOOLEAN
    /\ pending_apply \in Targets /\ last_good \in Targets
    /\ apply_error \in BOOLEAN /\ torn \in BOOLEAN
    /\ workers \in [Workers -> WorkerRecords]
    /\ ctl \in [built : Modes \cup {None}, bound : BOOLEAN, net : {None, 0, 1}]

DisplayType ==
    /\ led \in [Leds -> LedModes] /\ turn_off_leds \in BOOLEAN
    /\ apply_done \in BOOLEAN /\ led_init_done \in BOOLEAN
    /\ led_init \in {"begin", "next", "lit", "display", "done"}
    /\ led_init_i \in 0 .. NLeds
    /\ led_init = "lit" => led_init_i < NLeds

LoopType ==
    /\ mainloop \in {"select", "handle", "shutdown", "leaving", "exited"}
    /\ batch \in Seq(ButtonEvents) /\ shutting_down \in BOOLEAN

ChannelsType ==
    /\ event_queue \in Seq(ButtonEvents) /\ input_wake \in BOOLEAN
    /\ wake_chan \in BOOLEAN /\ gadget_req_chan \in Seq(Requests)
    /\ held \in BOOLEAN /\ stopped \in BOOLEAN /\ inputs \in Nat

\* Every field of Daemon stays within its type; in particular current_mode is
\* an index of modes, and goroutines are at a known place.
TypeOK ==
    SelectionType /\ ApplyType /\ DisplayType /\ LoopType /\ ChannelsType

\* At most one apply is in flight: one goroutine on the controller, or one
\* handed-over rebind.  libusbgx is used without a lock on this assumption
\* (core/usb/gadget/c.go:22).
SerialApply ==
    /\ \A v, w \in Busy : v = w
    /\ (rebind_chan \/ pending_enable) => Busy = {}
    /\ ~(rebind_chan /\ pending_enable)

\* mode_changing is never left behind: while it is set, a goroutine or the
\* mainloop still owes its release (only a stop may abandon it).
LockHasOwner ==
    mode_changing => Busy # {} \/ rebind_chan \/ pending_enable \/ stopped

\* enable() and the LED table know every submode that is ever selected or
\* recorded as good, by taps, requests, fallbacks and rollbacks together.  The
\* exception: after a torn snapshot commit_mode may have recorded the submode of
\* one mode for another, and a rollback may have selected it.
SubmodeInRange ==
    ~torn => /\ \A m \in Modes : submode[m] <= MaxSubmode[m]
             /\ last_good.submode <= MaxSubmode[last_good.mode]

\* Nothing is being applied and nothing waits to be.
Quiet == ~mode_changing /\ ~BootPending /\ ~mode_changed

\* When all is quiet and no error is shown, the selected mode is the one that
\* was last applied, whatever was pressed or failed in between.
SelectedIsCommitted == Quiet /\ ~apply_error => current_mode = last_good.mode

\* When an RNDIS configuration is the committed one and no apply runs, an
\* RNDIS gadget is bound and its network configured.
CommittedRndisIsUp ==
    ~mode_changing /\ ~BootPending /\ ~apply_error /\ Kind[last_good.mode] = "rndis"
        => /\ ctl.bound /\ ctl.built \in Modes /\ Kind[ctl.built] = "rndis"
           /\ ctl.net # None

\* When all is quiet, the indication is over and no dark period runs, the LED
\* of the current mode shows its submode and every other LED is off.
LedShowsMode ==
    (/\ Quiet /\ Running /\ mainloop \in {"select", "handle"}
     /\ led_init = "done" /\ submode_entry_done
     /\ ~apply_error /\ ~turn_off_leds)
        => led = [j \in Leds |-> IF j = current_mode THEN submode_led_mode ELSE "off"]

\* The attempt in flight, as module Switcher sees it.
SwitchPhase ==
    CASE \E w \in Workers : workers[w].pc \in {"apply", "apply_mode"} -> "starting"
      [] \E w \in Workers : workers[w].job = "rollback" -> "undoing"
      [] \E w \in Workers : workers[w].pc = "display" -> "committed"
      [] OTHER -> IF mode_changing \/ BootPending THEN "trying" ELSE "idle"

\* The mode it tries: the snapshot of its goroutine, or, from the hand-over to
\* the start of phase two, pending_apply.
SwitchTargets ==
    LET carriers == {w \in Workers : workers[w].pc \notin {"idle", "enable"}}
    IN  IF SwitchPhase # "trying" THEN {}
        ELSE IF carriers = {} THEN {pending_apply.mode}
        ELSE {workers[w].target.mode : w \in carriers}

Abstract == INSTANCE Switcher WITH
    Boot <- 0, selected <- current_mode, waiting <- mode_changed,
    phase <- SwitchPhase, inflight <- SwitchTargets,
    good <- last_good.mode, error <- apply_error

\* The daemon implements Switcher: no interleaving of taps, requests, two-phase
\* applies, failures and rollbacks records a mode that was not the one tried,
\* drops a waiting change, or ends an apply in a fourth way.
ImplementsSwitcher == Abstract!Spec

\* The mode-change lock is always released again (or the daemon exits).
UnlockEventually == mode_changing ~> (~mode_changing \/ mainloop = "exited")

\* A stop or a shutdown press that was seen ends the daemon.
StopEnds == (stopped \/ shutting_down) ~> mainloop = "exited"

\* "switching applies" (README.md:17): a requested change is taken up.
ChangeIsApplied == mode_changed ~> (~mode_changed \/ mainloop = "exited")

\* Every mode switch ends with the gadget of the selected mode (README.md:18).
GadgetMatchesMode ==
    Quiet /\ ~apply_error => ctl.bound /\ ctl.built = current_mode

=============================================================================
