----------------------------- MODULE InputDevice -----------------------------
(***************************************************************************)
(* The button (core/input/handler.go) and the part of the daemon that      *)
(* consumes it.                                                            *)
(*                                                                         *)
(* Four kinds of goroutine meet here: daemon() reads key events from       *)
(* evdev, time.AfterFunc callbacks report long taps and end the multi-tap  *)
(* window, IPC handlers inject synthetic presses, and the mainloop waits   *)
(* on Events() and its lazy timer, asks State() for a shutdown press and   *)
(* drains the queue.  Everything but signal_wake runs under the device's   *)
(* lock, so one locked section is one step; signal_wake after the unlock   *)
(* is a step of its own.  Time is a counter: it may advance between any    *)
(* two steps, so every goroutine may be arbitrarily late.                  *)
(***************************************************************************)
EXTENDS Integers, Sequences, SequencesExt

CONSTANTS
    LongTapThreshold,      \* Config.LongTapThreshold, in ticks
    LongTapImmediately,    \* Config.LongTapImmediately
    MultipleTapThreshold,  \* Config.MultipleTapThreshold; negative: disabled
    MultipleTapMaxCount,   \* Config.MultipleTapMaxCount
    ShutdownThreshold,     \* shutdown_threshold of the daemon; 0: disabled
    Injections,            \* the `ipc tap` commands that occur
    MaxPresses,            \* bound on the key presses of a behaviour
    MaxInjections,         \* bound on the injections of a behaviour
    MaxTime                \* bound on the clock

ASSUME ConfigAssumption ==
    /\ LongTapThreshold \in Nat \ {0}
    /\ LongTapImmediately \in BOOLEAN
    /\ MultipleTapThreshold \in Int \ {0}
    /\ MultipleTapMaxCount \in Nat \ {0, 1}
    /\ ShutdownThreshold \in Nat
    /\ ShutdownThreshold > 0 => ShutdownThreshold > LongTapThreshold
    /\ Injections \subseteq {"tap", "long", "multi", "shutdown"}
    /\ MaxPresses \in Nat /\ MaxInjections \in Nat /\ MaxTime \in Nat

None == -1   \* a timer that is not armed

VARIABLES
    \* The clock, the physical key, and the key events evdev has not yet given
    \* to daemon().  presses numbers the presses of the key; downs and ups are the
    \* times at which each went down and up.
    now, key_down, presses, downs, ups, evdev,
    \* InputDevice.  press is the number of the press that press_start is of;
    \* released is the number of the last press whose KEY UP was read.
    pressed, press_start, long_tap_reported, event_queue, wake,
    press, released,
    \* Timers: the deadline while armed; callbacks of the long-tap timer that
    \* have started and wait for the lock.
    long_tap_timer, long_tap_callbacks, multi_tap_timer,
    \* The goroutines: reader is daemon(), ipc the SimulateButton handler.
    reader, ipc, injected, mainloop, lazy_timer, shutting_down,
    \* Everything DrainEvents has returned so far.
    delivered

clock == <<now, key_down, presses, downs, ups>>
button == <<pressed, press_start, long_tap_reported, press, released>>
timers == <<long_tap_timer, long_tap_callbacks, multi_tap_timer>>
consumer == <<mainloop, lazy_timer, shutting_down, delivered>>
injector == <<ipc, injected>>
vars == <<clock, evdev, button, event_queue, wake, timers, reader, injector,
          consumer>>

InputEvent(type, time, duration, number) ==
    [type |-> type, time |-> time, duration |-> duration, press |-> number]

Running == ~shutting_down

-----------------------------------------------------------------------------
(* The physical key and the clock.  Input stops early enough for the last  *)
(* multi-tap window to end before MaxTime.                                 *)

MayArrive == Running /\ now + MultipleTapThreshold < MaxTime

PressKey ==
    /\ MayArrive /\ ~key_down /\ presses < MaxPresses
    /\ key_down' = TRUE
    /\ presses' = presses + 1
    /\ downs' = Append(downs, now)
    /\ evdev' = Append(evdev, [value |-> 1, time |-> now, press |-> presses + 1])
    /\ UNCHANGED <<now, ups, button, event_queue, wake, timers, reader, injector,
                   consumer>>

ReleaseKey ==
    /\ MayArrive /\ key_down
    /\ key_down' = FALSE
    /\ ups' = Append(ups, now)
    /\ evdev' = Append(evdev, [value |-> 0, time |-> now, press |-> presses])
    /\ UNCHANGED <<now, presses, downs, button, event_queue, wake, timers, reader,
                   injector, consumer>>

Tick ==
    /\ Running /\ now < MaxTime
    /\ now' = now + 1
    /\ UNCHANGED <<key_down, presses, downs, ups, evdev, button, event_queue, wake,
                   timers, reader, injector, consumer>>

-----------------------------------------------------------------------------
(* daemon(): one key event, then signal_wake.                              *)

\* Mutant: KEY UP reports a long tap again that the timer has reported.
Reported_ignored == FALSE

\* The timer has reported this press, its release adds nothing.
Reported == long_tap_reported

TapType(duration) == IF duration >= LongTapThreshold THEN "LONG_TAP" ELSE "TAP"

NextKey(value) ==
    /\ Running /\ evdev # <<>> /\ Head(evdev).value = value
    /\ evdev' = Tail(evdev)
    /\ UNCHANGED <<clock, wake, injector, consumer, multi_tap_timer,
                   long_tap_callbacks>>

\* KEY DOWN: pressed is read before the lock is taken, so that an injected
\* press may come in between.
KeyDownSeen ==
    /\ Running /\ evdev # <<>> /\ Head(evdev).value = 1
    /\ reader = "read" /\ ~pressed
    /\ reader' = "key_down"
    /\ UNCHANGED <<clock, evdev, button, event_queue, wake, timers, injector,
                   consumer>>

\* Then, under the lock, the press starts and the long-tap timer is armed.
KeyDown ==
    /\ NextKey(1)
    /\ reader = "key_down"
    /\ pressed' = TRUE
    /\ press_start' = Head(evdev).time
    /\ press' = Head(evdev).press
    /\ long_tap_reported' = FALSE
    /\ long_tap_timer' = IF LongTapImmediately THEN now + LongTapThreshold ELSE None
    /\ reader' = "signal"
    /\ UNCHANGED <<event_queue, released>>

\* KEY UP: end the press and queue its event, unless the timer reported it.
KeyUp ==
    /\ NextKey(0)
    /\ reader = "read" /\ pressed
    /\ LET duration == Head(evdev).time - press_start
       IN  event_queue' = IF Reported THEN event_queue
                          ELSE Append(event_queue,
                                 InputEvent(TapType(duration), Head(evdev).time,
                                            duration, Head(evdev).press))
    /\ long_tap_reported' = (long_tap_reported /\ ~Reported)
    /\ long_tap_timer' = None
    /\ pressed' = FALSE
    /\ released' = Head(evdev).press
    /\ reader' = "signal"
    /\ UNCHANGED <<press_start, press>>

\* A KEY DOWN while pressed, or a KEY UP while not: skipped.
KeyIgnored ==
    /\ reader = "read"
    /\ \E value \in {0, 1} : NextKey(value) /\ pressed = (value = 1)
    /\ UNCHANGED <<button, event_queue, long_tap_timer, reader>>

ReaderSignal ==
    /\ Running /\ reader = "signal"
    /\ reader' = "read"
    /\ wake' = TRUE
    /\ UNCHANGED <<clock, evdev, button, event_queue, timers, injector, consumer>>

-----------------------------------------------------------------------------
(* Timer callbacks.                                                        *)

\* The long-tap timer expires: its callback starts and can no longer be
\* stopped, whatever happens to the button before it gets the lock.
LongTapExpire ==
    /\ Running /\ long_tap_timer # None /\ now >= long_tap_timer
    /\ long_tap_timer' = None
    /\ long_tap_callbacks' = long_tap_callbacks + 1
    /\ UNCHANGED <<clock, evdev, button, event_queue, wake, multi_tap_timer,
                   reader, injector, consumer>>

\* Mutant: the callback takes the press it finds for the one it was armed for.
LongTapDue_anyPress == pressed /\ ~long_tap_reported

\* The press that the callback finds is unreported and really long.
LongTapDue ==
    pressed /\ ~long_tap_reported /\ now - press_start >= LongTapThreshold

\* The callback gets the lock.
LongTapCallback ==
    /\ Running /\ long_tap_callbacks > 0
    /\ long_tap_callbacks' = long_tap_callbacks - 1
    /\ IF LongTapDue
       THEN /\ long_tap_reported' = TRUE
            /\ event_queue' = Append(event_queue,
                   InputEvent("LONG_TAP", now, now - press_start, press))
            /\ wake' = TRUE
       ELSE UNCHANGED <<long_tap_reported, event_queue, wake>>
    /\ UNCHANGED <<clock, evdev, pressed, press_start, press, released,
                   long_tap_timer, multi_tap_timer, reader, injector, consumer>>

\* The multi-tap window is over.
MultiTapFire ==
    /\ Running /\ multi_tap_timer # None /\ now >= multi_tap_timer
    /\ multi_tap_timer' = None
    /\ wake' = TRUE
    /\ UNCHANGED <<clock, evdev, button, event_queue, long_tap_timer,
                   long_tap_callbacks, reader, injector, consumer>>

-----------------------------------------------------------------------------
(* SimulateButton, on the IPC goroutine.                                   *)

\* InjectEvent: queue the event under the lock; the signal comes after.
InjectEvent(type, time) ==
    /\ MayArrive /\ ipc = "idle" /\ injected < MaxInjections
    /\ event_queue' = Append(event_queue, InputEvent(type, time, 0, 0))
    /\ injected' = injected + 1
    /\ ipc' = "signal"
    /\ UNCHANGED <<clock, evdev, button, wake, timers, reader, consumer>>

\* A tap and a long tap are dated before the multi-tap window, so that they
\* need not wait for it to end; the taps of `multi n` are dated now.
InjectTap ==
    "tap" \in Injections /\ InjectEvent("TAP", now - (MultipleTapThreshold + 1))
InjectLong ==
    "long" \in Injections /\ InjectEvent("LONG_TAP", now - (MultipleTapThreshold + 1))
InjectMulti == "multi" \in Injections /\ InjectEvent("TAP", now)

\* InjectPress: a press whose KEY UP will never come, long enough to shut down
\* (or one second plus one when shutdown is disabled).
InjectPress ==
    /\ "shutdown" \in Injections
    /\ MayArrive /\ ipc = "idle" /\ injected < MaxInjections
    /\ pressed' = TRUE
    /\ press_start' = now - (ShutdownThreshold + 1)
    /\ long_tap_reported' = TRUE
    /\ press' = 0
    /\ injected' = injected + 1
    /\ ipc' = "signal"
    /\ UNCHANGED <<clock, evdev, released, event_queue, wake, timers, reader,
                   consumer>>

IpcSignal ==
    /\ Running /\ ipc = "signal"
    /\ ipc' = "idle"
    /\ wake' = TRUE
    /\ UNCHANGED <<clock, evdev, button, event_queue, timers, reader, injected,
                   consumer>>

-----------------------------------------------------------------------------
(* DrainEvents.  What it returns keeps, in parts, the events merged into   *)
(* each result; TapCount is the number of parts.                           *)

Result(type, parts) == [type |-> type, parts |-> parts]

merge_chain_events(chain) ==
    CASE Len(chain) = 0 -> <<>>
      [] Len(chain) = 1 -> <<Result("TAP", chain)>>
      [] OTHER -> <<Result("MULTIPLE_TAP", chain)>>

\* Mutant: the time between two taps is not looked at.
Breaks_anyGap(chain, event) ==
    event.type # "TAP" \/ Len(chain) >= MultipleTapMaxCount

\* Does this event end the chain?
Breaks(chain, event) ==
    \/ event.type # "TAP"
    \/ Len(chain) > 0 /\ event.time - Last(chain).time > MultipleTapThreshold
    \/ Len(chain) >= MultipleTapMaxCount

\* One event of the queue: it extends the chain, or it flushes the chain and
\* is returned by itself.
Scan(acc, event) ==
    IF Breaks(acc.chain, event)
    THEN [result |-> acc.result \o merge_chain_events(acc.chain)
                     \o <<Result(event.type, <<event>>)>>,
          chain |-> <<>>]
    ELSE [acc EXCEPT !.chain = Append(@, event)]

\* The loop over the queue: what it has returned and the chain it ends with.
Scanned ==
    LET scan[i \in 0 .. Len(event_queue)] ==
            IF i = 0 THEN [result |-> <<>>, chain |-> <<>>]
            ELSE Scan(scan[i - 1], event_queue[i])
    IN  scan[Len(event_queue)]

\* Mutant: the window of the deferred chain is not watched.
arm_multi_tap_timer_never(deadline) == None

\* The multi-tap timer for a window that ends at deadline; None when that is
\* now, in which case the consumer is woken at once.
arm_multi_tap_timer_locked(deadline) == IF deadline <= now THEN None ELSE deadline

\* Mutant: the queue is read but not emptied.
DrainPlain_kept ==
    /\ MultipleTapThreshold < 0
    /\ delivered' = delivered \o [i \in DOMAIN event_queue |->
                        Result(event_queue[i].type, <<event_queue[i]>>)]
    /\ UNCHANGED <<event_queue, wake, multi_tap_timer>>

\* Multi-tap detection is disabled: everything queued is returned as it is.
DrainPlain ==
    /\ MultipleTapThreshold < 0
    /\ delivered' = delivered \o [i \in DOMAIN event_queue |->
                        Result(event_queue[i].type, <<event_queue[i]>>)]
    /\ event_queue' = <<>>
    /\ UNCHANGED <<wake, multi_tap_timer>>

\* The last chain is complete (or there is none).
DrainFlush ==
    /\ MultipleTapThreshold >= 0
    /\ Scanned.chain # <<>> =>
           now - Last(Scanned.chain).time > MultipleTapThreshold
    /\ delivered' = delivered \o Scanned.result \o merge_chain_events(Scanned.chain)
    /\ event_queue' = <<>>
    /\ multi_tap_timer' = None
    /\ UNCHANGED wake

\* The last chain may still grow: it goes back to the queue until its window
\* ends.
DrainDefer ==
    /\ MultipleTapThreshold >= 0
    /\ Scanned.chain # <<>>
    /\ now - Last(Scanned.chain).time <= MultipleTapThreshold
    /\ delivered' = delivered \o Scanned.result
    /\ event_queue' = Scanned.chain
    /\ LET deadline == Last(Scanned.chain).time + MultipleTapThreshold
       IN  /\ multi_tap_timer' = arm_multi_tap_timer_locked(deadline)
           /\ wake' = (wake \/ deadline <= now)

DrainEmpty == UNCHANGED <<delivered, event_queue, wake, multi_tap_timer>>

-----------------------------------------------------------------------------
(* The mainloop: select, handle_events, arm_lazy_wait.                     *)

Wake ==
    /\ Running /\ mainloop = "select"
    /\ mainloop' = "handle"
    /\ UNCHANGED <<clock, evdev, button, event_queue, timers, reader, injector,
                   lazy_timer, shutting_down, delivered>>

WakeInput == Wake /\ wake /\ wake' = FALSE

WakeLazy == Wake /\ lazy_timer # None /\ now >= lazy_timer /\ UNCHANGED wake

\* An IPC request or a rebind wakes the mainloop.
WakeOther == Wake /\ UNCHANGED wake

\* State() shows a press of at least shutdown_threshold.
ShutdownDue ==
    ShutdownThreshold > 0 /\ pressed /\ now - press_start >= ShutdownThreshold

Shutdown ==
    /\ Running /\ mainloop = "handle"
    /\ ShutdownDue
    /\ shutting_down' = TRUE
    /\ UNCHANGED <<clock, evdev, button, event_queue, wake, timers, reader,
                   injector, mainloop, lazy_timer, delivered>>

DrainEvents ==
    /\ Running /\ mainloop = "handle"
    /\ ~ShutdownDue
    /\ mainloop' = "arm"
    /\ IF event_queue = <<>> THEN DrainEmpty
       ELSE DrainPlain \/ DrainFlush \/ DrainDefer
    /\ UNCHANGED <<clock, evdev, button, long_tap_timer, long_tap_callbacks,
                   reader, injector, lazy_timer, shutting_down>>

\* Mutant: the deadline ignores the press.
ShutdownDeadline_none == None

\* What arm_lazy_wait computes from State(); at once if that is in the past.
ShutdownDeadline ==
    IF ~(ShutdownThreshold > 0 /\ pressed) THEN None
    ELSE IF press_start + ShutdownThreshold < now THEN now
    ELSE press_start + ShutdownThreshold

arm_lazy_wait ==
    /\ Running /\ mainloop = "arm"
    /\ mainloop' = "select"
    /\ lazy_timer' = ShutdownDeadline
    /\ UNCHANGED <<clock, evdev, button, event_queue, wake, timers, reader,
                   injector, shutting_down, delivered>>

-----------------------------------------------------------------------------
Environment == PressKey \/ ReleaseKey \/ WakeOther
Reader == KeyDownSeen \/ KeyDown \/ KeyUp \/ KeyIgnored \/ ReaderSignal
Injector == InjectTap \/ InjectLong \/ InjectMulti \/ InjectPress
Mainloop == WakeInput \/ WakeLazy \/ Shutdown \/ DrainEvents \/ arm_lazy_wait

\* do_shutdown runs and the process ends.
Terminated == shutting_down /\ UNCHANGED vars

Init ==
    /\ now = 0 /\ key_down = FALSE /\ presses = 0 /\ evdev = <<>>
    /\ downs = <<>> /\ ups = <<>>
    /\ pressed = FALSE /\ press_start = 0 /\ long_tap_reported = FALSE
    /\ press = 0 /\ released = 0
    /\ event_queue = <<>> /\ wake = FALSE
    /\ long_tap_timer = None /\ long_tap_callbacks = 0 /\ multi_tap_timer = None
    /\ reader = "read" /\ ipc = "idle" /\ injected = 0
    /\ mainloop = "arm" /\ lazy_timer = None /\ shutting_down = FALSE
    /\ delivered = <<>>

Next ==
    \/ Environment \/ Tick
    \/ Reader
    \/ LongTapExpire \/ LongTapCallback \/ MultiTapFire
    \/ Injector \/ IpcSignal
    \/ Mainloop
    \/ Terminated

Spec == Init /\ [][Next]_vars

\* Goroutines that can run do run, timers expire and time passes; nothing
\* forces a key, an IPC client or an unrelated wake-up of the mainloop.
Fairness ==
    /\ WF_vars(Tick) /\ WF_vars(Reader) /\ WF_vars(IpcSignal)
    /\ WF_vars(LongTapExpire) /\ WF_vars(LongTapCallback) /\ WF_vars(MultiTapFire)
    /\ WF_vars(Mainloop)

FairSpec == Spec /\ Fairness

-----------------------------------------------------------------------------
(* Properties.                                                             *)

\* Goroutines are at a known place; timers are armed for a time that exists or
\* not at all, and no more callbacks run than timers expired.
TypeOK ==
    /\ now \in Nat /\ presses \in Nat
    /\ key_down \in BOOLEAN /\ pressed \in BOOLEAN
    /\ long_tap_reported \in BOOLEAN /\ wake \in BOOLEAN
    /\ press_start \in Int /\ press \in Nat /\ released \in Nat
    /\ evdev \in Seq([value : {0, 1}, time : Nat, press : Nat])
    /\ {long_tap_timer, multi_tap_timer, lazy_timer} \subseteq Nat \cup {None}
    /\ long_tap_callbacks \in Nat /\ injected \in Nat
    /\ reader \in {"read", "key_down", "signal"} /\ ipc \in {"idle", "signal"}
    /\ mainloop \in {"select", "handle", "arm"}
    /\ shutting_down \in BOOLEAN

\* A signal_wake is stored in the channel, or a goroutine is about to send it.
Signalled == wake \/ reader = "signal" \/ ipc = "signal"

\* No queued event is forgotten: the mainloop is on its way to DrainEvents, a
\* wake-up is stored or about to be sent, or the timer of the multi-tap window
\* will send one.
NoStrandedEvents ==
    event_queue # <<>> => Signalled \/ mainloop = "handle" \/ multi_tap_timer # None

\* A mainloop that waits has armed its timer no later than the moment at which
\* the press in progress becomes a shutdown press, or will be woken to do so.
ShutdownWatched ==
    (pressed /\ ShutdownThreshold > 0 /\ mainloop = "select")
        => \/ Signalled
           \/ /\ lazy_timer # None
              /\ lazy_timer <= press_start + ShutdownThreshold \/ lazy_timer <= now

\* The events that were merged into these results, in order.
Unmerged(results) ==
    LET flat[i \in 0 .. Len(results)] ==
            IF i = 0 THEN <<>> ELSE flat[i - 1] \o results[i].parts
    IN  flat[Len(results)]

\* Everything returned by DrainEvents, unmerged, and then what is queued.
Log == Unmerged(delivered) \o event_queue

\* The presses that must have their event: those whose release was read, and
\* the one that is held and was reported as long.
Reportable == released + (IF pressed /\ long_tap_reported /\ press # 0 THEN 1 ELSE 0)

\* Every press of the key gives exactly one event, in the order of the presses
\* and whatever is merged, deferred, injected or late (injected events are of
\* press 0): one for each press whose release was read, and one for a press
\* that was reported while held.
EveryPressOnce ==
    LET log == Log
    IN  /\ {log[i].press : i \in DOMAIN log} \ {0} = 1 .. Reportable
        /\ \A i, j \in DOMAIN log :
               i < j /\ log[i].press # 0 /\ log[j].press # 0
                   => log[i].press < log[j].press

\* How long the finger was on the key in press n, so far if it still is.
Held(n) == (IF n <= Len(ups) THEN ups[n] ELSE now) - downs[n]

\* An event of press n agrees with the finger.
AsHeld(e) ==
    /\ e.type = "TAP" => e.press <= Len(ups) /\ Held(e.press) < LongTapThreshold
    /\ e.type = "LONG_TAP" =>
           \/ Held(e.press) >= LongTapThreshold
           \/ e.press <= Len(ups) /\ ups[e.press] < e.time

\* What is reported of a press is how long the key was physically held: a TAP
\* only for a press that was released before LongTapThreshold, a LONG_TAP only
\* for one that was held that long.  A timer that is left over from an earlier
\* press makes no short press a long one (handler.go:187-196); the one exception
\* is a short press that the timer reports after the key went up, while its
\* KEY UP lies unread in evdev.
ReportedAsHeld ==
    LET log == Log
    IN  \A i \in DOMAIN log : log[i].press # 0 => AsHeld(log[i])

\* A multiple tap consists of 2 .. MultipleTapMaxCount taps, none of which
\* came more than the threshold after the one before it.
MultipleTapsAreClose ==
    \A i \in DOMAIN delivered :
        delivered[i].type = "MULTIPLE_TAP" =>
            LET parts == delivered[i].parts
            IN  /\ Len(parts) \in 2 .. MultipleTapMaxCount
                /\ \A j \in DOMAIN parts : parts[j].type = "TAP"
                /\ \A j \in 1 .. Len(parts) - 1 :
                       parts[j + 1].time - parts[j].time <= MultipleTapThreshold

\* A deferred tap is delivered in the end: the window's timer wakes the
\* mainloop, also when it fires exactly at the end of the window.
EventsDelivered == event_queue # <<>> ~> (event_queue = <<>> \/ shutting_down)

=============================================================================
