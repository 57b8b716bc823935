# Verification of the USB-mode switcher

TLA+ modules, TLC runs and TLAPS proofs for the daemon in `src/`: a program that
runs on a USB stick, turns button presses and IPC requests into a selected USB
gadget (RNDIS network or ADB), rebuilds the gadget through configfs, configures
the network behind it and shows the state on LEDs.

Run everything from this directory:

    tlc -workers 2 -config SwitchSafety.cfg MCModeSwitch
    tlapm ModeSwitchProofs.tla

## The system

| Component | Source | State | Operations | Hard because |
| :-- | :-- | :-- | :-- | :-- |
| Mode switching | `core/daemon/daemon.go` | selected mode and submode, `mode_changed`, `submode_changed`, `reapply`, `mode_changing`, `pending_enable`, `last_good_*`, `apply_error` | `Mainloop`, `handle_events`, `apply_function`, `finish_apply`, `handle_apply_failure`, rollbacks, `RequestGadget`, `SetTurnOffLeds`, `Stop`, `do_shutdown` | mainloop, apply goroutines, LED goroutine and IPC goroutines share fields without a lock |
| Button | `core/input/handler.go` | `pressed`, `press_start`, `long_tap_reported`, `event_queue`, two timers, `wake` | key reader, timer callbacks, `InjectEvent`, `InjectPress`, `DrainEvents`, `State` | late callbacks, deferred tap chains, wake-ups |
| RNDIS function | `core/usb/rndis.go` | submode, addresses, route, dnsmasq, `/etc/resolv.conf` and its backup | `effect`, `enable`, gateway and client mode, ICS, fallback, backup and restore | partial failures, kills between file operations, state left by the other submode |
| USB controller | `core/usb/controller.go` | target functions, gadget in configfs, UDC binding | `ApplyFunctions`, `Enable`, `ReconfigureFunction` | every call may fail half-way; libusbgx must be used by one goroutine |
| ADB function | `core/usb/adb.go` | functionfs mount, adbd process, pid file | `effect`, `kill_adbd`, `CleanupRuntime` | process left by a killed daemon |
| libusbgx binding | `core/usb/gadget` | handles into libusbgx | `CleanAll`, `CreateGadget`, `Add*`, `Enable` | no lock of its own |
| LED interpreter | `core/led` | mode, action index, next action time, loop count, loop goroutine | `SetMode`, `Start`, `Stop`, `Tick`, `loop` | mode replaced under a running loop, failing sysfs files |
| IPC framework, commands, transports | `core/daemonipc`, `core/ipc`, `core/daemon/transport_*.go` | handlers, connection, `gadget_req_chan`, a `Resp` channel per request | client calls with timeout, `HandleRequest`, `SendPackage`, `RequestGadget` | lost, late and misdirected answers, late execution |
| TLS service, domain filter | `core/daemon/tls_service.go`, `domain_filter.go` | certificate cache and its lock, filter rules | `handle_ask`, `handle_generate` | checks that precede a lock, two clocks, cached answers |
| Command-line injection, base, tools | `core/typeinject`, `core/base`, `cmd`, `tools` | none | flag parsing, path checks, diagnostics | sequential |

How they interact: key reader, timers and IPC handlers put events and requests
into queues and wake the mainloop through channels of capacity one. The mainloop
drains them, changes the selection and starts an apply goroutine if none runs
(`mode_changing`). The apply goroutine rebuilds the gadget (phase one), hands the
rebind deadline back to the mainloop over `rebind_chan`, and the mainloop starts a
second goroutine (phase two) that binds the gadget and configures its network. A
failure in either phase rolls back to the last good configuration from that same
goroutine. A submode change skips the rebuild and reconfigures in one phase. The
LED calls of all of them go to interpreters with a goroutine of their own per mode.
An `ipc gadget` waits in the handler's goroutine for the mainloop's answer; the TLS
service reads the selected mode and the interface's addresses and shares nothing
else with the rest.

What makes them correct: one apply at a time; the apply lock is always released;
when all is quiet, what is selected, recorded, bound, configured and shown agree;
every press counts exactly once and for what it was; nothing queued is forgotten;
the system's `resolv.conf` survives client mode; a role leaves nothing of the
other one on the interface; a LED plays one mode, the last one set; what an IPC
client is told is true and what was accepted is done; a certificate that is handed
out is valid, fits the request and was due.

## Modules

| Module | Models | Proofs | TLC module |
| :-- | :-- | :-- | :-- |
| `ModeSwitch` | mainloop, applies, rollback, controller outcome, LEDs, IPC requests, stop and shutdown | `ModeSwitchProofs` | `MCModeSwitch` |
| `InputDevice` | button handler and the mainloop's waiting, shutdown check and draining | `InputDeviceProofs` | `MCInputDevice` |
| `RndisNetwork` | network side of RNDIS, files and processes across kills and reboots | `RndisNetworkProofs` | itself |
| `UsbController` | rebuild and binding of the gadget call by call, libusbgx handles, adbd, its pid file and functionfs layers across kills | `UsbControllerProofs` | itself |
| `Switcher` | what mode switching promises, abstractly; `ModeSwitch` implements it | `SwitcherProofs`, `ModeSwitchProofs` | `MCModeSwitch` |
| `LedInterpreter` | one LED, its interpreter and the loop goroutines | `LedInterpreterProofs` | `MCLedInterpreter` |
| `IpcService` | clients, both transports, the framework's handler, the gadget queue and the mainloop's side of it | `IpcServiceProofs` | itself |
| `TlsService` | `/ask` and `/generate`, the certificate cache, monotonic and wall clock | `TlsServiceProofs` | itself |

`PROJECT.json` maps every definition to the lines it models. Names follow the
source where TLA+ allows.

### ModeSwitch

Variables are the fields of `Daemon`. `workers` holds the apply goroutines, each
with the label of its next step, its job (rebuild, submode, rollback), the
`applyTarget` it took as a snapshot and the function it works on; `ctl` is what
the controller has left: the mode built in configfs, whether it is bound, the
submode its network is configured for. One step is the code between two points at
which another goroutine can make a difference: a channel operation, a controller
call, a read of shared fields
that the mainloop may write meanwhile. `apply_function` takes its target in such steps
(`SnapshotMode`, `SnapshotSubmode`, in either order, since Go leaves open when the
plain operand of a composite literal is read, then `SnapshotFlag`, `ClearFlag`), and a
tap may come between any two; `torn` records that the two reads saw different modes. The two phases of an apply are `apply_function`
... `Handoff` and `Enable` ... `FinishApply`; every controller call has its
failure as an action or a disjunct, leaving what the code leaves; `Failed` is the
deferred handler. Events reach this module as `DrainEvents` returns them.

Abstractions, and what they hide:

- A LED call and the reads that choose its argument are one step, and so is the
  whole of `SetTurnOffLeds`. Hidden are windows of a few instructions: an
  `ipc led` between `turn_off_all_leds` and a rollback's `set_current_mode`, or a
  `turn_off_leds` that changes between `display_mode_state`'s read and its LED call,
  which can leave a LED stale until the next change.
- A LED is its mode (`LedInterpreter` has the rest). A blinking mode may or may not
  have completed a loop (`MayHaveLooped`); the dark period of a long tap ends by
  `EntryElapse`.
- The status that `ipc status` shows is written by the mainloop and read by nothing
  else; it is left out.
- A query (`RequestGadget` with an empty spec) changes nothing and is left out; a
  client's timeout does not withdraw its request, and answers are in `IpcService`.
- `Hold`/`LetGo` stand for `State()` reporting a press beyond
  `shutdown_threshold`; `InputDevice` has the details.
- `CleanupRuntime` and the end of the process are one step (`Exit`): goroutines
  stop there, at whatever point they are.

`EarlyInput` says whether input may reach the mainloop before the boot apply
goroutine has been scheduled. `Mainloop` starts that goroutine without setting
`mode_changing` (`daemon.go:423`; the goroutine does so at 760), so such input starts a
second apply beside it. Runs and proofs assume `EarlyInput = FALSE`.

### Switcher

The mode switch as its user knows it: a mode is selected at any time, an attempt
starts when a change waits and none is in flight, tries what is selected when it
begins, and is then recorded as good, undone by selecting the last good mode again,
or given up with an error. There are no goroutines, no channels, no submodes.
`ModeSwitch!Abstract` maps the daemon to it: `waiting` is `mode_changed`, `good` is
`last_good_mode`, and `SwitchPhase` reads off `mode_changing` and the one goroutine that
is not idle where the attempt is; `SwitchTargets` is that goroutine's snapshot or,
between the two phases, `pending_apply`. `ImplementsSwitcher` says that every step of every goroutine is a
step of `Switcher` or leaves it alone.

### InputDevice

Time is a counter that may advance between any two steps; every goroutine may be
arbitrarily late. Code under the device's lock is one step; `signal_wake` after
the unlock, the unlocked read of `pressed` before a KEY DOWN is processed, and
the start of a timer callback before it gets the lock are steps of their own.
`DrainEvents` is a recursive function over the queue (`Scanned`); what it returned stays in `delivered`
with the events that were merged, so that properties can count presses. A read
error or a removed device (`ENODEV`) is a reader that takes no further step.
Times of key events are the kernel's, as in the code; since the reader may be
late, a callback may find a press that has physically ended: it reports the long
tap then, as the code does. `ReportedAsHeld` compares the type that is reported with
how long the key was physically held, which the history `downs` and `ups` keeps, and
names this case as its exception.

### RndisNetwork

`resolv.conf` and its backup are identified by what they hold; every removal and
every write is a step, and `os.WriteFile` is two, the creation (which leaves a file that
exists and is `"partial"`) and the write, so that a kill may fall between any two.
`Stat` accepts a partial backup, as in the code. `intact` records that the copy of the
system's file was cut short by a kill inside its write, not written, not written back,
or lost with `/tmp`; `OriginalKept` and `GatewayRestoresDns` are stated for `intact`, which
is to say that the code does not cover these cases. Probes (udhcpc, ICS DNS query) are
choices of outcome. `ip addr flush`, `ip route flush` and the kill of dnsmasq may fail,
which the code only logs; `failed` records those of the current `enable()`, the
exceptions of `LinkIsClean`. A dnsmasq that was sent SIGTERM has no pid file and ends in
its own time (`stray`), and one that fails to be killed stays on file. A tap may step the
submode at any point of an `enable()`, which then goes on with the one it has read.
`CleanupRuntime` runs beside the apply goroutine, which may start a dnsmasq after it. The
address arithmetic, the hand-over from NetworkManager and the udhcpc script are left
out.

### UsbController

One attempt (an apply or its rollback) walks through the labels of
`apply_functions` and `Enable`; `known`, `confLive`, `linked` and `bound` are what
libusbgx and configfs hold, `ctxGadget` and `ctxConfig` the pointers in `Ctx`. Each
library call, mount, start and pid-file write is a step with its failure;
`fault` records that a call outside the daemon failed in this attempt, so that a
failure caused by something left over can be told from one that is not.
Processes are pids: `procs` says what runs under each, `mounts` who holds `ep0` of
each functionfs layer open (which makes `umount` fail). A child of the daemon is
waited for; an adbd that is known by its pid file only gets SIGTERM (`signalled`),
because `Wait` fails at once for a process that is not a child. `CleanupRuntime`
runs beside the apply goroutine. `kill_adbd` is a step for each thing it looks at or
does: take the handle or read the pid file, check `comm`, signal, remove the pid file;
between any two the process may end and its pid be given to another program or to
somebody else's adbd. So the signal may reach a stranger: the code narrows that window
with the check and does not close it, and no property says otherwise. The test and the
clearing of `adbd_process` (`adb.go:354-356`) are one step. `lost`, `inherited` and `quiet` are
history: pid files not written, adbds of earlier daemons, a stop without an apply.

Left out: two applies at once (`ModeSwitch!SerialApply`), two gadgets in configfs
at the first start (`LeftoversAssumption`; `CleanAll` removes one per apply, and
the rebuild then fails), a start of the daemon during a pending removal, the
attributes, strings, identity and environment, whose calls are choices of outcome.
The goroutines' race on `adbd_process` is taken in the order of the steps, with a
pid that was read before `CleanupRuntime` and written after it (`AdbdTaken`).

### LedInterpreter

`lock` covers `SetMode`, `Start`, `Stop`, `Tick` and each iteration of `loop()`, so each is
a step. A loop goroutine is at the top of its iteration, in its timer, parked in a
static mode, or gone; a cancelled one stays where it is until it notices. Time is
what is left of `next_action_time` and of each timer, and a timer that is over may be
noticed late. `act` has one action for each way it can go: not due, WAIT, a write
that works, a write that fails (after either file may or may not have been changed).
`failed`, `retried` and `elapsed` are history. The daemon's order of calls is kept:
one `Tick` while loading, which a LED that fails it does not survive, one `Start`, one
`Stop`; an apply goroutine may call `SetMode` after that. `GetLoopCount` is a read.

### IpcService

A client is one run of `ipc <command>`. `transport` is the build's: on the stream one
client is connected at a time and an answer is written to whoever is connected when
it is ready; on D-Bus every call has its goroutine, `request_mutex` admits one at a
time in any order, and the answer goes to the caller. `handler` is the one request
being handled, by its next step. A client that leaves may or may not take what it
sent along. A timeout may strike whenever the code waits for it, the daemon's two
(of five seconds each) in the handler and the client's own. `executed` counts
executions. What the commands do is in `ModeSwitch` and `InputDevice`; a direct command
(`led`, `tap`, `status`) is one step of the handler. Golang-ipc and the bus are
external: connections, order of delivery and loss are choices.

Left out: a handler that panics (recovered, no answer), a D-Bus connection that is
lost (`serve_dbus` does not notice: `transport_dbus.go:118`), registration of handlers.

### TlsService

A request looks at the mode, then at the addresses, each look a step, then waits for
`cache_lock`. Two clocks: certificates carry wall-clock times, a cache entry's
`expires_at` is monotonic unless the root's `NotAfter` is the earlier one. `Elapse`
advances both, `SetClock` sets the wall clock only. `SignMax` bounds the time from the
`now` of a certificate to the `now` of its cache entry, which contains a signature and
no key generation; the time a key takes is not bounded. A certificate is its name,
schemes and times; rules are the set of names they match; a status other than 200 is
a refusal. `answer`, `seen`, `since` and `epoch` are history: what the last step handed
out, what there was to see during a request, how often the clock was set.

Left out: starting and stopping the server (a stopped one begins no request), the
syntax of the filter's rules, the choice of curve and key size.

## Runs

| Run | Checks | Bounds |
| :-- | :-- | :-- |
| `SwitchSafety` | `SerialApply`, `LockHasOwner`, `SelectedIsCommitted`, `CommittedRndisIsUp`, `LedShowsMode`, `ImplementsSwitcher` | RNDIS and ADB, 3 inputs out of taps, long taps, `led on` and `led off`, 2 LEDs, room for 2 goroutines; 2.2 M states |
| `SwitchLive` | `UnlockEventually`, `StopEnds`, `SubmodeInRange` | starts in client mode, taps, long taps, multiple taps, requests for submode 1 and refused ones, shutdown presses; 2 inputs; 0.4 M states |
| `ButtonSafety` | `NoStrandedEvents`, `ShutdownWatched`, `EveryPressOnce`, `ReportedAsHeld`, `MultipleTapsAreClose` | 3 presses, thresholds 1/1/2 ticks, 4 ticks; 1.9 M states |
| `ButtonLive` | `EventsDelivered` | 1 press, 1 injection of each kind; 0.4 M states |
| `ButtonPlain` | `EveryPressOnce` | multi-tap disabled, long taps on release; 91 k states |
| `RndisSafety` | `OriginalKept`, `GatewayRestoresDns`, `LinkIsClean` | all four kinds of original, all failures; complete, 0.4 M states |
| `GadgetSafety` | `HandlesLive`, `FailureHasCause`, `AdbdAccounted`, `OneAdbd`, `StopLeavesNothing` | 2 pids, 2 functionfs layers, each kind of leftover; 1.7 M states |
| `LedLoop` | `OneLoop`, `LedFollowsMode`, `NeverSpins`, `RoundTakesItsTime`, `LastModeShown` | on, off, a blink with halves of 1 and 2, the dark period; 2 loop goroutines; 49 k states |
| `IpcRequests` | `QueuedIsWoken`, `AnswersAreTrue`, `OthersAnswersAreStale`, `AcceptedIsExecuted`, `HandledIsAnswered` | both transports, 2 gadget requests and a direct one of another user, queue of 1; 0.2 M states |
| `TlsCache` | `ServedIsValid`, `ServedFits`, `ServedWasEntitled`, `RenewedOnlyWhenDue`, `RequestsAreAnswered` | 2 requests, one address, one domain, a suited and an unsuited scheme, 5 instants, one setting of the clock; 0.4 M states |
| `StaleSubmodeFlag` | `GadgetMatchesMode` is violated | 3 button events |
| `LostChange` | `ChangeIsApplied` is violated under fairness | 2 taps |

Type invariants are proved and not run.

Exceptions and limits of what is stated, each with its comment in the module:

- `SubmodeInRange` excludes runs in which a tap came between the two reads of a target
  (`torn`). Without that TLC finds a submode recorded that its mode does not have: the
  mode of the target is read, a tap selects the other mode, and that one's submode is read.
- `EveryPressOnce` is checked without injected presses. With shutdown disabled an injected
  press swallows the next real one; no run shows it.
- `StopLeavesNothing` says that a stop removes the functionfs layers. How many there are
  before is bounded by `MaxMounts` only: the code has no bound.
- `HandlesLive` is about the handles that are going to be used. `Ctx.config` does dangle
  after a `CleanAll` that failed half-way (`c.go:83-88`), until the next one clears it.
- `NeverSpins` says that a loop's timer is not shorter than what act() waits for. A write
  that fails in a blinking mode is tried again with no wait at all.
- `HandledIsAnswered` is also satisfied by a client whose own timeout came first and by one
  that took a stale answer for its own.
- `ServedWasEntitled` says that mode and address were each there at some moment of the
  request. There need not be one moment at which both were.

Why the bounds are enough: two modes of different kinds give mode changes,
submode changes and a rollback across kinds; with one input at rest and two
during the apply that it starts, every flag of the selection can be overwritten
before it is used, and an apply, its failure and its rollback can each meet a
change; two goroutine slots let two applies overlap if the lock allows it. Three presses give a chain, its limit (2) and the press that breaks
it; a timer can be left over from one press, fire in the next and be late for
both. `RndisSafety` is not bounded at all. Two pids let an adbd of an earlier daemon
live beside the new one, two layers let one be stacked on a busy one; the number of
attempts, kills and restarts in `GadgetSafety` is not bounded. Neither is the number of
calls in `LedLoop`; two goroutines let a cancelled loop linger beside the one that
plays, and a small `MaxInt` makes the guard of `loop_count` happen. In `IpcRequests` a
queue of one is full with one request, so that the second is refused or accepted
after the first has timed out, and the third client can meet a stale answer. In
`TlsCache` a certificate of two instants is made, shared, renewed and cut off by the
root's end, one request waits for the lock of the other, and the clock is set forward
or back around any of this.

`CHECK_DEADLOCK FALSE` is said in the runs in which the callers may make their last
call or the clock reaches its bound.

Fairness (`FairSpec`): goroutines that can run do (Go's scheduler is preemptive; the
power-on indication, which nothing waits for, is not assumed to),
controller calls and probes return (each has a timeout in the code), armed timers
fire, time passes. Nothing obliges a user, an IPC client or a signal to do
anything, and no client's timeout, other wake-up or restart of the server is
assumed. For LEDs it is assumed that a failing device works again in the end (the
static modes' case in `LastModeShown` does not need it). For the mainloop, weak fairness of the whole loop suffices, since any
of its `select` branches leads through the same `handle_events`.

## What the runs show about the code

Violations, each with a finding in `PROJECT.json`:

- `StaleSubmodeFlag`: a mode tap, a long tap and a submode tap during an apply
  leave `submode_changed` set for what is also a mode change: the pending change
  only reconfigures, and the old gadget stays bound under the new mode's name.
- `LostChange`: the end of an apply does not wake the mainloop; a change selected
  during it waits for unrelated input. For the same reason `ipc status` can show
  an apply that has ended, and the LED can stay dark after a long tap.

Other behaviours of the models that differ from a comment, seen while stating
properties and not kept as runs:

- `Mainloop` starts the boot apply without setting `mode_changing` (`daemon.go:423`);
  input handled first starts a second apply beside it, although `gadget/c.go:22` says
  that one goroutine uses the controller (`SwitchSafety` with `EarlyInput = TRUE`
  violates `SerialApply`).
- `ipc tap shutdown` with shutdown disabled leaves `pressed` set for good, and the next
  real press is swallowed (`handler.go:354`; `ButtonSafety` with an injected press
  violates `EveryPressOnce`, with shutdown enabled only before the process ends).
- `current_mode` and submodes are written by rollbacks and the fallback to gateway
  mode on the apply goroutine (`daemon.go:123` says by the mainloop only).
- after a fallback to gateway mode `last_good_submode` is the submode that was
  asked for, not the one applied (`daemon.go:136`).
- the end of a long tap's dark period lights the LED while `apply_error` is set
  (`daemon.go:141-142`).
- in a late `DrainEvents` a tap after a gap is returned alone and does not begin a
  new chain, so that a double tap right after it is two single taps.
- without an original `resolv.conf` nothing is restored, although `rndis.go:395` says
  that restoring then means deleting.
- an adbd found by its pid file is neither waited for nor killed when it ignores
  SIGTERM (`adb.go:385` says SIGKILL after two seconds).
- `umount_ffs` finds the layer busy while the old adbd runs, so each return to ADB
  adds a functionfs layer (`adb.go:20` says that all are unmounted).
- a mode tap between the two reads by which `apply_function` takes its target
  (`daemon.go:749-750`) gives it the submode of another mode.
- the pid that `kill_adbd` read may have changed hands when it is signalled, and an adbd
  that somebody else started passes the check of `comm` (`adb.go:349-350` says that others
  are not hit).
- a reboot in client mode loses the backup of `resolv.conf`; a backup that could
  not be written, or that a kill cut short, is not noticed and taken for the original
  the next time (`rndis.go:389`); a switch from client mode to ADB does not restore
  the file (`README.md:60`).

- on the stream transport the answer to a client that gave up goes to the next one
  that is connected, which takes it for its own; error packages of the fallback
  handler are dropped (`core.go:372`), so that a client waits for its timeout.
- a request that "timed out" is still executed.
- a cached certificate that was overtaken by a setting of the wall clock is handed
  out, expired or not yet valid; so is one whose root expired while the key was made.
- a static LED mode whose write failed is not tried again (a blinking one is), and a
  first write that is tried again counts as a loop, which ends a dark period early
  (`daemon.go:1105-1106` takes the count for completed rounds).

## Proofs

For every value of the constants: any number of modes, submodes, LEDs,
goroutines, inputs, any thresholds.

**ModeSwitchProofs.** `TypeCorrect` first; everything else rests on it.

- `Serial` and `LockOwned` follow from `LockInv`. `SerialApply` alone is not
  inductive: it does not say that the lock is held while an apply is in flight.
  `LockInv` adds this, for a busy goroutine and for a rebind that is on its way
  (`rebind_chan`, `pending_enable`), and that the boot apply, which runs before the
  lock is set, is alone because nothing has woken the mainloop: this is where
  `~EarlyInput` is needed.
- `SubmodesInRange` follows from `RangeInv`, which adds the snapshots of goroutines
  and `pending_apply`, since a rollback or a commit writes them back. It holds as long
  as no snapshot was torn (`torn` never goes back, `TornStays`), and at the labels between
  the reads it speaks of the parts of the target that have been read.
- `SelectionCommitted` follows from `SelectionInv` with `LockInv` and `JobInv`: the
  target of an apply in flight is the selected mode unless a change waits
  (`Follows`), so a commit records what is selected, and a rollback selects what
  is recorded.
- `LedShows` follows from `DisplayInv` and, for the boot, `AnnouncedInv`. `DisplayInv`
  splits the property: `OthersOff` holds also while an apply runs, as long as no
  change waits and but for the LED that the boot indication lights; `CurrentShown`
  adds the current mode's LED at rest. `AnnouncedInv` settles the race of the boot apply with
  `led_init_indication`: the one that ends last finds the other's flag set and
  shows the mode. Steps of an apply need `LockInv`.
- `CommittedRndisUp` follows from `ControllerInv`: what `ctl` holds at each label of
  an apply, from the rebuild to the commit.
- `Implementation` is the refinement: initial states map to initial states, and under
  `LockInv`, `JobInv`, `SelectionInv` and types each action maps to a named step of `Switcher` or a
  stutter. The lock is what makes `SwitchPhase` well defined, since it speaks of the one
  goroutine in flight; the step that commits records `pending_apply`, so that what is
  good is what was tried.

**SwitcherProofs.** `SelectedAndGoodAgree`: at rest, with nothing waiting and no error,
the selected mode is the good one. Its invariant says for each phase how the selected
mode, the one being tried and the good one are related.

**InputDeviceProofs.** `DrainEvents` works on a queue of any length, so its result is
a recursive function, of which the provers know nothing until such a function is
known to exist. The module first proves what it needs of induction: a set of numbers
that is not empty has a least element (`LeastElement`, from the well-foundedness of
`<`), a set with 0 that is closed under successor holds every number
(`SetInduction`), and what is computed from the value before exists and is unique
(`Recursion`, `SameIterates`). No operator is a parameter in them: the induction
hypothesis is a set.

- `DrainKeepsLog`: what `DrainEvents` returns and what it leaves queued are, unmerged
  and in order, what was there before. Its loop invariant is `ScanOK`: the results
  so far and the pending chain are the events scanned so far, and the chain is
  close taps, fewer than the maximum.
- `TypeCorrect` proves `TypeOK` with `QueuesOK`: the queue holds events, and every
  result is a single event or a merged chain of close taps. `TapsAreClose` follows.
- `LongIsLong` proves `ReportedAsHeld` from `KeysInv` (below) and `HoldsInv`: an unread key
  event has the time of its press or release, and `press_start` is when the press in
  progress began. The callback's guard
  compares `press_start` of the press that lasts now, so a callback that is left over
  from an earlier press finds too short a time.
- `PressesReportedOnce` follows from `KeysInv`: presses and releases alternate in
  evdev, the first one continues what `daemon()` has read, and a press is marked as
  reported only while it lasts. So each release and each callback appends the event
  of the press that is next. The theorem excludes injected presses: `ipc tap shutdown`
  changes `pressed` under the reader, and a release can be swallowed.
- `NoEventStranded` needs the deferred chain's case analysis (`DeferredIsWatched`): a
  window that is over wakes the consumer at once, any other arms the timer.
- `ShutdownIsWatched` rests on the press being signalled after it is recorded, and on
  `arm_lazy_wait` running between every two waits.

**RndisNetworkProofs.** `TypeCorrect` follows from `TypeInv`, which adds that
`restore_dns` has a backup to write back. `ResolvConfKept` and `GatewayRestores` follow from
`BackupInv`, stated for `Recoverable`: whenever `resolv.conf` is not the original, the backup
is, at the labels where a file is removed, created or written the other copy is in
place, and a partial backup exists only while it is being written.
`LinkClean` follows from `LinkInv`, the state of the interface and of dnsmasq at each label,
as far as this `enable()`'s own flush and kill worked.

**UsbControllerProofs.** `TypeCorrect` first. `HandlesAreLive` and `FailuresHaveCause`
follow from `GadgetInv`: after `CleanAll` libusbgx knows no gadget, after
`CreateGadget` exactly the own one with its config, and a directory that is still
there at `CreateGadget` means that the kernel was slow in this attempt.
`AdbdsAccounted` follows from `AdbdInv`: besides the property, how handle, pid file and the
victims of a `kill_adbd` in progress are related at each of its labels, and that handle
and pid file are empty when an adbd is started. `StopsLeaveNothing` and `OnlyOneAdbd` follow
from `StopInv`: a daemon has no adbd but that of its handle, the ones that a `kill_adbd` is
about to signal, and the inherited ones; a layer that is held open is held by a running
adbd. For `OnlyOneAdbd`, while the daemon is not stopping only the rebuild's `kill_adbd` has a
victim (`VictimOK`), and then the handle is empty (`AdbdInv`).

**LedInterpreterProofs.** One inductive invariant, `IInv`. `OneLoopPlays` is inductive with
types. `LoopsNeverSpin` needs that a loop in its timer was given at least what is left
of `next_action_time`, at the top nothing is left, and a static mode has none at all.
`LedFollows` needs that positions already played of the current mode were written by
its own loop, which holds because `SetMode` clears `init` and the index together.
`RoundIsWaited` needs `Waited`: in the first round, the time since `SetMode` and what is
left of `next_action_time` cover the waits of all actions played so far, so that the
first action of the next round, which raises `loop_count`, is due only after all of
them. `Waits` is a recursive function, treated as in InputDeviceProofs.

**IpcServiceProofs.** `IInv` places every request: a client that has not called is
nowhere, and each other is in exactly one of inbox, handler, queue, mainloop or behind
(`Way`); with this a request is executed at most once, an answer is what its place
implies, and `busy` means that it was never queued.

**TlsServiceProofs.** `IInv` relates a certificate to its cache entry: as long as the clock
is not set, `expires_at` exceeds the certificate's end by at most `SignMax`, which the
margin of one minute covers (`TimesAssumption`); so what is `Fresh` is valid.
`RenewalsAreDue` needs that the lock's holder found its entry stale and that nobody
else can store meanwhile.

Assumptions used: those named `ASSUME` in the modules (the configuration that
`init` accepts; `RecordAssumption` only bounds what `LedInterpreter` records),
`~EarlyInput` and the absence of injected presses where a theorem states them.

Only model-checked: liveness (`UnlockEventually`, `StopEnds`, `EventsDelivered`,
`LastModeShown`, `AcceptedIsExecuted`, `HandledIsAnswered`,
`RequestsAreAnswered`), which needs fairness and `ENABLED`, both out of the prover's
reach. Every invariant and every action property of a passing run is proved.

## Not modelled, and what could follow

- `ModeSwitch`'s `ctl` is an abstraction of `UsbController` by intent; the refinement is
  not stated, since the two modules split an apply at different points.
- Address arithmetic of RNDIS (`calc_client_ip`, `mask_to_prefix`, `subnet_last`), the
  hand-over from NetworkManager, the udhcpc script: pure functions and I/O.
- The syntax of the domain filter's rules, parsing of certificates and keys: pure
  functions over strings, covered by tests.
- Command-line injection (`core/typeinject`): reflection, sequential, tested.
- Path checks, privilege drop, the entry point and the diagnostic tools: no state.
- A lost D-Bus connection.

Next proofs: the safety half of the liveness properties, that something is pending
whenever a promise is open (a waiting stop, a held lock, an accepted request).
