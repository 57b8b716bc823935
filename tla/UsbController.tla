--------------------------- MODULE UsbController ----------------------------
(***************************************************************************)
(* The gadget controller (core/usb/controller.go), the libusbgx context it *)
(* drives (core/usb/gadget/c.go) and the ADB function (core/usb/adb.go):   *)
(* the rebuild of a gadget step by step, with every call that may fail,    *)
(* and the adbd processes, pid file and functionfs mounts it leaves across *)
(* failures, stops, kills and restarts of the daemon.                      *)
(*                                                                         *)
(* One apply goroutine runs at a time (ModeSwitch!SerialApply);            *)
(* CleanupRuntime runs beside it, on the mainloop's goroutine.             *)
(***************************************************************************)
EXTENDS Naturals, Sequences, FiniteSets

CONSTANTS
    Pids,        \* process ids
    None,        \* no process
    Leftovers,   \* the gadgets that may be in configfs before the first start
    MaxMounts    \* bound: layers on the functionfs mount point

Gadgets == {"own", "other"}          \* --usb-config-fs, and somebody else's

ASSUME NoneAssumption == None \notin Pids
ASSUME LeftoversAssumption ==
    Leftovers \subseteq {{}, {"own"}, {"other"}}
ASSUME MaxMountsAssumption == MaxMounts \in Nat

VARIABLES
    known,       \* gadgets in libusbgx's list
    removing,    \* the own directory still exists after usbg_rm_gadget
    confLive,    \* the own gadget has its config object
    linked,      \* the function in that config
    bound,       \* the gadget bound to the UDC, or "none"
    ctxGadget,   \* Ctx.gadget is not nil
    ctxConfig,   \* Ctx.config is not nil
    target,      \* the function in target_functions
    attempt,     \* the goroutine's "apply" or its "rollback"
    pc,          \* its next step
    result,      \* how the last attempt ended
    fault,       \* a call outside the daemon failed in this attempt
    procs,       \* what runs under each pid
    handle,      \* adbd_process
    victim,      \* the process a goroutine's kill_adbd is about to stop
    pidfile,     \* the pid in adbdPidFile
    signalled,   \* processes that got SIGTERM and were not waited for
    mounts,      \* functionfs layers, the top last, by who holds ep0 open
    published,   \* ep1 exists on the top layer
    lost,        \* adbds that no pid file names, of a daemon that has ended
    inherited,   \* adbds that ran already when this daemon started
    main,        \* the mainloop's goroutine: "run", CleanupRuntime's steps, "down"
    quiet        \* no apply ran beside CleanupRuntime

gadget == <<known, removing, confLive, linked, bound>>
ctx == <<ctxGadget, ctxConfig>>
apply == <<target, attempt, result, fault>>
adb == <<procs, handle, victim, pidfile, signalled, mounts, published, lost, inherited>>
daemon == <<main, quiet>>
vars == <<gadget, ctx, apply, pc, adb, daemon>>

Running == {p \in Pids : procs[p] = "adbd"}

\* The goroutines that call kill_adbd.
Goroutines == {"apply", "main"}

Victims == {victim[a] : a \in Goroutines}

\* One step of the apply goroutine, from one label to another.
At(label) == main # "down" /\ pc = label /\ quiet' = (quiet /\ main = "run")

Goto(label) == pc' = label

\* The attempt is over; "cause" tells whether something outside failed.
Fails(cause) ==
    /\ pc' = "failed" /\ result' = "error"
    /\ fault' = (fault \/ cause)
    /\ UNCHANGED <<target, attempt, main>>

-----------------------------------------------------------------------------
(* apply_function and rollback_mode: ClearFunctions, AddFunction.          *)

AddFunction(f) == target' = f

\* The mount guard is the bound; the code has none.
Begin(f) ==
    /\ At("idle") /\ main = "run"
    /\ f = "adb" => Len(mounts) < MaxMounts
    /\ AddFunction(f)
    /\ attempt' = "apply" /\ result' = "none" /\ fault' = FALSE
    /\ Goto("clean")
    /\ UNCHANGED <<gadget, ctx, adb, main>>

\* After a failed apply the same goroutine rebuilds the last good mode, also
\* while the daemon stops.
rollback_mode(f) ==
    /\ At("failed") /\ attempt = "apply"
    /\ f = "adb" => Len(mounts) < MaxMounts
    /\ AddFunction(f)
    /\ attempt' = "rollback" /\ result' = "none" /\ fault' = FALSE
    /\ Goto("clean")
    /\ UNCHANGED <<gadget, ctx, adb, main>>

\* Nothing to roll back to, or the rollback failed as well.
GiveUp ==
    /\ At("failed")
    /\ Goto("idle")
    /\ UNCHANGED <<gadget, ctx, apply, adb, main>>

-----------------------------------------------------------------------------
(* apply_functions.                                                        *)

\* usbg_get_first_gadget; libusbgx keeps its list by name.
First == IF "other" \in known THEN "other" ELSE "own"

Unbound(g) == IF bound = g THEN "none" ELSE bound

\* CleanAll without a gadget: no-op.
CleanNothing ==
    /\ At("clean")
    /\ known = {}
    /\ ctxGadget' = FALSE /\ ctxConfig' = FALSE
    /\ Goto("wait")
    /\ UNCHANGED <<gadget, apply, adb, main>>

\* Mutant: the handles are kept.
CleanHandles_kept == UNCHANGED ctx

CleanHandles == ctxGadget' = FALSE /\ ctxConfig' = FALSE

\* CleanAll removes the first gadget; the kernel may take its time.
CleanRemoves ==
    /\ At("clean")
    /\ known # {}
    /\ known' = known \ {First}
    /\ bound' = Unbound(First)
    /\ IF First = "own"
       THEN removing' \in BOOLEAN /\ confLive' = FALSE /\ linked' = "none"
       ELSE UNCHANGED <<removing, confLive, linked>>
    /\ CleanHandles
    /\ Goto("wait")
    /\ UNCHANGED <<apply, adb, main>>

\* usbg_rm_gadget fails half-way: config and link may be gone, the handles stay.
CleanFails ==
    /\ At("clean")
    /\ known # {}
    /\ bound' = Unbound(First)
    /\ IF First = "own"
       THEN confLive' \in {confLive, FALSE} /\ linked' \in {linked, "none"}
       ELSE UNCHANGED <<confLive, linked>>
    /\ Fails(TRUE)
    /\ UNCHANGED <<known, removing, ctx, adb>>

DirExists == removing \/ "own" \in known

\* Mutant: the rebuild does not wait for the directory.
wait_gadget_removed_skipped == UNCHANGED <<removing, fault>>

\* Poll until the directory is gone; after two seconds go on all the same.
wait_gadget_removed ==
    /\ UNCHANGED removing
    /\ fault' = (fault \/ removing)

WaitRemoved ==
    /\ At("wait")
    /\ wait_gadget_removed
    /\ Goto("create")
    /\ UNCHANGED <<known, confLive, linked, bound, ctx, target, attempt, result,
                   adb, main>>

\* The kernel finishes the removal.
KernelRemoves ==
    /\ removing
    /\ removing' = FALSE
    /\ UNCHANGED <<known, confLive, linked, bound, ctx, apply, pc, adb, daemon>>

\* CreateGadget: gadget, then config; the handles are set when both exist.
CreateGadget ==
    /\ At("create")
    /\ ~DirExists
    /\ known' = known \cup {"own"}
    /\ confLive' = TRUE
    /\ ctxGadget' = TRUE /\ ctxConfig' = TRUE
    /\ Goto("add")
    /\ UNCHANGED <<removing, linked, bound, apply, adb, main>>

\* The directory exists, or usbg_create_gadget or usbg_create_config fails.
CreateFails ==
    /\ At("create")
    /\ \/ UNCHANGED <<known, confLive>>
       \/ ~DirExists /\ known' = known \cup {"own"} /\ confLive' = FALSE
    /\ Fails(~DirExists)
    /\ UNCHANGED <<removing, linked, bound, ctx, adb>>

\* AddRndis, AddFfs: create the function, link it into the config.
AddRndis ==
    /\ At("add") /\ target = "rndis"
    /\ \/ ctxGadget /\ ctxConfig /\ linked' = target
              /\ Goto("effect_rndis") /\ UNCHANGED <<apply, main>>
       \/ Fails(ctxGadget /\ ctxConfig) /\ UNCHANGED linked
    /\ UNCHANGED <<known, removing, confLive, bound, ctx, adb>>

AddFfs ==
    /\ At("add") /\ target = "adb"
    /\ \/ ctxGadget /\ ctxConfig /\ linked' = target
              /\ Goto("effect_adb") /\ UNCHANGED <<apply, main>>
       \/ Fails(ctxGadget /\ ctxConfig) /\ UNCHANGED linked
    /\ UNCHANGED <<known, removing, confLive, bound, ctx, adb>>

\* RNDIS effect(): attributes, strings and descriptors.  adbd is left alone.
EffectRndis ==
    /\ At("effect_rndis")
    /\ \/ ctxGadget /\ ctxConfig /\ Goto("ready") /\ UNCHANGED <<apply, main>>
       \/ Fails(ctxGadget /\ ctxConfig)
    /\ UNCHANGED <<gadget, ctx, adb>>

-----------------------------------------------------------------------------
(* ADB's effect().                                                         *)

\* Attributes and strings, before anything of adbd is touched.
EffectAdbAttrs ==
    /\ At("effect_adb")
    /\ \/ ctxGadget /\ Goto("mount") /\ UNCHANGED <<apply, main>>
       \/ Fails(ctxGadget)
    /\ UNCHANGED <<gadget, ctx, adb>>

Layers == {SubSeq(mounts, 1, n) : n \in 0..Len(mounts)}

\* Mutant: one layer is unmounted, not all.
Unmounted_once ==
    {ms \in Layers : /\ Len(mounts) - Len(ms) <= 1
                     /\ \A i \in DOMAIN mounts : i > Len(ms) => mounts[i] = None}

\* umount_ffs: unmount until umount fails.  A layer that is held open is busy:
\* the top one of what remains is, and none above it was.
Unmounted ==
    {ms \in Layers : /\ ms # <<>> => ms[Len(ms)] # None
                     /\ \A i \in DOMAIN mounts : i > Len(ms) => mounts[i] = None}

\* Unmount what can be unmounted and mount a fresh layer, or fail to.
MountFfs ==
    /\ At("mount")
    /\ \E ms \in Unmounted :
         \/ /\ mounts' = Append(ms, None) /\ published' = FALSE
            /\ Goto("kill") /\ UNCHANGED <<apply, main>>
         \/ /\ mounts' = ms /\ published' = (published /\ ms = mounts)
            /\ Fails(TRUE)
    /\ UNCHANGED <<gadget, ctx, procs, handle, victim, pidfile, signalled, lost,
                   inherited>>

\* Process p is gone: its pid is free again or a zombie, its layers are closed.
Gone(p, left) ==
    /\ procs' = [procs EXCEPT ![p] = left]
    /\ signalled' = signalled \ {p}
    /\ lost' = lost \ {p}
    /\ inherited' = inherited \ {p}
    /\ mounts' = [i \in DOMAIN mounts |-> IF mounts[i] = p THEN None ELSE mounts[i]]
    /\ published' = (published /\ mounts # <<>> /\ mounts[Len(mounts)] # p)

-----------------------------------------------------------------------------
(* kill_adbd, called by a rebuild, by a timeout and by CleanupRuntime.     *)

\* Goroutine a goes from one step of kill_adbd to the next.
Moves(a, from, to) ==
    /\ \/ a = "apply" /\ At(from) /\ Goto(to) /\ UNCHANGED main
       \/ a = "main" /\ main = from /\ main' = to /\ UNCHANGED <<pc, quiet>>
    /\ UNCHANGED <<gadget, ctx, apply>>

\* The handle first ...
KillTake(a) ==
    /\ Moves(a, "kill", "signal")
    /\ handle # None
    /\ victim' = [victim EXCEPT ![a] = handle]
    /\ handle' = None
    /\ UNCHANGED <<procs, pidfile, signalled, mounts, published, lost, inherited>>

\* ... or the pid file, if there is one.
KillRead(a) ==
    /\ \/ pidfile # None /\ Moves(a, "kill", "check")
       \/ pidfile = None /\ Moves(a, "kill", "unlink")
    /\ handle = None
    /\ victim' = [victim EXCEPT ![a] = pidfile]
    /\ UNCHANGED <<procs, handle, pidfile, signalled, mounts, published, lost,
                   inherited>>

\* /proc/<pid>/comm is "adbd", whoever started it.
CommIsAdbd(p) == procs[p] \in {"adbd", "dead", "alien"}

KillCheck(a) ==
    /\ \/ /\ Moves(a, "check", "signal") /\ CommIsAdbd(victim[a])
          /\ UNCHANGED victim
       \/ /\ Moves(a, "check", "unlink") /\ ~CommIsAdbd(victim[a])
          /\ victim' = [victim EXCEPT ![a] = None]
    /\ UNCHANGED <<procs, handle, pidfile, signalled, mounts, published, lost,
                   inherited>>

\* Mutant: SIGTERM and no wait for the child.
IsChild_unwaited(p) == FALSE

IsChild(p) == procs[p] \in {"adbd", "dead"} /\ p \notin inherited

\* SIGTERM to what has the pid by now.  A child is waited for, and killed if it
\* does not end; for another process Wait returns at once with an error.
KillSignal(a) ==
    /\ Moves(a, "signal", "unlink")
    /\ \/ IsChild(victim[a]) /\ Gone(victim[a], "free")
       \/ /\ ~IsChild(victim[a])
          /\ signalled' = signalled \cup
                 (IF procs[victim[a]] # "free" THEN {victim[a]} ELSE {})
          /\ UNCHANGED <<procs, mounts, published, lost, inherited>>
    /\ victim' = [victim EXCEPT ![a] = None]
    /\ UNCHANGED <<handle, pidfile>>

\* The pid file goes last, whatever it names by now.  The rebuild goes on, or
\* ends if it was its own adbd that timed out; CleanupRuntime goes on.
KillUnlink(a) ==
    /\ \/ a = "apply" /\ result = "none" /\ Moves(a, "unlink", "start")
       \/ /\ a = "apply" /\ result = "error" /\ At("unlink")
          /\ Fails(TRUE) /\ UNCHANGED <<gadget, ctx>>
       \/ a = "main" /\ Moves(a, "unlink", "umount")
    /\ pidfile' = None
    /\ UNCHANGED <<procs, handle, victim, signalled, mounts, published, lost,
                   inherited>>

kill_adbd(a) ==
    KillTake(a) \/ KillRead(a) \/ KillCheck(a) \/ KillSignal(a) \/ KillUnlink(a)

-----------------------------------------------------------------------------
(* The new adbd.                                                           *)

\* Mutant: the new process is not remembered.
StartedHandle_dropped(p) == None

StartedHandle(p) == p

\* adbd is started ...
StartAdbd ==
    /\ At("start")
    /\ \E p \in Pids :
         /\ procs[p] = "free"
         /\ procs' = [procs EXCEPT ![p] = "adbd"]
         /\ handle' = StartedHandle(p)
    /\ Goto("pidfile")
    /\ UNCHANGED <<gadget, ctx, apply, main, victim, pidfile, signalled, mounts,
                   published, lost, inherited>>

\* ... or it cannot be found, its identity not resolved, its Start fails.
StartFails ==
    /\ At("start")
    /\ handle' = None
    /\ Fails(TRUE)
    /\ UNCHANGED <<gadget, ctx, procs, victim, pidfile, signalled, mounts, published,
                   lost, inherited>>

\* The pid file; a failed write is only logged.
WritePidFile ==
    /\ At("pidfile") /\ handle # None
    /\ \/ pidfile' = handle
       \/ UNCHANGED pidfile
    /\ Goto("poll")
    /\ UNCHANGED <<gadget, ctx, apply, main, procs, handle, victim, signalled, mounts,
                   published, lost, inherited>>

\* CleanupRuntime took the handle meanwhile: the pid that was read before is
\* written, or reading it panics, which safeEffect recovers.
AdbdTaken ==
    /\ At("pidfile") \/ At("poll")
    /\ handle = None
    /\ \/ UNCHANGED pidfile
       \/ /\ pc = "pidfile"
          /\ \E p \in Pids :
               (procs[p] = "free" \/ p = victim["main"]) /\ pidfile' = p
    /\ Fails(TRUE)
    /\ UNCHANGED <<gadget, ctx, procs, handle, victim, signalled, mounts, published,
                   lost, inherited>>

\* ep1 has appeared.
AdbdReady ==
    /\ At("poll") /\ handle # None
    /\ published
    /\ Goto("ready")
    /\ UNCHANGED <<gadget, ctx, apply, adb, main>>

\* It has not within adbdReadyTimeout, or adbd has exited: kill_adbd, and fail.
AdbdTimeout ==
    /\ At("poll") /\ handle # None
    /\ result' = "error" /\ Goto("kill")
    /\ UNCHANGED <<gadget, ctx, target, attempt, fault, adb, main>>

-----------------------------------------------------------------------------
(* Enable, started by the mainloop for an apply, by itself for a rollback. *)

UdcFree == bound \in {"none", "own"}

\* enable_gadget, then the function's enable().
Enable ==
    /\ At("ready")
    /\ attempt = "apply" => main = "run"
    /\ ctxGadget /\ UdcFree
    /\ target = "adb" => published
    /\ bound' = "own"
    /\ \/ result' = "ok" /\ Goto("idle") /\ UNCHANGED <<target, attempt, fault, main>>
       \/ target = "rndis" /\ Fails(TRUE)
    /\ UNCHANGED <<known, removing, confLive, linked, ctx, adb>>

\* No handle, no UDC, a UDC in use, or a function that is not ready.
EnableFails ==
    /\ At("ready")
    /\ attempt = "apply" => main = "run"
    /\ Fails(ctxGadget /\ UdcFree)
    /\ UNCHANGED <<gadget, ctx, adb>>

-----------------------------------------------------------------------------
(* The processes.                                                          *)

\* adbd opens ep0 on the top layer and writes its descriptors; a survivor of
\* an earlier daemon does so too when it finds a layer nobody has opened.
AdbdOpens(p) ==
    /\ procs[p] = "adbd"
    /\ mounts # <<>> /\ mounts[Len(mounts)] = None
    /\ mounts' = [mounts EXCEPT ![Len(mounts)] = p]
    /\ published' = TRUE
    /\ UNCHANGED <<gadget, ctx, apply, pc, procs, handle, victim, pidfile, signalled,
                   lost, inherited, daemon>>

\* adbd ends; a child stays a zombie until it is waited for.
AdbdExits(p) ==
    /\ procs[p] = "adbd"
    /\ Gone(p, IF p \in inherited \/ main = "down" THEN "free" ELSE "dead")
    /\ UNCHANGED <<gadget, ctx, apply, pc, handle, victim, pidfile, daemon>>

\* A pid that is on file, or already read from there, is given to another
\* program, or to somebody's adbd.
PidReused(p) ==
    /\ p \in {pidfile} \cup Victims /\ procs[p] = "free"
    /\ \E kind \in {"other", "alien"} : procs' = [procs EXCEPT ![p] = kind]
    /\ UNCHANGED <<gadget, ctx, apply, pc, handle, victim, pidfile, signalled, mounts,
                   published, lost, inherited, daemon>>

StrangerExits(p) ==
    /\ procs[p] \in {"other", "alien"}
    /\ Gone(p, "free")
    /\ UNCHANGED <<gadget, ctx, apply, pc, handle, victim, pidfile, daemon>>

-----------------------------------------------------------------------------
(* The end of the daemon, and a new start.                                 *)

\* Mainloop returns; its deferred CleanupRuntime begins, with kill_adbd.
Stop ==
    /\ main = "run"
    /\ main' = "kill"
    /\ quiet' = (pc = "idle")
    /\ UNCHANGED <<gadget, ctx, apply, pc, adb>>

\* The process is gone: children without a pid file are lost to the next one.
Ended ==
    /\ procs' = [p \in Pids |-> IF procs[p] = "dead" THEN "free" ELSE procs[p]]
    /\ lost' = lost \cup {p \in Running : p \in {handle} \cup Victims /\ p # pidfile}
    /\ handle' = None
    /\ victim' = [a \in Goroutines |-> None]
    /\ main' = "down"

CleanupUmount ==
    /\ main = "umount"
    /\ mounts' \in Unmounted
    /\ published' = (published /\ mounts' = mounts)
    /\ Ended
    /\ UNCHANGED <<gadget, ctx, apply, pc, pidfile, signalled, inherited, quiet>>

\* The daemon is killed at any step.
Crash ==
    /\ main # "down"
    /\ Ended
    /\ quiet' = FALSE
    /\ UNCHANGED <<gadget, ctx, apply, pc, pidfile, signalled, mounts, published,
                   inherited>>

\* A new daemon: usbg_init reads configfs (whose removals are over by now).
Start ==
    /\ main = "down" /\ ~removing
    /\ main' = "run" /\ quiet' = TRUE
    /\ ctxGadget' = FALSE /\ ctxConfig' = FALSE
    /\ attempt' = "apply" /\ result' = "none" /\ fault' = FALSE
    /\ Goto("idle")
    /\ inherited' = Running
    /\ UNCHANGED <<gadget, target, procs, handle, victim, pidfile, signalled, mounts,
                   published, lost>>

Init ==
    /\ known \in Leftovers
    /\ confLive = ("own" \in known)
    /\ linked \in (IF "own" \in known THEN {"none", "rndis", "adb"} ELSE {"none"})
    /\ bound \in known \cup {"none"}
    /\ removing = FALSE
    /\ ctxGadget = FALSE /\ ctxConfig = FALSE
    /\ target = "rndis" /\ attempt = "apply" /\ pc = "idle"
    /\ result = "none" /\ fault = FALSE
    /\ procs = [p \in Pids |-> "free"]
    /\ handle = None /\ pidfile = None
    /\ victim = [a \in Goroutines |-> None]
    /\ signalled = {} /\ lost = {} /\ inherited = {}
    /\ mounts = <<>> /\ published = FALSE
    /\ main = "run" /\ quiet = TRUE

ApplyNext ==
    \/ \E f \in {"rndis", "adb"} : Begin(f) \/ rollback_mode(f)
    \/ GiveUp
    \/ CleanNothing \/ CleanRemoves \/ CleanFails
    \/ WaitRemoved \/ CreateGadget \/ CreateFails
    \/ AddRndis \/ AddFfs \/ EffectRndis
    \/ EffectAdbAttrs \/ MountFfs \/ StartAdbd \/ StartFails
    \/ WritePidFile \/ AdbdTaken \/ AdbdReady \/ AdbdTimeout
    \/ Enable \/ EnableFails

Next ==
    \/ ApplyNext
    \/ \E a \in Goroutines : kill_adbd(a)
    \/ KernelRemoves
    \/ \E p \in Pids :
         AdbdOpens(p) \/ AdbdExits(p) \/ PidReused(p) \/ StrangerExits(p)
    \/ Stop \/ CleanupUmount \/ Crash \/ Start

Spec == Init /\ [][Next]_vars

-----------------------------------------------------------------------------
(* Properties.                                                             *)

Labels == {"idle", "failed", "clean", "wait", "create", "add", "effect_rndis",
           "effect_adb", "mount", "kill", "check", "signal", "unlink", "start",
           "pidfile", "poll", "ready"}

\* Gadget, context, apply, processes and files are in a known state.
TypeOK ==
    /\ known \subseteq Gadgets /\ bound \in Gadgets \cup {"none"}
    /\ removing \in BOOLEAN /\ confLive \in BOOLEAN
    /\ linked \in {"none", "rndis", "adb"}
    /\ ctxGadget \in BOOLEAN /\ ctxConfig \in BOOLEAN
    /\ target \in {"rndis", "adb"} /\ attempt \in {"apply", "rollback"}
    /\ pc \in Labels /\ result \in {"none", "ok", "error"} /\ fault \in BOOLEAN
    /\ procs \in [Pids -> {"free", "adbd", "dead", "other", "alien"}]
    /\ handle \in Pids \cup {None} /\ pidfile \in Pids \cup {None}
    /\ victim \in [Goroutines -> Pids \cup {None}]
    /\ signalled \subseteq Pids /\ lost \subseteq Pids /\ inherited \subseteq Pids
    /\ mounts \in Seq(Pids \cup {None}) /\ published \in BOOLEAN
    /\ main \in {"run", "kill", "check", "signal", "unlink", "umount", "down"}
    /\ quiet \in BOOLEAN

\* The labels at which the next libusbgx call uses the context's handles.
UsesHandles == {"add", "effect_rndis", "effect_adb", "ready"}

\* No libusbgx call goes through a handle whose object is gone: where one is
\* going to be made, both handles are set and live ("gadget not created" is
\* never the answer).  A CleanAll that failed half-way keeps a config that
\* libusbgx has freed (c.go:83-88); that one is cleared by the next CleanAll
\* before anything uses it.
HandlesLive ==
    main # "down" =>
        /\ pc \in UsesHandles =>
               ctxGadget /\ ctxConfig /\ "own" \in known /\ confLive
        /\ pc \notin {"failed", "idle", "clean"} =>
               (ctxGadget => "own" \in known) /\ (ctxConfig => confLive)

\* A failed attempt is no obstacle to the next one: whatever a failure, a stop
\* or a kill has left in configfs, an attempt fails only if a call failed in
\* that attempt itself ("the next Apply's CleanAll takes care of rollback",
\* controller.go:124-125).
FailureHasCause == pc = "failed" => fault

\* Every adbd that was ever started and still runs can be found: by the handle
\* or a kill_adbd that has begun, by the next daemon through the pid file, or it
\* has its SIGTERM already; except one that had no pid file when the daemon
\* ended: not yet or not successfully written, or removed by a CleanupRuntime
\* that ran beside the rebuild (adb.go:38-39).
AdbdAccounted ==
    \A p \in Running : p \in {handle, pidfile} \cup Victims \cup signalled \cup lost

\* A daemon that is not stopping never has two adbds of its own, which would
\* fight for ep0: the old one is gone before a new one is started, also when a
\* rebuild failed, its adbd timed out or a rollback followed (adb.go:108).
OneAdbd == main = "run" => \A p, q \in Running \ inherited : p = q

\* A stop while no apply runs leaves no adbd and no functionfs layer behind,
\* except those of an adbd that an earlier daemon started (adb.go:29-31).
StopLeavesNothing ==
    [][main = "umount" /\ main' = "down" /\ quiet' =>
           /\ {p \in Pids : procs'[p] = "adbd"} \subseteq inherited
           /\ mounts' # <<>> => mounts'[Len(mounts')] \in inherited]_vars

=============================================================================
