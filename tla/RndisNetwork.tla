---------------------------- MODULE RndisNetwork ----------------------------
(***************************************************************************)
(* The network side of the RNDIS function (core/usb/rndis.go): what a mode *)
(* or submode switch leaves on the interface, in dnsmasq and in            *)
(* /etc/resolv.conf, across daemon crashes, restarts and reboots.          *)
(*                                                                         *)
(* Submode 0 (gateway) serves addresses to the host; submode 1 (client)    *)
(* takes an address, a route and a DNS server from it, after saving the    *)
(* system's resolv.conf in /tmp.  The functions run one at a time, in the  *)
(* apply goroutine, beside a mainloop whose taps step the submode.  Every  *)
(* change of a file is a step, because the daemon may be killed after it:  *)
(* os.WriteFile creates or truncates the file and then writes it.  `ip`    *)
(* and kill may fail; the code only logs it and goes on.                   *)
(***************************************************************************)
EXTENDS Naturals, FiniteSets

CONSTANTS
    Originals,   \* the states of resolv.conf before the daemon first runs
    Failures     \* what goes wrong: some of "write", "ip", "kill", "reboot"

Readable == {"file", "link"}        \* os.ReadFile(resolvConfPath) succeeds
Unreadable == {"absent", "dangling"}

ASSUME OriginalsAssumption == Originals \subseteq Readable \cup Unreadable
ASSUME FailuresAssumption == Failures \subseteq {"write", "ip", "kill", "reboot"}

VARIABLES
    original,    \* resolv.conf before the daemon first ran
    resolv,      \* resolv.conf; "upstream" is what apply_dns writes,
                 \* "partial" a file that is created and not yet written
    backup,      \* /tmp/rndis-resolv.conf, "none" when it does not exist
    intact,      \* the copies were never cut short or lost, see Recoverable
    gadget,      \* the bound gadget: "rndis", "adb" or "none"
    submode,     \* submode of the RNDIS function; enable() reads it once
    addrs,       \* addresses of the interface
    route,       \* default route through the interface
    dnsmasq,     \* a dnsmasq of this daemon runs, its pid is on file
    stray,       \* a dnsmasq runs that got SIGTERM; its pid file is gone
    failed,      \* the last flush or the last kill of this apply failed
    configured,  \* what the last completed enable() configured
    stopping,    \* the mainloop has returned, the process has not ended
    pc           \* the next step of the apply, "idle" between applies

files == <<original, resolv, backup, intact>>
dhcpd == <<dnsmasq, stray>>
link == <<addrs, route, dhcpd, failed>>
daemon == <<submode, stopping>>
vars == <<files, gadget, link, configured, daemon, pc>>

Interface == gadget = "rndis"

\* max_submode is 1.
Submodes == {0, 1}

-----------------------------------------------------------------------------
(* The commands whose failure is only logged.                              *)

\* Mutant: the DHCP server of gateway mode keeps running.
stop_dnsmasq_all_skipped == {[dnsmasq |-> dnsmasq, stray |-> stray, failed |-> {}]}

\* stop_dnsmasq_all: SIGTERM to the dnsmasq on file, and its pid file goes
\* although the process may take its time; a kill that fails leaves both.
stop_dnsmasq_all ==
    {[dnsmasq |-> FALSE, stray |-> stray \/ dnsmasq, failed |-> {}]} \cup
    IF "kill" \in Failures
    THEN {[dnsmasq |-> dnsmasq, stray |-> stray, failed |-> {"kill"}]} ELSE {}

\* `ip addr flush`: the routes go with the last address.
addr_flush ==
    {[addrs |-> {}, route |-> "none", failed |-> {}]} \cup
    IF "ip" \in Failures
    THEN {[addrs |-> addrs, route |-> route, failed |-> {"flush"}]} ELSE {}

\* A dnsmasq ends in its own time.
DnsmasqExits ==
    /\ \/ stray /\ stray' = FALSE /\ UNCHANGED dnsmasq
       \/ dnsmasq /\ dnsmasq' = FALSE /\ UNCHANGED stray
    /\ UNCHANGED <<files, gadget, addrs, route, failed, configured, daemon, pc>>

-----------------------------------------------------------------------------
(* The controller's calls.                                                 *)

Begin ==
    /\ pc \in {"idle", "boot"} /\ ~stopping
    /\ configured' = "none"
    /\ UNCHANGED stopping

\* A rebuild as RNDIS: the old gadget goes, and its interface with addresses
\* and routes; effect() stops dnsmasq; Enable binds the new gadget.
RebuildRndis ==
    /\ Begin
    /\ gadget' = "rndis"
    /\ submode' \in Submodes
    /\ addrs' = {} /\ route' = "none"
    /\ \E k \in stop_dnsmasq_all :
           dnsmasq' = k.dnsmasq /\ stray' = k.stray /\ failed' = k.failed
    /\ pc' = "enable"
    /\ UNCHANGED files

\* A rebuild as ADB: the RNDIS function is not told that it is left.
RebuildAdb ==
    /\ Begin
    /\ gadget' = "adb"
    /\ addrs' = {} /\ route' = "none" /\ failed' = {}
    /\ pc' = "idle"
    /\ UNCHANGED <<files, submode, dhcpd>>

\* The rebuild or the wait for the interface fails, before or after effect():
\* no interface is configured.
RebuildFails ==
    /\ Begin
    /\ gadget' = "none"
    /\ addrs' = {} /\ route' = "none" /\ failed' = {}
    /\ \/ UNCHANGED dhcpd
       \/ \E k \in stop_dnsmasq_all : dnsmasq' = k.dnsmasq /\ stray' = k.stray
    /\ pc' = "idle"
    /\ UNCHANGED <<files, submode>>

\* ReconfigureFunction: enable() again, on the interface as it is, unless the
\* interface cannot be found.
Reconfigure ==
    /\ Begin /\ pc = "idle" /\ Interface
    /\ submode' \in Submodes
    /\ failed' = {}
    /\ pc' \in {"enable", "idle"}
    /\ UNCHANGED <<files, gadget, addrs, route, dhcpd>>

\* A tap in submode selection, at any time, during an enable() too.
SubmodeStepped ==
    /\ pc # "down" /\ ~stopping
    /\ submode' = 1 - submode
    /\ UNCHANGED <<files, gadget, link, configured, stopping, pc>>

-----------------------------------------------------------------------------
(* enable_gateway_mode.                                                    *)

\* Mutant: going back to gateway mode leaves resolv.conf alone.
HasBackup_no == FALSE

HasBackup == backup # "none"

\* enable() sees submode 0, or client mode falls back.
EnterGateway == (pc = "enable" /\ submode = 0) \/ pc = "fallback"

\* restore_dns without a backup: nothing to do.
RestoreNothing ==
    /\ EnterGateway
    /\ ~HasBackup
    /\ pc' = "gateway"
    /\ UNCHANGED <<files, gadget, link, configured, daemon>>

\* restore_dns: remove resolv.conf ...
RestoreRemove ==
    /\ EnterGateway
    /\ HasBackup
    /\ resolv' = "absent"
    /\ pc' = "restore_create"
    /\ UNCHANGED <<original, backup, intact, gadget, link, configured, daemon>>

\* ... create it again ...
RestoreCreate ==
    /\ pc = "restore_create"
    /\ \/ resolv' = "partial" /\ pc' = "restore_write" /\ UNCHANGED intact
       \/ /\ "write" \in Failures
          /\ intact' = FALSE /\ pc' = "restore_unlink" /\ UNCHANGED resolv
    /\ UNCHANGED <<original, backup, gadget, link, configured, daemon>>

\* ... write it from the backup (a failure is only logged) ...
RestoreWrite ==
    /\ pc = "restore_write"
    /\ \/ resolv' = backup /\ UNCHANGED intact
       \/ "write" \in Failures /\ intact' = FALSE /\ UNCHANGED resolv
    /\ pc' = "restore_unlink"
    /\ UNCHANGED <<original, backup, gadget, link, configured, daemon>>

\* ... and remove the backup.
RestoreUnlink ==
    /\ pc = "restore_unlink"
    /\ backup' = "none"
    /\ pc' = "gateway"
    /\ UNCHANGED <<original, resolv, intact, gadget, link, configured, daemon>>

\* Whether dnsmasq runs after start_dnsmasq: one on file is left alone.
start_dnsmasq == {dnsmasq, TRUE}

\* Flush the routes and the addresses, add --rndis-ip and start dnsmasq.  No
\* failure is an error.
enable_gateway_mode ==
    /\ pc = "gateway"
    /\ \E f \in addr_flush :
           /\ route' \in {f.route, "none"}
           /\ addrs' \in {f.addrs, f.addrs \cup {"gateway"}}
           /\ failed' = f.failed
    /\ dnsmasq' \in start_dnsmasq
    /\ configured' = "gateway"
    /\ pc' = "idle"
    /\ UNCHANGED <<files, gadget, stray, daemon>>

-----------------------------------------------------------------------------
(* enable_client_mode.                                                     *)

\* Stop the DHCP server, add --rndis-ip for the time of the probe.
enable_client_mode ==
    /\ pc = "enable" /\ submode = 1
    /\ \E k \in stop_dnsmasq_all :
           dnsmasq' = k.dnsmasq /\ stray' = k.stray /\ failed' = k.failed
    /\ addrs' \in {addrs, addrs \cup {"gateway"}}
    /\ pc' = "probe"
    /\ UNCHANGED <<files, gadget, route, configured, daemon>>

\* udhcpc got a usable lease: flush, then the client address and the default
\* route, if it can be added.
apply_dhcp_lease ==
    /\ pc = "probe"
    /\ \E f \in addr_flush :
           /\ addrs' = f.addrs \cup {"client"}
           /\ route' \in {f.route, "upstream"}
           /\ failed' = (failed \ {"flush"}) \cup f.failed
    /\ pc' = "dns_backup"
    /\ UNCHANGED <<files, gadget, dhcpd, configured, daemon>>

\* No lease within client_timeout, an unusable one, or its address cannot be
\* added after the flush: ICS is tried next.
DhcpFails ==
    /\ pc = "probe"
    /\ \/ UNCHANGED <<addrs, route>>
       \/ \E f \in addr_flush : addrs' = f.addrs /\ route' = f.route
    /\ pc' = "ics"
    /\ UNCHANGED <<files, gadget, dhcpd, failed, configured, daemon>>

\* The DNS proxy of Windows ICS answers: a static address and route.
enable_ics_static_mode ==
    /\ pc = "ics"
    /\ \E f \in addr_flush :
           /\ addrs' = f.addrs \cup {"ics"}
           /\ route' \in {f.route, "ics"}
           /\ failed' = (failed \ {"flush"}) \cup f.failed
    /\ pc' = "dns_backup"
    /\ UNCHANGED <<files, gadget, dhcpd, configured, daemon>>

\* It does not, or the address cannot be added: submode 0 instead.
fallback_to_gateway_mode ==
    /\ pc = "ics"
    /\ \E f \in addr_flush :
           addrs' \in {f.addrs, f.addrs \cup {"ics"}} /\ route' = f.route
    /\ submode' = 0
    /\ pc' = "fallback"
    /\ UNCHANGED <<files, gadget, dhcpd, failed, configured, stopping>>

\* Mutant: an existing backup is overwritten.
BackupKept_never == FALSE

\* An existing backup is from a client mode that was not left: keep it.
BackupKept == HasBackup

\* apply_dns: back resolv.conf up, unless there is a backup already or the
\* file cannot be read ...
BackupSkip ==
    /\ pc = "dns_backup"
    /\ BackupKept \/ resolv \in Unreadable
    /\ pc' = "dns_remove"
    /\ UNCHANGED <<files, gadget, link, configured, daemon>>

\* ... create the backup, from now on one that exists; a failure of this ...
backup_resolv_conf ==
    /\ pc = "dns_backup"
    /\ ~BackupKept /\ resolv \notin Unreadable
    /\ \/ backup' = "partial" /\ pc' = "backup_write" /\ UNCHANGED intact
       \/ /\ "write" \in Failures
          /\ intact' = FALSE /\ pc' = "dns_remove" /\ UNCHANGED backup
    /\ UNCHANGED <<original, resolv, gadget, link, configured, daemon>>

\* ... and of its write is not noticed ...
BackupWrite ==
    /\ pc = "backup_write"
    /\ \/ backup' = resolv /\ UNCHANGED intact
       \/ "write" \in Failures /\ intact' = FALSE /\ UNCHANGED backup
    /\ pc' = "dns_remove"
    /\ UNCHANGED <<original, resolv, gadget, link, configured, daemon>>

\* ... remove resolv.conf (it may be a symbolic link) ...
DnsRemove ==
    /\ pc = "dns_remove"
    /\ resolv' = "absent"
    /\ pc' = "dns_create"
    /\ UNCHANGED <<original, backup, intact, gadget, link, configured, daemon>>

\* ... create it again ...
DnsCreate ==
    /\ pc = "dns_create"
    /\ \/ resolv' = "partial"
       \/ "write" \in Failures /\ UNCHANGED resolv
    /\ pc' = "dns_write"
    /\ UNCHANGED <<original, backup, intact, gadget, link, configured, daemon>>

\* ... and write the upstream's name servers into what could be created.
DnsWrite ==
    /\ pc = "dns_write"
    /\ \/ resolv = "partial" /\ resolv' = "upstream"
       \/ "write" \in Failures /\ UNCHANGED resolv
    /\ configured' = "client"
    /\ pc' = "idle"
    /\ UNCHANGED <<original, backup, intact, gadget, link, daemon>>

-----------------------------------------------------------------------------
(* The end of the daemon, and a new start.                                 *)

\* SIGTERM: Mainloop returns and CleanupRuntime runs, beside the apply
\* goroutine, which goes on until the process ends.  The gadget stays bound.
CleanupRuntime ==
    /\ pc # "down" /\ ~stopping
    /\ stopping' = TRUE
    /\ \E k \in stop_dnsmasq_all : dnsmasq' = k.dnsmasq /\ stray' = k.stray
    /\ UNCHANGED <<files, gadget, addrs, route, failed, configured, submode, pc>>

\* The process ends, after CleanupRuntime or because it is killed; a backup
\* that was being written stays as it is.
Exit ==
    /\ pc # "down"
    /\ intact' = (intact /\ pc # "backup_write")
    /\ stopping' = FALSE
    /\ pc' = "down"
    /\ UNCHANGED <<original, resolv, backup, gadget, link, configured, submode>>

\* A new daemon begins with a rebuild, in the submode it was configured with.
Start ==
    /\ pc = "down"
    /\ submode' \in Submodes
    /\ pc' = "boot"
    /\ configured' = "none"
    /\ UNCHANGED <<files, gadget, link, stopping>>

\* The stick loses power: /tmp is gone, /etc is not.
Reboot ==
    /\ "reboot" \in Failures
    /\ backup' = "none"
    /\ intact' = (intact /\ (HasBackup => resolv = original))
    /\ gadget' = "none" /\ addrs' = {} /\ route' = "none" /\ failed' = {}
    /\ dnsmasq' = FALSE /\ stray' = FALSE
    /\ configured' = "none" /\ stopping' = FALSE
    /\ pc' = "down"
    /\ UNCHANGED <<original, resolv, submode>>

Init ==
    /\ original \in Originals
    /\ resolv = original
    /\ backup = "none" /\ intact = TRUE
    /\ gadget = "none" /\ submode \in Submodes
    /\ addrs = {} /\ route = "none" /\ failed = {}
    /\ dnsmasq = FALSE /\ stray = FALSE
    /\ configured = "none" /\ stopping = FALSE /\ pc = "boot"

Next ==
    \/ RebuildRndis \/ RebuildAdb \/ RebuildFails \/ Reconfigure
    \/ SubmodeStepped \/ DnsmasqExits
    \/ RestoreNothing \/ RestoreRemove \/ RestoreCreate \/ RestoreWrite
    \/ RestoreUnlink \/ enable_gateway_mode
    \/ enable_client_mode \/ apply_dhcp_lease \/ DhcpFails
    \/ enable_ics_static_mode \/ fallback_to_gateway_mode
    \/ BackupSkip \/ backup_resolv_conf \/ BackupWrite
    \/ DnsRemove \/ DnsCreate \/ DnsWrite
    \/ CleanupRuntime \/ Exit \/ Start \/ Reboot

Spec == Init /\ [][Next]_vars

-----------------------------------------------------------------------------
(* Properties.                                                             *)

Contents == Readable \cup Unreadable \cup {"upstream", "partial"}

\* Files, interface and apply are in a known state.
TypeOK ==
    /\ original \in Originals /\ resolv \in Contents
    /\ backup \in (Contents \ Unreadable) \cup {"none"} /\ intact \in BOOLEAN
    /\ gadget \in {"none", "rndis", "adb"} /\ submode \in {0, 1}
    /\ addrs \subseteq {"gateway", "client", "ics"}
    /\ route \in {"none", "upstream", "ics"}
    /\ dnsmasq \in BOOLEAN /\ stray \in BOOLEAN
    /\ failed \subseteq {"flush", "kill"}
    /\ configured \in {"none", "gateway", "client"} /\ stopping \in BOOLEAN
    /\ pc \in {"idle", "boot", "down", "enable", "fallback", "restore_create",
               "restore_write", "restore_unlink", "gateway", "probe", "ics",
               "dns_backup", "backup_write", "dns_remove", "dns_create",
               "dns_write"}

\* The system had a resolv.conf to save, and its copy was neither cut short nor
\* lost outside the order of the steps: no write of the backup or of the
\* restored file failed, the daemon did not end between the creation and the
\* write of the backup (rndis.go:400; Stat accepts what is left, 389), and no
\* reboot emptied /tmp while the copy there was the only one.
Recoverable == original \in Readable /\ intact

\* A recoverable resolv.conf is in place or in the backup, wherever else the
\* daemon is killed and however often client mode is entered, left, failed or
\* entered again ("back up first, restore on leaving", rndis.go:359-360).
OriginalKept == Recoverable => resolv = original \/ backup = original

\* When gateway mode has been configured, by a switch or as the fallback of
\* client mode, a recoverable resolv.conf is the system's own again and the
\* backup is used up, however many client modes were killed before.
GatewayRestoresDns ==
    Recoverable /\ pc = "idle" /\ configured = "gateway"
        => resolv = original /\ backup = "none"

\* What a completed enable() leaves on the interface belongs to its role only,
\* whatever was there before and whichever commands of earlier applies failed,
\* unless its own last flush or kill failed, which the code only logs: a
\* gateway has no client address or route, a client has exactly its own address
\* and no route of the other network, and the DHCP server on file was told to
\* stop (it ends in its own time).
LinkIsClean ==
    /\ pc = "idle" /\ configured = "gateway" /\ "flush" \notin failed
           => addrs \subseteq {"gateway"} /\ route = "none"
    /\ pc = "idle" /\ configured = "client" /\ "flush" \notin failed
           => \/ addrs = {"client"} /\ route \in {"upstream", "none"}
              \/ addrs = {"ics"} /\ route \in {"ics", "none"}
    /\ pc = "idle" /\ configured = "client" /\ "kill" \notin failed
           => ~dnsmasq

=============================================================================
