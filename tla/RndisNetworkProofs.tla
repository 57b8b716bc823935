------------------------- MODULE RndisNetworkProofs -------------------------
(***************************************************************************)
(* Proofs about RndisNetwork: a recoverable resolv.conf is never lost, and *)
(* the interface belongs to one role at a time.                            *)
(***************************************************************************)
EXTENDS RndisNetwork, TLAPS

\* What stop_dnsmasq_all and addr_flush may leave.
LEMMA Outcomes ==
    ASSUME dnsmasq \in BOOLEAN, stray \in BOOLEAN
    PROVE  /\ \A k \in stop_dnsmasq_all :
                  /\ k.dnsmasq \in BOOLEAN /\ k.stray \in BOOLEAN
                  /\ k.failed \in {{}, {"kill"}}
                  /\ k.dnsmasq => k.failed = {"kill"}
           /\ \A f \in addr_flush :
                  \/ f.addrs = {} /\ f.route = "none" /\ f.failed = {}
                  \/ f.addrs = addrs /\ f.route = route /\ f.failed = {"flush"}
<1>1. ASSUME NEW k \in stop_dnsmasq_all
      PROVE  \/ k = [dnsmasq |-> FALSE, stray |-> stray \/ dnsmasq, failed |-> {}]
             \/ k = [dnsmasq |-> dnsmasq, stray |-> stray, failed |-> {"kill"}]
  BY <1>1, Zenon DEF stop_dnsmasq_all
<1>2. \A k \in stop_dnsmasq_all : k.dnsmasq \in BOOLEAN /\ k.stray \in BOOLEAN
  <2> SUFFICES ASSUME NEW k \in stop_dnsmasq_all
               PROVE  k.dnsmasq \in BOOLEAN /\ k.stray \in BOOLEAN
    OBVIOUS
  <2>1. \/ k.dnsmasq = FALSE /\ k.stray = (stray \/ dnsmasq)
        \/ k.dnsmasq = dnsmasq /\ k.stray = stray
    BY <1>1
  <2> QED BY <2>1, Zenon
<1>3. \A k \in stop_dnsmasq_all :
        k.failed \in {{}, {"kill"}} /\ (k.dnsmasq => k.failed = {"kill"})
  BY <1>1
<1>4. \A f \in addr_flush :
        \/ f.addrs = {} /\ f.route = "none" /\ f.failed = {}
        \/ f.addrs = addrs /\ f.route = route /\ f.failed = {"flush"}
  BY DEF addr_flush
<1> QED BY <1>2, <1>3, <1>4

\* The types of the files: restore_dns has a backup to write back, and the file
\* that is backed up can be read.
FilesType ==
    /\ original \in Originals /\ resolv \in Contents
    /\ backup \in (Contents \ Unreadable) \cup {"none"}
    /\ pc \in {"restore_create", "restore_write"} => backup # "none"
    /\ pc = "backup_write" => resolv \notin Unreadable

\* The types of the interface.
LinkType ==
    /\ addrs \subseteq {"gateway", "client", "ics"}
    /\ route \in {"none", "upstream", "ics"}
    /\ failed \subseteq {"flush", "kill"}

\* The truth values.
FlagsType ==
    /\ intact \in BOOLEAN /\ stopping \in BOOLEAN
    /\ dnsmasq \in BOOLEAN /\ stray \in BOOLEAN

\* The types of the daemon and of the apply.
ControlType ==
    /\ gadget \in {"none", "rndis", "adb"} /\ submode \in {0, 1}
    /\ configured \in {"none", "gateway", "client"}
    /\ pc \in {"idle", "boot", "down", "enable", "fallback", "restore_create",
               "restore_write", "restore_unlink", "gateway", "probe", "ics",
               "dns_backup", "backup_write", "dns_remove", "dns_create",
               "dns_write"}

TypeInv == FilesType /\ LinkType /\ FlagsType /\ ControlType

LEMMA TypeInit == Init => TypeInv
  BY OriginalsAssumption
  DEF Init, TypeInv, FilesType, LinkType, FlagsType, ControlType, Contents,
      Readable, Unreadable, Submodes

\* The files' contents come from one another or from apply_dns.
LEMMA FilesTypeStep == ASSUME FilesType, [Next]_vars PROVE FilesType'
<1> USE DEF FilesType, Contents, Readable, Unreadable, files
<1>1. CASE UNCHANGED files /\ pc' \notin {"restore_create", "restore_write", "backup_write"}
  BY <1>1
<1>2. CASE UNCHANGED <<files, pc>>
  BY <1>2
<1>3. CASE RestoreRemove \/ RestoreUnlink
  BY <1>3 DEF RestoreRemove, RestoreUnlink, HasBackup
<1>4. CASE RestoreCreate
  BY <1>4 DEF RestoreCreate
<1>5. CASE RestoreWrite
  BY <1>5 DEF RestoreWrite
<1>6. CASE backup_resolv_conf
  BY <1>6 DEF backup_resolv_conf
<1>7. CASE BackupWrite
  BY <1>7 DEF BackupWrite
<1>8. CASE DnsRemove
  BY <1>8 DEF DnsRemove
<1>9. CASE DnsCreate \/ DnsWrite
  BY <1>9 DEF DnsCreate, DnsWrite
<1>10. CASE Exit \/ Reboot
  BY <1>10 DEF Exit, Reboot
<1>11. CASE RebuildRndis \/ RebuildAdb \/ RebuildFails \/ Reconfigure \/ Start
  BY <1>1, <1>11 DEF RebuildRndis, RebuildAdb, RebuildFails, Reconfigure, Start
<1>12. CASE SubmodeStepped \/ DnsmasqExits \/ CleanupRuntime \/ UNCHANGED vars
  BY <1>2, <1>12 DEF SubmodeStepped, DnsmasqExits, CleanupRuntime, vars
<1>13. CASE RestoreNothing \/ enable_gateway_mode \/ enable_client_mode \/ BackupSkip
  BY <1>1, <1>13 DEF RestoreNothing, enable_gateway_mode, enable_client_mode, BackupSkip
<1>14. CASE \/ apply_dhcp_lease \/ DhcpFails \/ enable_ics_static_mode
            \/ fallback_to_gateway_mode
  BY <1>1, <1>14 DEF apply_dhcp_lease, DhcpFails, enable_ics_static_mode,
     fallback_to_gateway_mode
<1> QED
  BY <1>3, <1>4, <1>5, <1>6, <1>7, <1>8, <1>9, <1>10, <1>11, <1>12, <1>13, <1>14
  DEF Next

\* Addresses, routes and failures come from the named sets.
LEMMA LinkTypeStep == ASSUME LinkType, FlagsType, [Next]_vars PROVE LinkType'
<1> USE DEF LinkType, link
<1>a. \A k \in stop_dnsmasq_all : k.failed \in {{}, {"kill"}}
  BY Outcomes DEF FlagsType
<1>b. \A f \in addr_flush :
        /\ f.addrs \subseteq {"gateway", "client", "ics"}
        /\ f.route \in {"none", "upstream", "ics"}
        /\ f.failed \in {{}, {"flush"}}
  BY Outcomes DEF FlagsType
<1>1. CASE RebuildRndis \/ RebuildAdb \/ RebuildFails \/ Reconfigure
  BY <1>1, <1>a DEF RebuildRndis, RebuildAdb, RebuildFails, Reconfigure
<1>2. CASE enable_gateway_mode \/ enable_client_mode
  <2>1. CASE enable_gateway_mode
    BY <2>1, <1>a, <1>b DEF enable_gateway_mode
  <2>2. CASE enable_client_mode
    BY <2>2, <1>a, <1>b DEF enable_client_mode
  <2> QED
    BY <1>2, <2>1, <2>2
<1>3. CASE apply_dhcp_lease \/ enable_ics_static_mode
  BY <1>3, <1>b DEF apply_dhcp_lease, enable_ics_static_mode
<1>4. CASE DhcpFails \/ fallback_to_gateway_mode
  BY <1>4, <1>b DEF DhcpFails, fallback_to_gateway_mode
<1>5. CASE Reboot
  BY <1>5 DEF Reboot
<1>6. CASE UNCHANGED <<addrs, route, failed>>
  BY <1>6
<1>7. CASE RestoreNothing \/ RestoreRemove \/ RestoreCreate \/ RestoreWrite \/ RestoreUnlink
  BY <1>6, <1>7 DEF RestoreNothing, RestoreRemove, RestoreCreate, RestoreWrite, RestoreUnlink
<1>8. CASE \/ BackupSkip \/ backup_resolv_conf \/ BackupWrite
           \/ DnsRemove \/ DnsCreate \/ DnsWrite
  BY <1>6, <1>8 DEF BackupSkip, backup_resolv_conf, BackupWrite, DnsRemove, DnsCreate, DnsWrite
<1>9. CASE \/ SubmodeStepped \/ DnsmasqExits \/ CleanupRuntime \/ Exit \/ Start
           \/ UNCHANGED vars
  BY <1>6, <1>9 DEF SubmodeStepped, DnsmasqExits, CleanupRuntime, Exit, Start, vars
<1> QED
  BY <1>1, <1>2, <1>3, <1>4, <1>5, <1>7, <1>8, <1>9 DEF Next

\* The truth values stay truth values.
LEMMA FlagsTypeStep == ASSUME FlagsType, [Next]_vars PROVE FlagsType'
<1>a. \A k \in stop_dnsmasq_all : k.dnsmasq \in BOOLEAN /\ k.stray \in BOOLEAN
  BY Outcomes DEF FlagsType
<1>1. intact' \in BOOLEAN
  <2>1. intact \in BOOLEAN
    BY DEF FlagsType
  <2> QED
    BY <2>1, ZenonT(60) DEF Next, vars, files, Begin, RebuildRndis, RebuildAdb, RebuildFails,
       Reconfigure, SubmodeStepped, DnsmasqExits, RestoreNothing, RestoreRemove,
       RestoreCreate, RestoreWrite, RestoreUnlink, enable_gateway_mode,
       enable_client_mode, apply_dhcp_lease, DhcpFails, enable_ics_static_mode,
       fallback_to_gateway_mode, BackupSkip, backup_resolv_conf, BackupWrite,
       DnsRemove, DnsCreate, DnsWrite, CleanupRuntime, Exit, Start, Reboot
<1>2. stopping' \in BOOLEAN
  <2>1. stopping \in BOOLEAN
    BY DEF FlagsType
  <2> QED
    BY <2>1, Zenon DEF Next, vars, daemon, Begin, RebuildRndis, RebuildAdb, RebuildFails,
       Reconfigure, SubmodeStepped, DnsmasqExits, RestoreNothing, RestoreRemove,
       RestoreCreate, RestoreWrite, RestoreUnlink, enable_gateway_mode,
       enable_client_mode, apply_dhcp_lease, DhcpFails, enable_ics_static_mode,
       fallback_to_gateway_mode, BackupSkip, backup_resolv_conf, BackupWrite,
       DnsRemove, DnsCreate, DnsWrite, CleanupRuntime, Exit, Start, Reboot
<1>3. dnsmasq' \in BOOLEAN /\ stray' \in BOOLEAN
  <2>1. dnsmasq \in BOOLEAN /\ stray \in BOOLEAN
    BY DEF FlagsType
  <2> QED
    BY <1>a, <2>1, Zenon DEF Next, vars, link, dhcpd, RebuildRndis, RebuildAdb,
       RebuildFails, Reconfigure, SubmodeStepped, DnsmasqExits, RestoreNothing,
       RestoreRemove, RestoreCreate, RestoreWrite, RestoreUnlink,
       enable_gateway_mode, start_dnsmasq, enable_client_mode, apply_dhcp_lease,
       DhcpFails, enable_ics_static_mode, fallback_to_gateway_mode, BackupSkip,
       backup_resolv_conf, BackupWrite, DnsRemove, DnsCreate, DnsWrite,
       CleanupRuntime, Exit, Start, Reboot
<1> QED
  BY <1>1, <1>2, <1>3 DEF FlagsType

\* Every step goes on to a step of the apply.
LEMMA ControlTypeStep == ASSUME ControlType, [Next]_vars PROVE ControlType'
<1> USE DEF ControlType, Submodes, daemon
<1>1. CASE RebuildRndis \/ RebuildAdb \/ RebuildFails \/ Reconfigure
  BY <1>1 DEF RebuildRndis, RebuildAdb, RebuildFails, Reconfigure, Begin
<1>2. CASE RestoreNothing \/ RestoreRemove \/ RestoreCreate \/ RestoreWrite \/ RestoreUnlink
  BY <1>2 DEF RestoreNothing, RestoreRemove, RestoreCreate, RestoreWrite, RestoreUnlink
<1>3. CASE enable_gateway_mode \/ enable_client_mode
  BY <1>3 DEF enable_gateway_mode, enable_client_mode
<1>4. CASE \/ apply_dhcp_lease \/ DhcpFails \/ enable_ics_static_mode
           \/ fallback_to_gateway_mode
  BY <1>4 DEF apply_dhcp_lease, DhcpFails, enable_ics_static_mode,
     fallback_to_gateway_mode
<1>5. CASE BackupSkip \/ backup_resolv_conf \/ BackupWrite
  BY <1>5 DEF BackupSkip, backup_resolv_conf, BackupWrite
<1>6. CASE DnsRemove \/ DnsCreate \/ DnsWrite
  BY <1>6 DEF DnsRemove, DnsCreate, DnsWrite
<1>7. CASE SubmodeStepped
  BY <1>7 DEF SubmodeStepped
<1>8. CASE DnsmasqExits \/ CleanupRuntime
  BY <1>8 DEF DnsmasqExits, CleanupRuntime
<1>9. CASE Exit \/ Start \/ Reboot
  BY <1>9 DEF Exit, Start, Reboot
<1>10. CASE UNCHANGED vars
  BY <1>10 DEF vars
<1> QED
  BY <1>1, <1>2, <1>3, <1>4, <1>5, <1>6, <1>7, <1>8, <1>9, <1>10 DEF Next

\* Files, interface and apply are in a known state; in particular restore_dns
\* writes back nothing but what backup_resolv_conf read.
THEOREM TypeCorrect == Spec => []TypeOK
<1>1. TypeInv /\ [Next]_vars => TypeInv'
  BY FilesTypeStep, LinkTypeStep, FlagsTypeStep, ControlTypeStep DEF TypeInv
<1>2. TypeInv => TypeOK
  BY DEF TypeInv, TypeOK, FilesType, LinkType, FlagsType, ControlType
<1> QED
  BY TypeInit, <1>1, <1>2, PTL DEF Spec

-----------------------------------------------------------------------------

\* The backup is the system's own file from before apply_dns touches
\* resolv.conf until restore_dns has put it back: it is there whenever
\* resolv.conf is not, and every step that removes or writes a file finds the
\* other copy in place.
BackupSafe ==
    /\ backup \in {"none", original} \/ pc = "backup_write"
    /\ pc = "backup_write" => resolv = original
    /\ backup # original => resolv = original
    /\ pc \in {"restore_create", "restore_write", "dns_remove", "dns_create",
               "dns_write"} => backup = original
    /\ pc = "restore_unlink" => resolv = original
    /\ pc = "gateway" => backup = "none"
    /\ pc = "idle" /\ configured = "gateway" => backup = "none"

BackupInv == intact \in BOOLEAN /\ (Recoverable => BackupSafe)

\* Before the daemon first runs there is no backup and no need of one.
LEMMA BackupInit == Init => BackupInv
  BY DEF Init, BackupInv, BackupSafe

\* No step of a switch, no failure, kill, restart or reboot loses the backup of
\* a file that stays recoverable.
LEMMA BackupStep == ASSUME BackupInv, [Next]_vars PROVE BackupInv'
<1> USE DEF BackupInv, BackupSafe, Recoverable, Readable, files, link, daemon
<1>1. CASE RebuildRndis \/ RebuildAdb \/ RebuildFails \/ Reconfigure
  BY <1>1 DEF RebuildRndis, RebuildAdb, RebuildFails, Reconfigure, Begin
<1>2. CASE SubmodeStepped \/ DnsmasqExits \/ CleanupRuntime
  BY <1>2 DEF SubmodeStepped, DnsmasqExits, CleanupRuntime
<1>3. CASE RestoreNothing \/ RestoreRemove
  BY <1>3 DEF RestoreNothing, RestoreRemove, EnterGateway, HasBackup
<1>4. CASE RestoreCreate \/ RestoreWrite
  <2>1. CASE intact' = FALSE
    BY <2>1
  <2>2. CASE intact' = intact
    BY <1>4, <2>2 DEF RestoreCreate, RestoreWrite
  <2> QED
    BY <1>4, <2>1, <2>2 DEF RestoreCreate, RestoreWrite
<1>5. CASE RestoreUnlink \/ enable_gateway_mode
  BY <1>5 DEF RestoreUnlink, enable_gateway_mode
<1>6. CASE enable_client_mode \/ apply_dhcp_lease \/ DhcpFails
  BY <1>6 DEF enable_client_mode, apply_dhcp_lease, DhcpFails
<1>7. CASE enable_ics_static_mode \/ fallback_to_gateway_mode
  BY <1>7 DEF enable_ics_static_mode, fallback_to_gateway_mode
<1>8. CASE BackupSkip
  BY <1>8 DEF BackupSkip, BackupKept, HasBackup, Unreadable
<1>9. CASE backup_resolv_conf
  <2>1. CASE intact' = FALSE
    BY <2>1
  <2>2. CASE intact' = intact
    BY <1>9, <2>2 DEF backup_resolv_conf, BackupKept, HasBackup
  <2> QED
    BY <1>9, <2>1, <2>2 DEF backup_resolv_conf
<1>14. CASE BackupWrite
  <2>1. CASE intact' = FALSE
    BY <2>1
  <2>2. CASE intact' = intact
    BY <1>14, <2>2 DEF BackupWrite
  <2> QED
    BY <1>14, <2>1, <2>2 DEF BackupWrite
<1>10. CASE DnsRemove \/ DnsCreate \/ DnsWrite
  BY <1>10 DEF DnsRemove, DnsCreate, DnsWrite
<1>11. CASE Exit
  <2>1. CASE intact' = FALSE
    BY <2>1
  <2>2. CASE intact /\ pc # "backup_write" /\ intact' = TRUE
    BY <1>11, <2>2 DEF Exit
  <2>3. intact' = FALSE \/ (intact /\ pc # "backup_write" /\ intact' = TRUE)
    BY <1>11, Zenon DEF Exit
  <2> QED
    BY <2>1, <2>2, <2>3
<1>15. CASE Start
  BY <1>15 DEF Start
<1>12. CASE Reboot
  BY <1>12 DEF Reboot, HasBackup
<1>13. CASE UNCHANGED vars
  BY <1>13 DEF vars
<1> QED
  BY <1>1, <1>2, <1>3, <1>4, <1>5, <1>6, <1>7, <1>8, <1>9, <1>10, <1>11, <1>12,
     <1>13, <1>14, <1>15 DEF Next

\* A recoverable resolv.conf is never lost, wherever the daemon is killed but
\* inside the write of the backup: it is in place or in the backup of
\* backup_resolv_conf.
THEOREM ResolvConfKept == Spec => []OriginalKept
<1>1. BackupInv => OriginalKept
  BY DEF BackupInv, BackupSafe, OriginalKept
<1> QED
  BY BackupInit, BackupStep, <1>1, PTL DEF Spec

\* Every completed gateway mode, the fallback of client mode too, has restored
\* a recoverable resolv.conf (restore_dns).
THEOREM GatewayRestores == Spec => []GatewayRestoresDns
<1>1. BackupInv => GatewayRestoresDns
  BY DEF BackupInv, BackupSafe, Recoverable, Readable, GatewayRestoresDns
<1> QED
  BY BackupInit, BackupStep, <1>1, PTL DEF Spec

-----------------------------------------------------------------------------

\* The client side of the interface: its own address and route, if the flush
\* before them worked.
ClientLink ==
    "flush" \notin failed =>
        \/ addrs = {"client"} /\ route \in {"upstream", "none"}
        \/ addrs = {"ics"} /\ route \in {"ics", "none"}

\* What the interface looks like at each step of enable(): the client side has
\* no DHCP server on file from its first step on, and only its own address once
\* one is configured, unless the kill or the flush failed.
LinkInv ==
    /\ dnsmasq \in BOOLEAN /\ stray \in BOOLEAN
    /\ pc \in {"probe", "ics", "dns_backup", "backup_write", "dns_remove",
               "dns_create", "dns_write"} => ("kill" \notin failed => ~dnsmasq)
    /\ pc \in {"dns_backup", "backup_write", "dns_remove", "dns_create",
               "dns_write"} => ClientLink
    /\ LinkIsClean

\* Whatever failed in earlier applies, a completed enable() whose own flush and
\* kill worked leaves only its own role's address, route and DHCP server.
THEOREM LinkClean == Spec => []LinkIsClean
<1>1. Init => LinkInv
  BY DEF Init, LinkInv, LinkIsClean
<1>2. ASSUME LinkInv, [Next]_vars PROVE LinkInv'
  <2> USE DEF LinkInv, ClientLink, LinkIsClean, files, link, dhcpd, daemon
  <2>a. \A k \in stop_dnsmasq_all :
          /\ k.dnsmasq \in BOOLEAN /\ k.stray \in BOOLEAN
          /\ k.dnsmasq => k.failed = {"kill"}
    BY <1>2, Outcomes
  <2>b. \A f \in addr_flush :
          \/ f.addrs = {} /\ f.route = "none" /\ f.failed = {}
          \/ f.addrs = addrs /\ f.route = route /\ f.failed = {"flush"}
    BY <1>2, Outcomes
  <2>1. CASE RebuildRndis \/ RebuildFails
    BY <1>2, <2>1, <2>a DEF RebuildRndis, RebuildFails, Begin
  <2>2. CASE RebuildAdb \/ Reconfigure
    BY <1>2, <2>2 DEF RebuildAdb, Reconfigure, Begin
  <2>3. CASE SubmodeStepped
    BY <1>2, <2>3 DEF SubmodeStepped
  <2>4. CASE DnsmasqExits
    <3>1. dnsmasq \in BOOLEAN /\ stray \in BOOLEAN
      BY <1>2
    <3>2. dnsmasq' \in BOOLEAN /\ stray' \in BOOLEAN /\ (~dnsmasq => ~dnsmasq')
      <4> HIDE DEF LinkInv, LinkIsClean, ClientLink
      <4>1. CASE stray' = FALSE /\ dnsmasq' = dnsmasq
        BY <3>1, <4>1
      <4>2. CASE dnsmasq' = FALSE /\ stray' = stray
        BY <3>1, <4>2
      <4> QED BY <2>4, <4>1, <4>2, Zenon DEF DnsmasqExits
    <3> QED BY <1>2, <2>4, <3>2 DEF DnsmasqExits
  <2>5. CASE RestoreNothing \/ RestoreRemove \/ RestoreCreate
    BY <1>2, <2>5 DEF RestoreNothing, RestoreRemove, RestoreCreate
  <2>6. CASE RestoreWrite \/ RestoreUnlink
    BY <1>2, <2>6 DEF RestoreWrite, RestoreUnlink
  <2>7. CASE enable_gateway_mode
    <3>1. dnsmasq' \in BOOLEAN /\ stray' \in BOOLEAN
      BY <1>2, <2>7 DEF enable_gateway_mode, start_dnsmasq
    <3>2. "flush" \notin failed' => addrs' \subseteq {"gateway"} /\ route' = "none"
      BY <2>7, <2>b DEF enable_gateway_mode
    <3> QED BY <2>7, <3>1, <3>2 DEF enable_gateway_mode
  <2>8. CASE enable_client_mode
    <3>1. /\ dnsmasq' \in BOOLEAN /\ stray' \in BOOLEAN
          /\ "kill" \notin failed' => ~dnsmasq'
      BY <2>8, <2>a DEF enable_client_mode
    <3> QED BY <2>8, <3>1 DEF enable_client_mode
  <2>9. CASE apply_dhcp_lease
    <3>1. ClientLink'
      BY <2>9, <2>b DEF apply_dhcp_lease
    <3>2. "kill" \notin failed' => ~dnsmasq'
      BY <1>2, <2>9 DEF apply_dhcp_lease
    <3> QED BY <1>2, <2>9, <3>1, <3>2 DEF apply_dhcp_lease
  <2>10. CASE enable_ics_static_mode
    <3>1. ClientLink'
      BY <2>10, <2>b DEF enable_ics_static_mode
    <3>2. "kill" \notin failed' => ~dnsmasq'
      BY <1>2, <2>10 DEF enable_ics_static_mode
    <3> QED BY <1>2, <2>10, <3>1, <3>2 DEF enable_ics_static_mode
  <2>11. CASE DhcpFails \/ fallback_to_gateway_mode
    BY <1>2, <2>11 DEF DhcpFails, fallback_to_gateway_mode
  <2>12. CASE BackupSkip \/ backup_resolv_conf \/ BackupWrite
    BY <1>2, <2>12 DEF BackupSkip, backup_resolv_conf, BackupWrite
  <2>13. CASE DnsRemove \/ DnsCreate
    BY <1>2, <2>13 DEF DnsRemove, DnsCreate
  <2>14. CASE DnsWrite
    BY <1>2, <2>14 DEF DnsWrite
  <2>15. CASE CleanupRuntime
    <3>1. /\ dnsmasq' \in BOOLEAN /\ stray' \in BOOLEAN
          /\ ~dnsmasq => ~dnsmasq'
      BY <1>2, <2>15, <2>a DEF CleanupRuntime, stop_dnsmasq_all
    <3> QED BY <1>2, <2>15, <3>1 DEF CleanupRuntime
  <2>16. CASE Exit \/ Start \/ Reboot
    BY <1>2, <2>16 DEF Exit, Start, Reboot
  <2>17. CASE UNCHANGED vars
    BY <1>2, <2>17 DEF vars
  <2> QED
    BY <1>2, <2>1, <2>2, <2>3, <2>4, <2>5, <2>6, <2>7, <2>8, <2>9, <2>10, <2>11,
       <2>12, <2>13, <2>14, <2>15, <2>16, <2>17 DEF Next
<1>3. LinkInv => LinkIsClean
  BY DEF LinkInv
<1> QED
  BY <1>1, <1>2, <1>3, PTL DEF Spec

=============================================================================
