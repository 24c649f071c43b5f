---------------------------- MODULE SplitTunnel ----------------------------
(***************************************************************************)
(* The SplitTunnelManager of wgsplitd (split_tunnel.rs) together with the  *)
(* managers it drives: CgroupManager, ProcessMonitor, HostRoutesManager    *)
(* and NftablesManager, and the kernel state they write.                   *)
(*                                                                         *)
(* The IPC server runs every request in the thread of its connection, so   *)
(* apply_settings, on_tunnel_connected, on_tunnel_disconnected and disable *)
(* interleave with each other and with the process-monitor and DNS loops.  *)
(* An action here is one block of the source that runs under one lock; a   *)
(* thread can be overtaken between any two of them.                        *)
(*                                                                         *)
(* A definition named X_Something is X with a mistake in it; the runs      *)
(* check that each property notices the mistake it is paired with.         *)
(***************************************************************************)
EXTENDS Naturals, FiniteSets

CONSTANTS
    Clients,        \* IPC connection threads
    Ifaces,         \* wg-<name> interfaces of the stored tunnels
    Apps, Pids,     \* executables, process ids
    Domains, Ips,
    Answers,        \* Answers[d]: what resolving d can yield ({}: it failed)
    Requests,       \* the SplitTunnelingSettings a client may send
    ProcLoops,      \* thread slots: bounds the monitor loops alive at once
    DnsLoops,       \* thread slots: bounds the DNS loops alive at once
    Faults,         \* the external failures considered, of FaultKinds
    NoIface, NoApp, NoLoop

FaultKinds ==
    { "cgroup",     \* cgroups v2 is not usable
      "pid",        \* a pid cannot be written to cgroup.procs
      "nft",        \* nft rejects the ruleset
      "route",      \* ip route replace fails
      "del",        \* ip route del fails
      "link",       \* the interface is deleted behind the daemon's back
      "wg" }        \* ip link down/del fails on disconnect

Dirs == {"vpn", "direct"}

Settings ==
    [enabled : BOOLEAN, mode : {"exclusive", "inclusive"},
     apps : [Dirs -> SUBSET Apps], domains : [Dirs -> SUBSET Domains]]

DefaultSettings ==
    [enabled |-> FALSE, mode |-> "exclusive",
     apps |-> [k \in Dirs |-> {}], domains |-> [k \in Dirs |-> {}]]

ASSUME ConstantsAssumption ==
    /\ Requests \subseteq Settings
    /\ Answers \in [Domains -> (SUBSET SUBSET Ips) \ {{}}]
    /\ Faults \subseteq FaultKinds
    /\ ProcLoops \intersect DnsLoops = {}
    /\ NoLoop \notin ProcLoops \union DnsLoops
    /\ NoIface \notin Ifaces
    /\ NoApp \notin Apps
    /\ Ifaces \intersect {"none", "direct"} = {}

VARIABLES
    \* IPC threads
    pc, op, cfg, iface, seen,
    \* AppState.active_tunnel and the interface wg_manager brought up
    active, tunnel,
    \* SplitTunnelManager
    settings, procHandle, dnsHandle, cancelled,
    \* CgroupManager and /sys/fs/cgroup/wgsplit-vpn
    cgEnabled, cgDir, cgProcs,
    \* ProcessMonitor and /proc
    appPaths, watched, exe,
    \* HostRoutesManager and the host routes in the main table
    vpnIface, current, kroute,
    \* history: the addresses whose ip route del failed, which left their route
    left,
    \* table inet wgsplit
    nft,
    \* the process-monitor threads
    procPc, procTodo, procPid,
    \* the DNS threads
    dnsPc, dnsJob, dnsFound

clientVars  == <<pc, op, cfg, iface, seen>>
sessionVars == <<active, tunnel>>
slotVars    == <<procHandle, dnsHandle, cancelled>>
cgVars      == <<cgEnabled, cgDir, cgProcs>>
monVars     == <<appPaths, watched, exe>>
hostVars    == <<vpnIface, current, kroute, left>>
procVars    == <<procPc, procTodo, procPid>>
dnsVars     == <<dnsPc, dnsJob, dnsFound>>

vars == <<clientVars, sessionVars, settings, slotVars, cgVars, monVars,
          hostVars, nft, procVars, dnsVars>>

NoTable  == [kind |-> "none", iface |-> NoIface]
Base(i)  == [kind |-> "base", iface |-> i]     \* only the cgroup is marked
Full(i)  == [kind |-> "full", iface |-> i]     \* everything is marked
Tables   == [kind : {"none", "base", "full"}, iface : Ifaces \union {NoIface}]

Jobs   == [Dirs -> SUBSET Domains]
NoJob  == [k \in Dirs |-> {}]
Found  == [Dirs \X Domains -> SUBSET Ips]
Nothing == [k \in Dirs \X Domains |-> {}]

Listed(s)     == s.apps[IF s.mode = "exclusive" THEN "direct" ELSE "vpn"]
HasDomains(s) == s.domains["vpn"] \union s.domains["direct"] # {}

-----------------------------------------------------------------------------

Init ==
    /\ pc = [c \in Clients |-> "idle"]
    /\ op = [c \in Clients |-> "none"]
    /\ cfg = [c \in Clients |-> DefaultSettings]
    /\ iface = [c \in Clients |-> NoIface]
    /\ seen = [c \in Clients |-> NoIface]
    /\ active = NoIface /\ tunnel = NoIface
    /\ settings = DefaultSettings
    /\ procHandle = NoLoop /\ dnsHandle = NoLoop /\ cancelled = {}
    /\ cgEnabled = FALSE /\ cgDir = FALSE /\ cgProcs = {}
    /\ appPaths = {} /\ watched = {}
    /\ exe = [p \in Pids |-> NoApp]
    /\ vpnIface = NoIface
    /\ current = [ip \in Ips |-> "none"]
    /\ kroute = [ip \in Ips |-> "none"]
    /\ left = {}
    /\ nft = NoTable
    /\ procPc = [l \in ProcLoops |-> "free"]
    /\ procTodo = [l \in ProcLoops |-> {}]
    /\ procPid = [l \in ProcLoops |-> {}]
    /\ dnsPc = [l \in DnsLoops |-> "free"]
    /\ dnsJob = [l \in DnsLoops |-> NoJob]
    /\ dnsFound = [l \in DnsLoops |-> Nothing]

(***************************************************************************)
(* Steps of an IPC thread.                                                 *)
(***************************************************************************)

Goto(c, from, to) ==
    /\ pc[c] = from
    /\ pc' = [pc EXCEPT ![c] = to]

\* Goto without touching the locals of the request.
Step(c, from, to) ==
    /\ Goto(c, from, to)
    /\ UNCHANGED <<op, cfg, iface, seen>>

\* The request is answered; its locals are gone.
Reply(c) ==
    /\ pc' = [pc EXCEPT ![c] = "idle"]
    /\ op' = [op EXCEPT ![c] = "none"]
    /\ cfg' = [cfg EXCEPT ![c] = DefaultSettings]
    /\ iface' = [iface EXCEPT ![c] = NoIface]
    /\ seen' = [seen EXCEPT ![c] = NoIface]

\* apply_settings has returned to its caller.
ApplyReturns(c) ==
    IF op[c] = "connect"
    THEN /\ pc' = [pc EXCEPT ![c] = "activate"]
         /\ UNCHANGED <<op, cfg, iface, seen>>
    ELSE Reply(c)

\* Under the lock of a handle: the thread it names, if any, is told to stop.
CancelOld_Lost(handle) == cancelled
CancelOld(handle) == cancelled \union ({handle} \ {NoLoop})

\* Deleting a link takes the routes through it along.
Flush(i) ==
    /\ kroute' = [ip \in Ips |-> IF kroute[ip] = i THEN "none" ELSE kroute[ip]]
    /\ left' = {ip \in left : kroute[ip] # i}

(***************************************************************************)
(* Request::SetSplitTunneling; also the call main makes at start-up.       *)
(***************************************************************************)
SetSplitTunneling(c, s) ==
    /\ Goto(c, "idle", IF s.enabled THEN "enable" ELSE "stopMonitor")
    /\ op' = [op EXCEPT ![c] = "set"]
    /\ cfg' = [cfg EXCEPT ![c] = s]
    /\ UNCHANGED <<iface, seen, sessionVars, settings, slotVars, cgVars,
                   monVars, hostVars, nft, procVars, dnsVars>>

(***************************************************************************)
(* Request::ConnectTunnel up to a successful wg_manager.connect: refused   *)
(* while the active tunnel still has its interface, replaces an interface  *)
(* of the same name, and can succeed only while no other tunnel holds the  *)
(* default route of the VPN table.                                         *)
(***************************************************************************)
ConnectTunnel(c, i) ==
    /\ Goto(c, "idle", "setIface")
    /\ active = NoIface \/ tunnel # active
    /\ tunnel \in {NoIface, i}
    /\ op' = [op EXCEPT ![c] = "connect"]
    /\ iface' = [iface EXCEPT ![c] = i]
    /\ active' = NoIface
    /\ tunnel' = i
    /\ Flush(i)
    /\ UNCHANGED <<cfg, seen, settings, slotVars, cgVars, monVars,
                   vpnIface, current, nft, procVars, dnsVars>>

\* ConnectTunnel when wg_manager.connect fails.  What it had forgotten of the
\* active tunnel, and the interface it had replaced, do not come back.
ConnectFails(c, i) ==
    /\ pc[c] = "idle"
    /\ active = NoIface \/ tunnel # active
    /\ "wg" \in Faults \/ tunnel \notin {NoIface, i}
    /\ active' = NoIface
    /\ tunnel' = IF tunnel = i THEN NoIface ELSE tunnel
    /\ Flush(i)
    /\ UNCHANGED <<clientVars, settings, slotVars, cgVars, monVars, vpnIface,
                   current, nft, procVars, dnsVars>>

\* Request::DisconnectTunnel: reads the active tunnel and works on the copy.
DisconnectTunnel(c) ==
    /\ active # NoIface
    /\ Goto(c, "idle", "stopMonitor")
    /\ op' = [op EXCEPT ![c] = "disconnect"]
    /\ iface' = [iface EXCEPT ![c] = active]
    /\ UNCHANGED <<cfg, seen, sessionVars, settings, slotVars, cgVars,
                   monVars, hostVars, nft, procVars, dnsVars>>

(***************************************************************************)
(* apply_settings with settings.enabled.                                   *)
(***************************************************************************)
CgroupEnable(c) ==
    /\ pc[c] = "enable"
    /\ \/ /\ pc' = [pc EXCEPT ![c] = "scan"]
          /\ cgDir' = TRUE
          /\ cgEnabled' = TRUE
          /\ UNCHANGED <<op, cfg, iface, seen, cgProcs>>
       \/ /\ "cgroup" \in Faults          \* enable()? returns the error
          /\ ApplyReturns(c)
          /\ cgDir' \in {cgDir, TRUE}
          /\ UNCHANGED <<cgEnabled, cgProcs>>
    /\ UNCHANGED <<sessionVars, settings, slotVars, monVars, hostVars, nft,
                   procVars, dnsVars>>

\* add_pid is attempted for every process matched; its errors are logged.
ScanProcesses(c) ==
    /\ Step(c, "scan", "startMonitor")
    /\ appPaths' = Listed(cfg[c])
    /\ LET matched == {p \in Pids : exe[p] \in Listed(cfg[c])} IN
       /\ watched' = watched \union matched
       /\ \E added \in SUBSET matched :
             /\ added = matched \/ "pid" \in Faults
             /\ cgProcs' = IF cgEnabled THEN cgProcs \union added ELSE cgProcs
    /\ UNCHANGED <<exe, cgEnabled, cgDir, sessionVars, settings, slotVars,
                   hostVars, nft, procVars, dnsVars>>

StartProcessMonitor_CancelsNew(c) ==
    /\ Step(c, "startMonitor", "readIface")
    /\ \E l \in ProcLoops :
          /\ procPc[l] = "free"
          /\ procPc' = [procPc EXCEPT ![l] = "tick"]
          /\ procHandle' = l
    /\ cancelled' = CancelOld(procHandle')
    /\ UNCHANGED <<dnsHandle, procTodo, procPid, sessionVars, settings, cgVars,
                   monVars, hostVars, nft, dnsVars>>

StartProcessMonitor(c) ==
    /\ Step(c, "startMonitor", "readIface")
    /\ \E l \in ProcLoops :
          /\ procPc[l] = "free"
          /\ procPc' = [procPc EXCEPT ![l] = "tick"]
          /\ procHandle' = l
    /\ cancelled' = CancelOld(procHandle)
    /\ UNCHANGED <<dnsHandle, procTodo, procPid, sessionVars, settings, cgVars,
                   monVars, hostVars, nft, dnsVars>>

\* The interface is cloned under the read lock and used after its release.
ReadIface(c) ==
    /\ Goto(c, "readIface",
            IF ~cfg[c].enabled     THEN "setupFull" ELSE
            IF vpnIface # NoIface  THEN "setupBase" ELSE "startDns")
    /\ seen' = [seen EXCEPT ![c] = vpnIface]
    /\ UNCHANGED <<op, cfg, iface, sessionVars, settings, slotVars, cgVars,
                   monVars, hostVars, nft, procVars, dnsVars>>

\* setup_base: the table is deleted, then loaded.  nft looks the cgroup path
\* up when it loads the ruleset.  A failure is logged and leaves no table.
SetupBase(c) ==
    /\ Step(c, "setupBase", "startDns")
    /\ \/ cgDir /\ nft' = Base(seen[c])
       \/ (~cgDir \/ "nft" \in Faults) /\ nft' = NoTable
    /\ UNCHANGED <<sessionVars, settings, slotVars, cgVars, monVars, hostVars,
                   procVars, dnsVars>>

\* A DNS loop is started only for a non-empty list; a loop that resolves an
\* earlier list is cancelled only by its successor.
StartDnsLoop(c) ==
    /\ Step(c, "startDns", "store")
    /\ IF HasDomains(cfg[c])
       THEN /\ \E l \in DnsLoops :
                  /\ dnsPc[l] = "free"
                  /\ dnsPc' = [dnsPc EXCEPT ![l] = "vpn"]
                  /\ dnsJob' = [dnsJob EXCEPT ![l] = cfg[c].domains]
                  /\ dnsHandle' = l
            /\ cancelled' = CancelOld(dnsHandle)
       ELSE UNCHANGED <<dnsPc, dnsJob, dnsHandle, cancelled>>
    /\ UNCHANGED <<procHandle, dnsFound, sessionVars, settings, cgVars,
                   monVars, hostVars, nft, procVars>>

StoreSettings(c) ==
    /\ pc[c] = "store"
    /\ settings' = cfg[c]
    /\ ApplyReturns(c)
    /\ UNCHANGED <<sessionVars, slotVars, cgVars, monVars, hostVars, nft,
                   procVars, dnsVars>>

(***************************************************************************)
(* disable and on_tunnel_disconnected.  They share their first two blocks  *)
(* and then release the same resources in different orders.                *)
(***************************************************************************)
StopProcessMonitor(c) ==
    /\ Step(c, "stopMonitor", "stopDns")
    /\ cancelled' = CancelOld(procHandle)
    /\ procHandle' = NoLoop
    /\ UNCHANGED <<dnsHandle, sessionVars, settings, cgVars, monVars, hostVars,
                   nft, procVars, dnsVars>>

StopDnsLoop(c) ==
    /\ Step(c, "stopDns",
            IF op[c] = "disconnect" THEN "teardown" ELSE "cgroupOff")
    /\ cancelled' = CancelOld(dnsHandle)
    /\ dnsHandle' = NoLoop
    /\ UNCHANGED <<procHandle, sessionVars, settings, cgVars, monVars, hostVars,
                   nft, procVars, dnsVars>>

Teardown(c) ==
    /\ Step(c, "teardown", "cgroupOff")
    /\ nft' = NoTable
    /\ UNCHANGED <<sessionVars, settings, slotVars, cgVars, monVars, hostVars,
                   procVars, dnsVars>>

CgroupDisable_StillEnabled(c) ==
    /\ Step(c, "cgroupOff",
            IF op[c] = "disconnect" THEN "clearIface" ELSE "clearRoutes")
    /\ cgDir' = (cgDir /\ (cgEnabled => cgProcs # {}))
    /\ UNCHANGED <<cgEnabled, cgProcs, sessionVars, settings, slotVars, monVars,
                   hostVars, nft, procVars, dnsVars>>

\* rmdir fails, unnoticed, while processes are left in the cgroup.
CgroupDisable(c) ==
    /\ Step(c, "cgroupOff",
            IF op[c] = "disconnect" THEN "clearIface" ELSE "clearRoutes")
    /\ cgEnabled' = FALSE
    /\ cgDir' = (cgDir /\ (cgEnabled => cgProcs # {}))
    /\ UNCHANGED <<cgProcs, sessionVars, settings, slotVars, monVars, hostVars,
                   nft, procVars, dnsVars>>

ClearAllRoutes_MapOnly ==
    /\ current' = [ip \in Ips |-> "none"]
    /\ UNCHANGED <<kroute, left>>

\* del_host_route for some addresses: it reports success even when ip fails.
\* The route of such an address stays, unknown to the manager from now on.
NotDeleted(ips) == {failed \in SUBSET ips : failed = {} \/ "del" \in Faults}

\* clear_all_routes: ip route del for every address it knows of.
ClearAllRoutes ==
    /\ \E failed \in NotDeleted({ip \in Ips : current[ip] # "none"}) :
          /\ kroute' = [ip \in Ips |->
                          IF current[ip] # "none" /\ ip \notin failed
                          THEN "none" ELSE kroute[ip]]
          /\ left' = left \union {ip \in failed : kroute[ip] # "none"}
    /\ current' = [ip \in Ips |-> "none"]

ClearRoutes(c) ==
    /\ Step(c, "clearRoutes", "readIface")
    /\ ClearAllRoutes
    /\ UNCHANGED <<vpnIface, sessionVars, settings, slotVars, cgVars, monVars,
                   nft, procVars, dnsVars>>

ClearIfaceAndRoutes_KeepsIface(c) ==
    /\ Step(c, "clearIface", "linkDown")
    /\ ClearAllRoutes
    /\ UNCHANGED <<vpnIface, sessionVars, settings, slotVars, cgVars, monVars,
                   nft, procVars, dnsVars>>

ClearIfaceAndRoutes(c) ==
    /\ Step(c, "clearIface", "linkDown")
    /\ vpnIface' = NoIface
    /\ ClearAllRoutes
    /\ UNCHANGED <<sessionVars, settings, slotVars, cgVars, monVars, nft,
                   procVars, dnsVars>>

\* disable: back to the full VPN, or to nothing when no tunnel is up.
SetupFullOrNone(c) ==
    /\ Step(c, "setupFull", "flag")
    /\ \/ seen[c] # NoIface /\ nft' = Full(seen[c])
       \/ (seen[c] = NoIface \/ "nft" \in Faults) /\ nft' = NoTable
    /\ UNCHANGED <<sessionVars, settings, slotVars, cgVars, monVars, hostVars,
                   procVars, dnsVars>>

FlagDisabled(c) ==
    /\ Step(c, "flag", "store")
    /\ settings' = [settings EXCEPT !.enabled = FALSE]
    /\ UNCHANGED <<sessionVars, slotVars, cgVars, monVars, hostVars, nft,
                   procVars, dnsVars>>

(***************************************************************************)
(* on_tunnel_connected, and the end of ConnectTunnel.                      *)
(***************************************************************************)
SetIface(c) ==
    /\ Step(c, "setIface", "readSettings")
    /\ vpnIface' = iface[c]
    /\ UNCHANGED <<current, kroute, left, sessionVars, settings, slotVars,
                   cgVars, monVars, nft, procVars, dnsVars>>

ReadSettings_NotReapplied(c) ==
    /\ Step(c, "readSettings", "fullVpn")
    /\ UNCHANGED <<sessionVars, settings, slotVars, cgVars, monVars, hostVars,
                   nft, procVars, dnsVars>>

ReadSettings(c) ==
    /\ Goto(c, "readSettings", IF settings.enabled THEN "enable" ELSE "fullVpn")
    /\ cfg' = [cfg EXCEPT ![c] = settings]
    /\ UNCHANGED <<op, iface, seen, sessionVars, settings, slotVars, cgVars,
                   monVars, hostVars, nft, procVars, dnsVars>>

SetupFullVpn(c) ==
    /\ Step(c, "fullVpn", "activate")
    /\ \/ nft' = Full(iface[c])
       \/ "nft" \in Faults /\ nft' = NoTable
    /\ UNCHANGED <<sessionVars, settings, slotVars, cgVars, monVars, hostVars,
                   procVars, dnsVars>>

Activate(c) ==
    /\ pc[c] = "activate"
    /\ active' = iface[c]
    /\ Reply(c)
    /\ UNCHANGED <<tunnel, settings, slotVars, cgVars, monVars, hostVars, nft,
                   procVars, dnsVars>>

\* wg_manager.disconnect and the end of DisconnectTunnel.  An interface that
\* is already gone counts as disconnected.
LinkDown(c) ==
    /\ pc[c] = "linkDown"
    /\ \/ /\ tunnel' = IF tunnel = iface[c] THEN NoIface ELSE tunnel
          /\ Flush(iface[c])
          /\ active' = NoIface
       \/ /\ "wg" \in Faults /\ tunnel = iface[c]
          /\ Flush(iface[c]) \/ UNCHANGED <<kroute, left>>
          /\ UNCHANGED <<tunnel, active>>
    /\ Reply(c)
    /\ UNCHANGED <<vpnIface, current, settings, slotVars, cgVars, monVars, nft,
                   procVars, dnsVars>>

(***************************************************************************)
(* start_process_monitor_loop.  The flag is read once per tick; a scan of  *)
(* /proc, once begun, runs to its end.  The monitor lock is released and   *)
(* taken again between the three steps on an entry.                        *)
(***************************************************************************)
NextEntry(l, rest) ==
    procPc' = [procPc EXCEPT ![l] = IF rest = {} THEN "tick" ELSE "scan"]

ProcTick(l) ==
    /\ procPc[l] = "tick"
    /\ IF l \in cancelled
       THEN /\ procPc' = [procPc EXCEPT ![l] = "free"]
            /\ cancelled' = cancelled \ {l}
            /\ UNCHANGED procTodo
       ELSE LET entries == {p \in Pids : exe[p] # NoApp} IN
            /\ procTodo' = [procTodo EXCEPT ![l] = entries]
            /\ NextEntry(l, entries)
            /\ UNCHANGED cancelled
    /\ UNCHANGED <<procPid, procHandle, dnsHandle, clientVars, sessionVars,
                   settings, cgVars, monVars, hostVars, nft, dnsVars>>

ProcIsWatched(l) ==
    /\ procPc[l] = "scan"
    /\ \E p \in procTodo[l] :
          /\ procTodo' = [procTodo EXCEPT ![l] = @ \ {p}]
          /\ IF p \in watched
             THEN /\ NextEntry(l, procTodo[l] \ {p})
                  /\ UNCHANGED procPid
             ELSE /\ procPc' = [procPc EXCEPT ![l] = "match"]
                  /\ procPid' = [procPid EXCEPT ![l] = {p}]
    /\ UNCHANGED <<clientVars, sessionVars, settings, slotVars, cgVars, monVars,
                   hostVars, nft, dnsVars>>

ProcMatch(l) ==
    /\ procPc[l] = "match"
    /\ IF \E p \in procPid[l] : exe[p] \in appPaths
       THEN procPc' = [procPc EXCEPT ![l] = "add"] /\ UNCHANGED procPid
       ELSE /\ NextEntry(l, procTodo[l])
            /\ procPid' = [procPid EXCEPT ![l] = {}]
    /\ UNCHANGED <<procTodo, clientVars, sessionVars, settings, slotVars,
                   cgVars, monVars, hostVars, nft, dnsVars>>

ProcAdd_EvenDisabled(l) ==
    /\ procPc[l] = "add"
    /\ \/ /\ \A p \in procPid[l] : exe[p] # NoApp
          /\ cgProcs' = cgProcs \union procPid[l]
          /\ procPc' = [procPc EXCEPT ![l] = "record"]
          /\ UNCHANGED procPid
       \/ /\ "pid" \in Faults \/ \E p \in procPid[l] : exe[p] = NoApp
          /\ NextEntry(l, procTodo[l])
          /\ procPid' = [procPid EXCEPT ![l] = {}]
          /\ UNCHANGED cgProcs
    /\ UNCHANGED <<procTodo, cgEnabled, cgDir, clientVars, sessionVars,
                   settings, slotVars, monVars, hostVars, nft, dnsVars>>

\* Under the cgroup lock: is_enabled, then add_pid.
ProcAdd(l) ==
    /\ procPc[l] = "add"
    /\ \/ /\ cgEnabled
          /\ \A p \in procPid[l] : exe[p] # NoApp
          /\ cgProcs' = cgProcs \union procPid[l]
          /\ procPc' = [procPc EXCEPT ![l] = "record"]
          /\ UNCHANGED procPid
       \/ /\ ~cgEnabled \/ "pid" \in Faults \/ \E p \in procPid[l] : exe[p] = NoApp
          /\ NextEntry(l, procTodo[l])
          /\ procPid' = [procPid EXCEPT ![l] = {}]
          /\ UNCHANGED cgProcs
    /\ UNCHANGED <<procTodo, cgEnabled, cgDir, clientVars, sessionVars,
                   settings, slotVars, monVars, hostVars, nft, dnsVars>>

ProcRecord(l) ==
    /\ procPc[l] = "record"
    /\ watched' = watched \union procPid[l]
    /\ NextEntry(l, procTodo[l])
    /\ procPid' = [procPid EXCEPT ![l] = {}]
    /\ UNCHANGED <<procTodo, appPaths, exe, clientVars, sessionVars, settings,
                   slotVars, cgVars, hostVars, nft, dnsVars>>

(***************************************************************************)
(* The thread of start_dns_loop.  The flag is read after each await except *)
(* the one that waits for the write lock of host_routes.  A thread that    *)
(* finds it set ends here; in the code it may first sleep one more slice.  *)
(***************************************************************************)
DnsEnd(l) ==
    /\ dnsPc' = [dnsPc EXCEPT ![l] = "free"]
    /\ dnsJob' = [dnsJob EXCEPT ![l] = NoJob]
    /\ dnsFound' = [dnsFound EXCEPT ![l] = Nothing]
    /\ cancelled' = cancelled \ {l}

\* resolve_all over one of the two lists; a name that failed twice has no
\* addresses.
Resolve(l, dir) ==
    \E ans \in [dnsJob[l][dir] -> SUBSET Ips] :
        /\ \A d \in dnsJob[l][dir] : ans[d] \in Answers[d]
        /\ dnsFound' = [dnsFound EXCEPT ![l] =
               [k \in Dirs \X Domains |->
                  IF k[1] = dir /\ k[2] \in dnsJob[l][dir]
                  THEN ans[k[2]] ELSE dnsFound[l][k]]]

DnsResolveVpn(l) ==
    /\ dnsPc[l] = "vpn"
    /\ IF l \in cancelled
       THEN DnsEnd(l)
       ELSE /\ Resolve(l, "vpn")
            /\ dnsPc' = [dnsPc EXCEPT ![l] = "direct"]
            /\ UNCHANGED <<dnsJob, cancelled>>
    /\ UNCHANGED <<procHandle, dnsHandle, clientVars, sessionVars, settings,
                   cgVars, monVars, hostVars, nft, procVars>>

Complete_Unchecked(job, found) == TRUE

\* all_ok: every name of both lists has an address.
Complete(job, found) ==
    \A k \in Dirs : \A d \in job[k] : found[<<k, d>>] # {}

DnsResolveDirect(l) ==
    /\ dnsPc[l] = "direct"
    /\ IF l \in cancelled
       THEN DnsEnd(l)
       ELSE /\ Resolve(l, "direct")
            /\ dnsPc' = [dnsPc EXCEPT ![l] =
                   IF Complete(dnsJob[l], dnsFound'[l]) THEN "update" ELSE "sleep"]
            /\ UNCHANGED <<dnsJob, cancelled>>
    /\ UNCHANGED <<procHandle, dnsHandle, clientVars, sessionVars, settings,
                   cgVars, monVars, hostVars, nft, procVars>>

(***************************************************************************)
(* update_routes.  The map is visited in any order: the last key that      *)
(* names an address decides its label, and for an address that is new the  *)
(* last route command that succeeded decides label and kernel route.       *)
(***************************************************************************)
DirsOf(ip, found) == {k \in Dirs : \E d \in Domains : ip \in found[<<k, d>>]}

Usable_Always(k) == TRUE

\* A direction whose route command can be issued, and succeed.
Usable(k) == k = "direct" \/ (vpnIface # NoIface /\ tunnel = vpnIface)

Via(k) == IF k = "vpn" THEN vpnIface ELSE "direct"

Labels(ip, found) ==
    LET dirs == DirsOf(ip, found)
        ok   == {k \in dirs : Usable(k)}
    IN  IF current[ip] # "none"
        THEN IF dirs = {} THEN {"none"} ELSE dirs
        ELSE ok \union (IF ok = {} \/ "route" \in Faults THEN {"none"} ELSE {})

\* The addresses it gives up, and deletes if there is an interface.
Stale(new) ==
    {ip \in Ips : vpnIface # NoIface /\ current[ip] # "none" /\ new[ip] = "none"}

UpdateRoutes(found) ==
    \E new \in [Ips -> Dirs \union {"none"}] : \E failed \in NotDeleted(Stale(new)) :
        /\ \A ip \in Ips : new[ip] \in Labels(ip, found)
        /\ current' = new
        /\ kroute' = [ip \in Ips |->
               CASE new[ip] # "none" /\ current[ip] = "none" -> Via(new[ip])
                 [] ip \in Stale(new) \ failed              -> "none"
                 [] OTHER                                    -> kroute[ip]]
        /\ left' = {ip \in left \union failed : new[ip] = "none" /\ kroute[ip] # "none"}

DnsUpdateRoutes(l) ==
    /\ dnsPc[l] = "update"
    /\ UpdateRoutes(dnsFound[l])
    /\ dnsPc' = [dnsPc EXCEPT ![l] = "sleep"]
    /\ UNCHANGED <<dnsJob, dnsFound, vpnIface, slotVars, clientVars,
                   sessionVars, settings, cgVars, monVars, nft, procVars>>

DnsWake_Unchecked(l) ==
    /\ dnsPc[l] = "sleep"
    /\ dnsPc' = [dnsPc EXCEPT ![l] = "vpn"]
    /\ dnsFound' = [dnsFound EXCEPT ![l] = Nothing]
    /\ UNCHANGED <<dnsJob, slotVars, clientVars, sessionVars, settings, cgVars,
                   monVars, hostVars, nft, procVars>>

\* Sleeps in slices of a second until the interval is over.
DnsWake(l) ==
    /\ dnsPc[l] = "sleep"
    /\ IF l \in cancelled
       THEN DnsEnd(l)
       ELSE /\ dnsPc' = [dnsPc EXCEPT ![l] = "vpn"]
            /\ dnsFound' = [dnsFound EXCEPT ![l] = Nothing]
            /\ UNCHANGED <<dnsJob, cancelled>>
    /\ UNCHANGED <<procHandle, dnsHandle, clientVars, sessionVars, settings,
                   cgVars, monVars, hostVars, nft, procVars>>

(***************************************************************************)
(* The environment: processes come and go, pids are reused, and the        *)
(* interface can be deleted by someone else.                               *)
(***************************************************************************)

\* A pid starts running an executable, by fork and exec (a child is born in
\* the cgroup of its parent) or by exec alone.
ProcessRuns(p, a) ==
    /\ exe[p] # a
    /\ exe' = [exe EXCEPT ![p] = a]
    /\ \/ UNCHANGED cgProcs
       \/ exe[p] = NoApp /\ cgProcs # {} /\ cgProcs' = cgProcs \union {p}
    /\ UNCHANGED <<appPaths, watched, cgEnabled, cgDir, clientVars, sessionVars,
                   settings, slotVars, hostVars, nft, procVars, dnsVars>>

ProcessExits(p) ==
    /\ exe[p] # NoApp
    /\ exe' = [exe EXCEPT ![p] = NoApp]
    /\ cgProcs' = cgProcs \ {p}
    /\ UNCHANGED <<appPaths, watched, cgEnabled, cgDir, clientVars, sessionVars,
                   settings, slotVars, hostVars, nft, procVars, dnsVars>>

LinkLost ==
    /\ "link" \in Faults
    /\ tunnel # NoIface
    /\ tunnel' = NoIface
    /\ Flush(tunnel)
    /\ UNCHANGED <<active, vpnIface, current, clientVars, settings, slotVars,
                   cgVars, monVars, nft, procVars, dnsVars>>

-----------------------------------------------------------------------------

\* What an IPC thread does once it has taken up a request.
Serve(c) ==
    \/ CgroupEnable(c) \/ ScanProcesses(c) \/ StartProcessMonitor(c)
    \/ ReadIface(c) \/ SetupBase(c) \/ StartDnsLoop(c) \/ StoreSettings(c)
    \/ StopProcessMonitor(c) \/ StopDnsLoop(c) \/ Teardown(c)
    \/ CgroupDisable(c) \/ ClearRoutes(c) \/ ClearIfaceAndRoutes(c)
    \/ SetupFullOrNone(c) \/ FlagDisabled(c)
    \/ SetIface(c) \/ ReadSettings(c) \/ SetupFullVpn(c) \/ Activate(c)
    \/ LinkDown(c)

Request(c) ==
    \/ \E s \in Requests : SetSplitTunneling(c, s)
    \/ \E i \in Ifaces : ConnectTunnel(c, i) \/ ConnectFails(c, i)
    \/ DisconnectTunnel(c)

ProcLoop(l) ==
    ProcTick(l) \/ ProcIsWatched(l) \/ ProcMatch(l) \/ ProcAdd(l) \/ ProcRecord(l)

DnsLoop(l) ==
    DnsResolveVpn(l) \/ DnsResolveDirect(l) \/ DnsUpdateRoutes(l) \/ DnsWake(l)

Environment ==
    \/ \E p \in Pids : (\E a \in Apps : ProcessRuns(p, a)) \/ ProcessExits(p)
    \/ LinkLost

Next ==
    \/ \E c \in Clients : Request(c) \/ Serve(c)
    \/ \E l \in ProcLoops : ProcLoop(l)
    \/ \E l \in DnsLoops : DnsLoop(l)
    \/ Environment

Spec == Init /\ [][Next]_vars

\* The operating system runs every thread; nobody has to send a request.
Fairness ==
    /\ \A c \in Clients : WF_vars(Serve(c))
    /\ \A l \in ProcLoops : WF_vars(ProcLoop(l))
    /\ \A l \in DnsLoops : WF_vars(DnsLoop(l))

FairSpec == Spec /\ Fairness

-----------------------------------------------------------------------------

ClientPcs ==
    { "idle", "enable", "scan", "startMonitor", "readIface", "setupBase",
      "startDns", "store", "stopMonitor", "stopDns", "teardown", "cgroupOff",
      "clearRoutes", "clearIface", "setupFull", "flag", "setIface",
      "readSettings", "fullVpn", "activate", "linkDown" }

\* The type of the state (the fields of AppState and SplitTunnelManager).
TypeOK ==
    /\ pc \in [Clients -> ClientPcs]
    /\ op \in [Clients -> {"none", "set", "connect", "disconnect"}]
    /\ cfg \in [Clients -> Settings]
    /\ iface \in [Clients -> Ifaces \union {NoIface}]
    /\ seen \in [Clients -> Ifaces \union {NoIface}]
    /\ active \in Ifaces \union {NoIface}
    /\ tunnel \in Ifaces \union {NoIface}
    /\ settings \in Settings
    /\ procHandle \in ProcLoops \union {NoLoop}
    /\ dnsHandle \in DnsLoops \union {NoLoop}
    /\ cancelled \subseteq ProcLoops \union DnsLoops
    /\ cgEnabled \in BOOLEAN /\ cgDir \in BOOLEAN /\ cgProcs \subseteq Pids
    /\ appPaths \subseteq Apps /\ watched \subseteq Pids
    /\ exe \in [Pids -> Apps \union {NoApp}]
    /\ vpnIface \in Ifaces \union {NoIface}
    /\ current \in [Ips -> Dirs \union {"none"}]
    /\ kroute \in [Ips -> Ifaces \union {"direct", "none"}]
    /\ left \subseteq Ips
    /\ nft \in Tables
    /\ procPc \in [ProcLoops -> {"free", "tick", "scan", "match", "add", "record"}]
    /\ procTodo \in [ProcLoops -> SUBSET Pids]
    /\ procPid \in [ProcLoops -> SUBSET Pids]
    /\ dnsPc \in [DnsLoops -> {"free", "vpn", "direct", "update", "sleep"}]
    /\ dnsJob \in [DnsLoops -> Jobs]
    /\ dnsFound \in [DnsLoops -> Found]

RunningProc == {l \in ProcLoops : procPc[l] # "free"}
RunningDns  == {l \in DnsLoops : dnsPc[l] # "free"}

\* A LoopHandle names a running thread that nobody has cancelled, and every
\* other running thread has been cancelled: whatever requests overlap, the
\* manager never loses a thread it could no longer stop, and never holds the
\* flag of a thread that is gone.
LoopsOwned ==
    /\ procHandle \in RunningProc \union {NoLoop}
    /\ dnsHandle \in RunningDns \union {NoLoop}
    /\ cancelled = (RunningProc \ {procHandle}) \union (RunningDns \ {dnsHandle})

=============================================================================
