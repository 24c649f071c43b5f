------------------------------- MODULE Daemon -------------------------------
(***************************************************************************)
(* The daemon as a whole: what ConnectTunnel, DisconnectTunnel and         *)
(* SetSplitTunneling (ipc.rs) do, one after the other, to the interface    *)
(* and its policy rules, the table inet wgsplit, the cgroup and            *)
(* resolv.conf, with a daemon that dies anywhere and starts over what it   *)
(* left, and what then becomes of a packet.                                *)
(*                                                                         *)
(* An action is a call that WgSession, SplitTunnel or ResolvConf takes     *)
(* apart: wg_manager.connect and disconnect, dns.apply and restore are     *)
(* one step each, and so is every block of the split-tunnel manager.  nft  *)
(* is two, the deletion of the table and the loading of the next.  Of the  *)
(* settings in force the mode is kept, "off" when split tunnelling is not  *)
(* enabled; the process monitor is a listed process, which it moves; names *)
(* and host routes are left out.                                           *)
(*                                                                         *)
(* A definition named X_Something is X with a mistake in it; the runs      *)
(* check that each property notices the mistake it is paired with.         *)
(***************************************************************************)
EXTENDS Naturals

CONSTANTS
    Clients, Main,  \* IPC connection threads; the thread that starts the daemon
    Tunnels,
    WithDns,        \* the tunnels that list DNS servers
    Marks,          \* packet marks are 0 .. Marks - 1
    Fwmark,         \* the mark that is routed into the tunnel
    NoTunnel, Host, Absent,
    Cut,            \* the contents of a file whose writing broke off
    Faults          \* the failures considered, of FaultKinds

FaultKinds ==
    { "wg",         \* a command of connect, disconnect or cleanup_stale fails
      "nft",        \* nft rejects the ruleset
      "cgroup",     \* cgroups v2 is not usable
      "dns",        \* a read or write of resolv.conf or of its backup fails
      "link",       \* the interface is deleted behind the daemon's back
      "crash" }     \* the daemon dies

Threads == Clients \union {Main}

\* The modes of split tunnelling, and "off": not enabled.
Modes == {"off", "exclusive", "inclusive"}

\* WireGuard's own packets carry the next mark, in 32 bits.
WgMark == (Fwmark + 1) % Marks

\* For the largest mark the settings accept WgMark is 0, the mark of every
\* packet: setup_full_vpn then marks none.
ASSUME DaemonConstants ==
    /\ Marks \in Nat /\ Fwmark \in 1 .. Marks - 2
    /\ Main \notin Clients
    /\ NoTunnel \notin Tunnels
    /\ Host \notin Tunnels \union {Absent, Cut}
    /\ Absent \notin Tunnels \union {Cut} /\ Cut \notin Tunnels
    /\ WithDns \subseteq Tunnels
    /\ Faults \subseteq FaultKinds

VARIABLES
    pc, op, iface, on, seen,    \* the threads: where they are, the request, its
                                \* tunnel, the mode it sets, the interface cloned
    serving,                    \* the daemon takes requests
    active,                     \* AppState.active_tunnel
    settings,                   \* SplitTunnelManager.settings: their mode, or "off"
    vpnIface,                   \* HostRoutesManager.vpn_iface
    cgEnabled, cgDir, captured, \* the cgroup; a listed process is in it
    links, table,               \* the interfaces; whose routes are in the VPN table
    rules,                      \* the policy rules are there, or some of them
    nft,                        \* table inet wgsplit
    resolv, backup, original,   \* whose servers: resolv.conf, its backup, the copy
    entry,                      \* /etc/resolv.conf is a "file", a "link", or "gone"
    \* history: failures and overlaps since the last connect made alone, "kept"
    \* when an interface stayed that the daemon does not count as connected;
    \* something that can leave a tunnel's servers behind has happened
    recent, dnsRisk

threadVars == <<pc, op, iface, on, seen>>
cgVars     == <<cgEnabled, cgDir, captured>>
wgVars     == <<links, table, rules>>
dnsVars    == <<resolv, backup, original, entry>>
history    == <<recent, dnsRisk>>
vars == <<threadVars, serving, active, settings, vpnIface, cgVars, wgVars, nft,
          dnsVars, history>>

NoTable == [kind |-> "none", iface |-> NoTunnel]

Init ==
    /\ pc = [c \in Threads |-> IF c = Main THEN "down" ELSE "idle"]
    /\ op = [c \in Threads |-> "none"]
    /\ iface = [c \in Threads |-> NoTunnel]
    /\ on = [c \in Threads |-> "off"]
    /\ seen = [c \in Threads |-> NoTunnel]
    /\ serving = FALSE
    /\ active = NoTunnel /\ settings = "off" /\ vpnIface = NoTunnel
    /\ cgEnabled = FALSE /\ cgDir = FALSE /\ captured = FALSE
    /\ links = {} /\ table = NoTunnel /\ rules = FALSE /\ nft = NoTable
    /\ resolv = Host /\ backup = Absent /\ original = Absent
    /\ entry \in {"file", "link"}
    /\ recent = {} /\ dnsRisk = FALSE

-----------------------------------------------------------------------------

Goto(c, to) ==
    /\ pc' = [pc EXCEPT ![c] = to]
    /\ UNCHANGED <<op, iface, on, seen>>

Clear(c) ==
    /\ op' = [op EXCEPT ![c] = "none"]
    /\ iface' = [iface EXCEPT ![c] = NoTunnel]
    /\ on' = [on EXCEPT ![c] = "off"]
    /\ seen' = [seen EXCEPT ![c] = NoTunnel]

Reply(c) == pc' = [pc EXCEPT ![c] = "idle"] /\ Clear(c)

\* apply_settings returns: to on_tunnel_connected, to main, or to the client.
Return(c) ==
    CASE op[c] = "connect" -> Goto(c, "dnsApply")
      [] op[c] = "start"   -> Goto(c, "cleanup")
      [] OTHER             -> Reply(c)

Idle == \A c \in Clients : pc[c] = "idle"

Begin(c, what, to, t, mode) ==
    /\ serving /\ pc[c] = "idle"
    /\ pc' = [pc EXCEPT ![c] = to]
    /\ op' = [op EXCEPT ![c] = what]
    /\ iface' = [iface EXCEPT ![c] = t]
    /\ on' = [on EXCEPT ![c] = mode]
    /\ UNCHANGED seen

\* After an overlap nothing else needs to be remembered.
Recently(kind) ==
    recent' = IF recent = {"overlap"} \/ kind = "overlap" THEN {"overlap"}
              ELSE recent \union {kind}

Harm(kind) == Recently(kind) /\ UNCHANGED dnsRisk

\* A request begins: on its own, or while others are at work.
Overlap ==
    IF Idle THEN UNCHANGED history ELSE Recently("overlap") /\ dnsRisk' = TRUE

-----------------------------------------------------------------------------
\* ConnectTunnel

\* ip link show, which is to say whether the interface of the tunnel that was
\* active is still there, may fail and seem to deny it.
ConnectTunnel(c, t) ==
    /\ active \in links => "wg" \in Faults
    /\ Begin(c, "connect", "wgConnect", t, "off")
    /\ active' = NoTunnel
    /\ IF active \in links /\ Idle THEN Recently("kept") /\ dnsRisk' = TRUE ELSE Overlap
    /\ UNCHANGED <<serving, settings, vpnIface, cgVars, wgVars, nft, dnsVars>>

\* wg_manager.connect replaces an interface of the same name, and finds the
\* default route of the table free and none of its rules there already.
Fits(t) == table \in {NoTunnel, t} /\ (t \in links \/ ~rules)

WgConnect(c) ==
    /\ pc[c] = "wgConnect" /\ Fits(iface[c])
    /\ links' = links \union {iface[c]} /\ table' = iface[c] /\ rules' = TRUE
    /\ Goto(c, "setIface")
    /\ recent' = IF active = NoTunnel /\ \A d \in Clients \ {c} : pc[d] = "idle"
                 THEN {} ELSE recent
    /\ UNCHANGED <<serving, active, settings, vpnIface, cgVars, nft, dnsVars, dnsRisk>>

\* If they are not free it removes what it added, the rules of others included.
WgConnectRefused(c) ==
    /\ pc[c] = "wgConnect" /\ ~Fits(iface[c])
    /\ links' = links \ {iface[c]} /\ rules' = FALSE
    /\ Reply(c)
    /\ UNCHANGED <<serving, active, settings, vpnIface, cgVars, table, nft, dnsVars,
                   history>>

\* Another failure, answered with a clean-up whose own failures are ignored: it
\* may leave rules, and the interface with its routes.  A failure of the first
\* command leaves the rules of others.
WgConnectFails(c) ==
    /\ pc[c] = "wgConnect" /\ "wg" \in Faults
    /\ \E kept \in BOOLEAN :
        /\ links' = IF kept THEN links \union {iface[c]} ELSE links \ {iface[c]}
        /\ table' \in IF table \notin {NoTunnel, iface[c]} THEN {table}
                      ELSE IF kept THEN {NoTunnel, iface[c]} ELSE {NoTunnel}
        /\ Harm(IF kept THEN "kept" ELSE "wg")
    /\ rules' \in IF table \in {NoTunnel, iface[c]} THEN BOOLEAN ELSE {FALSE, rules}
    /\ Reply(c)
    /\ UNCHANGED <<serving, active, settings, vpnIface, cgVars, nft, dnsVars>>

SetIface(c) ==
    /\ pc[c] = "setIface"
    /\ vpnIface' = iface[c]
    /\ Goto(c, "readSettings")
    /\ UNCHANGED <<serving, active, settings, cgVars, wgVars, nft, dnsVars, history>>

ReadSettings_NotReapplied(c) ==
    /\ pc[c] = "readSettings"
    /\ pc' = [pc EXCEPT ![c] = IF settings # "off" THEN "dnsApply" ELSE "tableOff"]
    /\ on' = [on EXCEPT ![c] = settings]
    /\ seen' = [seen EXCEPT ![c] = iface[c]]
    /\ UNCHANGED <<op, iface>>
    /\ UNCHANGED <<serving, active, settings, vpnIface, cgVars, wgVars, nft,
                   dnsVars, history>>

\* on_tunnel_connected applies enabled settings again, and otherwise loads the
\* table that marks everything.
ReadSettings(c) ==
    /\ pc[c] = "readSettings"
    /\ pc' = [pc EXCEPT ![c] = IF settings # "off" THEN "cgroupOn" ELSE "tableOff"]
    /\ on' = [on EXCEPT ![c] = settings]
    /\ seen' = [seen EXCEPT ![c] = iface[c]]
    /\ UNCHANGED <<op, iface>>
    /\ UNCHANGED <<serving, active, settings, vpnIface, cgVars, wgVars, nft,
                   dnsVars, history>>

\* remove_file and fs::write.  A symbolic link is removed like a file, and its
\* target written: then nothing is left at /etc/resolv.conf.
Write(content) ==
    IF entry = "link" THEN resolv' = Absent /\ entry' = "gone"
                      ELSE resolv' = content /\ entry' = "file"

\* A removal or write that fails: the removal alone may have worked, or nothing,
\* the write may break off, or go through a link that could not be removed.
WriteFails(content) ==
    /\ resolv' \in {resolv, Absent, Cut} \union content
    /\ entry' = IF resolv' = Absent THEN "gone"
                ELSE IF entry = "link" THEN "link" ELSE "file"
    /\ dnsRisk' = TRUE

DnsApply_NoCheck(c) ==
    /\ pc[c] = "dnsApply"
    /\ original' = IF original = Absent THEN resolv ELSE original
    /\ backup' = IF original' = Absent THEN backup ELSE original'
    /\ Write(iface[c])
    /\ Goto(c, "activate")
    /\ UNCHANGED <<serving, active, settings, vpnIface, cgVars, wgVars, nft, history>>

\* A tunnel without DNS servers leaves resolv.conf alone.
DnsApply(c) ==
    /\ pc[c] = "dnsApply"
    /\ IF iface[c] \in WithDns
       THEN /\ original' = IF original = Absent THEN resolv ELSE original
            /\ backup' = IF original' = Absent THEN backup ELSE original'
            /\ Write(iface[c])
       ELSE UNCHANGED dnsVars
    /\ Goto(c, "activate")
    /\ UNCHANGED <<serving, active, settings, vpnIface, cgVars, wgVars, nft, history>>

\* Failures are logged, and ConnectTunnel goes on.  What a crash inside apply
\* leaves is among what its failures leave, and so for restore.
DnsApplyFails(c) ==
    /\ pc[c] = "dnsApply" /\ "dns" \in Faults /\ iface[c] \in WithDns
    /\ original' \in IF original = Absent THEN {resolv, Absent} ELSE {original}
    /\ backup' \in {backup} \union IF original' = Absent THEN {} ELSE {original', Cut}
    /\ WriteFails({iface[c]})
    /\ Goto(c, "activate")
    /\ UNCHANGED <<serving, active, settings, vpnIface, cgVars, wgVars, nft, recent>>

Activate(c) ==
    /\ pc[c] = "activate"
    /\ active' = iface[c]
    /\ Reply(c)
    /\ UNCHANGED <<serving, settings, vpnIface, cgVars, wgVars, nft, dnsVars, history>>

-----------------------------------------------------------------------------
\* SetSplitTunneling: apply_settings and disable

SetSplitTunneling(c, mode) ==
    /\ Begin(c, "set", IF mode # "off" THEN "cgroupOn" ELSE "cgroupOff", NoTunnel, mode)
    /\ Overlap
    /\ UNCHANGED <<serving, active, settings, vpnIface, cgVars, wgVars, nft, dnsVars>>

CgroupOn(c) ==
    /\ pc[c] = "cgroupOn"
    /\ \/ /\ cgEnabled' = TRUE /\ cgDir' = TRUE
          /\ Goto(c, "readIface")
          /\ UNCHANGED <<captured, history>>
       \/ /\ "cgroup" \in Faults
          /\ Return(c) /\ Harm("split")
          /\ UNCHANGED cgVars
    /\ UNCHANGED <<serving, active, settings, vpnIface, wgVars, nft, dnsVars>>

\* rmdir fails, unnoticed, while a process is in the cgroup.
CgroupOff(c) ==
    /\ pc[c] = "cgroupOff"
    /\ cgEnabled' = FALSE
    /\ cgDir' = (cgDir /\ (cgEnabled => captured))
    /\ Goto(c, IF op[c] = "disconnect" THEN "clearIface" ELSE "readIface")
    /\ UNCHANGED <<serving, active, settings, vpnIface, captured, wgVars, nft,
                   dnsVars, history>>

\* The interface is cloned here and used later.  Without one apply_settings
\* leaves the table alone and disable deletes it.
ReadIface(c) ==
    /\ pc[c] = "readIface"
    /\ seen' = [seen EXCEPT ![c] = vpnIface]
    /\ pc' = [pc EXCEPT ![c] =
                 IF on[c] # "off" /\ vpnIface = NoTunnel THEN "store" ELSE "tableOff"]
    /\ UNCHANGED <<op, iface, on>>
    /\ UNCHANGED <<serving, active, settings, vpnIface, cgVars, wgVars, nft,
                   dnsVars, history>>

AfterTable(c) ==
    CASE op[c] = "disconnect"                -> "cgroupOff"
      [] op[c] = "connect" /\ on[c] = "off" -> "dnsApply"
      [] op[c] = "set" /\ on[c] = "off"     -> "flag"
      [] OTHER                               -> "store"

TableOff_NoReload(c) ==
    /\ pc[c] = "tableOff"
    /\ \A d \in Threads : pc[d] # "tableOn"
    /\ nft' = NoTable
    /\ Goto(c, IF seen[c] = NoTunnel \/ (op[c] = "set" /\ on[c] = "off")
               THEN AfterTable(c) ELSE "tableOn")
    /\ UNCHANGED <<serving, active, settings, vpnIface, cgVars, wgVars, dnsVars, history>>

\* teardown, under the lock of the nftables manager, which setup_base and
\* setup_full_vpn keep until they have loaded their table.
TableOff(c) ==
    /\ pc[c] = "tableOff"
    /\ \A d \in Threads : pc[d] # "tableOn"
    /\ nft' = NoTable
    /\ Goto(c, IF seen[c] = NoTunnel THEN AfterTable(c) ELSE "tableOn")
    /\ UNCHANGED <<serving, active, settings, vpnIface, cgVars, wgVars, dnsVars, history>>

\* A table that names a cgroup which is not there is not loaded.
TableOn(c) ==
    LET kind == IF on[c] # "off" THEN "base" ELSE "full"
        loaded == [kind |-> kind, iface |-> seen[c]] IN
    /\ pc[c] = "tableOn"
    /\ \/ /\ nft' = IF on[c] # "off" /\ ~cgDir THEN NoTable ELSE loaded
          /\ UNCHANGED history
       \/ "nft" \in Faults /\ nft' = NoTable /\ Harm("split")
    /\ Goto(c, AfterTable(c))
    /\ UNCHANGED <<serving, active, settings, vpnIface, cgVars, wgVars, dnsVars>>

\* The end of disable, before apply_settings stores what it was given.
FlagDisabled(c) ==
    /\ pc[c] = "flag"
    /\ settings' = "off"
    /\ Goto(c, "store")
    /\ UNCHANGED <<serving, active, vpnIface, cgVars, wgVars, nft, dnsVars, history>>

StoreSettings(c) ==
    /\ pc[c] = "store"
    /\ settings' = on[c]
    /\ Return(c)
    /\ UNCHANGED <<serving, active, vpnIface, cgVars, wgVars, nft, dnsVars, history>>

-----------------------------------------------------------------------------
\* DisconnectTunnel: on_tunnel_disconnected, dns.restore, wg_manager.disconnect

DisconnectTunnel(c) ==
    /\ active # NoTunnel
    /\ Begin(c, "disconnect", "tableOff", active, "off")
    /\ Overlap
    /\ UNCHANGED <<serving, active, settings, vpnIface, cgVars, wgVars, nft, dnsVars>>

ClearIface(c) ==
    /\ pc[c] = "clearIface"
    /\ vpnIface' = NoTunnel
    /\ Goto(c, "dnsRestore")
    /\ UNCHANGED <<serving, active, settings, cgVars, wgVars, nft, dnsVars, history>>

DnsRestore_NoCheck(c) ==
    /\ pc[c] = "dnsRestore"
    /\ Write(backup)
    /\ backup' = Absent /\ original' = Absent
    /\ Goto(c, "wgDisconnect")
    /\ UNCHANGED <<serving, active, settings, vpnIface, cgVars, wgVars, nft, history>>

\* Without a backup resolv.conf is left as it is.
DnsRestore(c) ==
    /\ pc[c] = "dnsRestore"
    /\ IF backup = Absent THEN UNCHANGED <<resolv, entry>> ELSE Write(backup)
    /\ backup' = Absent /\ original' = Absent
    /\ Goto(c, "wgDisconnect")
    /\ UNCHANGED <<serving, active, settings, vpnIface, cgVars, wgVars, nft, history>>

\* The backup is not read, or resolv.conf not written, or the backup not removed.
DnsRestoreFails(c) ==
    /\ pc[c] = "dnsRestore" /\ "dns" \in Faults /\ backup # Absent
    /\ \/ WriteFails({}) /\ UNCHANGED original
       \/ Write(backup) /\ original' = Absent /\ dnsRisk' = TRUE
    /\ Goto(c, "wgDisconnect")
    /\ UNCHANGED <<serving, active, settings, vpnIface, cgVars, wgVars, nft, backup,
                   recent>>

Removed(t) == links' = links \ {t} /\ table' = IF table = t THEN NoTunnel ELSE table

\* disconnect ignores a failing ip rule del, which leaves the rule.
WgDisconnect(c) ==
    /\ pc[c] = "wgDisconnect"
    /\ IF iface[c] \in links
       THEN /\ Removed(iface[c])
            /\ rules' = FALSE \/ ("wg" \in Faults /\ UNCHANGED rules)
       ELSE UNCHANGED wgVars
    /\ Goto(c, "deactivate")
    /\ UNCHANGED <<serving, active, settings, vpnIface, cgVars, nft, dnsVars, history>>

\* ip link show fails: to the code the interface does not exist.
WgDisconnectSkips(c) ==
    /\ pc[c] = "wgDisconnect" /\ "wg" \in Faults /\ iface[c] \in links
    /\ Goto(c, "deactivate") /\ Harm("kept")
    /\ UNCHANGED <<serving, active, settings, vpnIface, cgVars, wgVars, nft, dnsVars>>

\* The interface stays; the rules and its routes are gone if they could be deleted.
WgDisconnectFails(c) ==
    /\ pc[c] = "wgDisconnect" /\ "wg" \in Faults
    /\ iface[c] \in links
    /\ rules' \in {FALSE, rules}
    /\ table' \in {table, IF table = iface[c] THEN NoTunnel ELSE table}
    /\ Reply(c) /\ Harm("wg")
    /\ UNCHANGED <<serving, active, settings, vpnIface, cgVars, links, nft, dnsVars>>

Deactivate(c) ==
    /\ pc[c] = "deactivate"
    /\ active' = NoTunnel
    /\ Reply(c)
    /\ UNCHANGED <<serving, settings, vpnIface, cgVars, wgVars, nft, dnsVars, history>>

-----------------------------------------------------------------------------
\* Start-up, crashes and the rest of the host

\* AppState::new; main applies the saved settings if they are enabled, and then
\* removes the interfaces of an earlier life.
Start(mode) ==
    /\ pc[Main] = "down"
    /\ pc' = [pc EXCEPT ![Main] = IF mode # "off" THEN "cgroupOn" ELSE "cleanup"]
    /\ op' = [op EXCEPT ![Main] = "start"]
    /\ on' = [on EXCEPT ![Main] = mode]
    /\ original' = resolv
    /\ UNCHANGED <<iface, seen, serving, active, settings, vpnIface, cgVars,
                   wgVars, nft, resolv, backup, entry, history>>

CleanupStale_Skips ==
    /\ pc[Main] = "cleanup"
    /\ UNCHANGED wgVars
    /\ pc' = [pc EXCEPT ![Main] = "up"] /\ Clear(Main)
    /\ serving' = TRUE
    /\ UNCHANGED <<active, settings, vpnIface, cgVars, nft, dnsVars, history>>

CleanupStale ==
    /\ pc[Main] = "cleanup"
    /\ links' = {} /\ table' = NoTunnel /\ rules' = (rules /\ links = {})
    /\ pc' = [pc EXCEPT ![Main] = "up"] /\ Clear(Main)
    /\ serving' = TRUE
    /\ UNCHANGED <<active, settings, vpnIface, cgVars, nft, dnsVars, history>>

\* The listing of the interfaces fails and cleanup_stale gives up, or one of the
\* disconnects fails and it goes on: some interface stays, or rules do.
CleanupStaleFails ==
    /\ pc[Main] = "cleanup" /\ "wg" \in Faults /\ links # {}
    /\ links' \in SUBSET links
    /\ table' \in {NoTunnel} \union ({table} \intersect links')
    /\ rules' \in {FALSE, rules}
    /\ IF links' = {} THEN UNCHANGED recent ELSE Recently("kept")
    /\ pc' = [pc EXCEPT ![Main] = "up"] /\ Clear(Main)
    /\ serving' = TRUE
    /\ UNCHANGED <<active, settings, vpnIface, cgVars, nft, dnsVars, dnsRisk>>

Crash ==
    /\ "crash" \in Faults /\ pc[Main] # "down"
    /\ pc' = [c \in Threads |-> IF c = Main THEN "down" ELSE "idle"]
    /\ op' = [c \in Threads |-> "none"]
    /\ iface' = [c \in Threads |-> NoTunnel]
    /\ on' = [c \in Threads |-> "off"]
    /\ seen' = [c \in Threads |-> NoTunnel]
    /\ serving' = FALSE
    /\ active' = NoTunnel /\ settings' = "off" /\ vpnIface' = NoTunnel
    /\ cgEnabled' = FALSE /\ original' = Absent
    /\ recent' = {} /\ dnsRisk' = (dnsRisk \/ resolv # Host)
    /\ UNCHANGED <<cgDir, captured, wgVars, nft, resolv, backup, entry>>

\* The process monitor moves a listed process; the process exits.
Capture ==
    /\ cgEnabled /\ cgDir /\ ~captured
    /\ captured' = TRUE
    /\ UNCHANGED <<threadVars, serving, active, settings, vpnIface, cgEnabled,
                   cgDir, wgVars, nft, dnsVars, history>>

ProcessExits ==
    /\ captured /\ captured' = FALSE
    /\ UNCHANGED <<threadVars, serving, active, settings, vpnIface, cgEnabled,
                   cgDir, wgVars, nft, dnsVars, history>>

LinkLost ==
    /\ "link" \in Faults
    /\ \E t \in links : Removed(t)
    /\ Recently("split") /\ dnsRisk' = TRUE
    /\ UNCHANGED <<threadVars, serving, active, settings, vpnIface, cgVars,
                   rules, nft, dnsVars>>

ThreadStep(c) ==
    \/ WgConnect(c) \/ WgConnectRefused(c) \/ WgConnectFails(c)
    \/ SetIface(c) \/ ReadSettings(c) \/ DnsApply(c) \/ DnsApplyFails(c) \/ Activate(c)
    \/ CgroupOn(c) \/ CgroupOff(c) \/ ReadIface(c) \/ TableOff(c) \/ TableOn(c)
    \/ FlagDisabled(c) \/ StoreSettings(c)
    \/ ClearIface(c) \/ DnsRestore(c) \/ DnsRestoreFails(c)
    \/ WgDisconnect(c) \/ WgDisconnectSkips(c) \/ WgDisconnectFails(c) \/ Deactivate(c)

Next ==
    \/ \E c \in Clients :
        \/ \E t \in Tunnels : ConnectTunnel(c, t)
        \/ \E mode \in Modes : SetSplitTunneling(c, mode)
        \/ DisconnectTunnel(c)
    \/ \E c \in Threads : ThreadStep(c)
    \/ \E mode \in Modes : Start(mode)
    \/ CleanupStale \/ CleanupStaleFails \/ Crash \/ Capture \/ ProcessExits \/ LinkLost

Spec == Init /\ [][Next]_vars

-----------------------------------------------------------------------------
\* What becomes of a packet: of a process in the cgroup, of another, and of
\* WireGuard itself, whose packets carry WgMark from the start.

Packets == {"captured", "other", "wireguard"}

Sent(p) == IF p = "wireguard" THEN WgMark ELSE 0

\* The mangle chain of the table, which is the same in both modes: the processes
\* in the cgroup are those of the list of the mode.
Marked(p) ==
    CASE nft.kind = "full" /\ Sent(p) # WgMark     -> Fwmark
      [] nft.kind = "base" /\ p = "captured"       -> Fwmark
      [] OTHER                                     -> Sent(p)

\* The rules send a marked packet to the VPN table, and on to the next when that
\* has no route.  Its source address was chosen before, so it needs the
\* masquerading, which names an interface.
Path(p) ==
    IF rules /\ table # NoTunnel /\ Marked(p) = Fwmark
    THEN IF nft.iface = table THEN "tunnel" ELSE "lost"
    ELSE "direct"

Rest == serving /\ Idle

Places ==
    {"down", "up", "idle", "wgConnect", "setIface", "readSettings", "cgroupOn",
     "cgroupOff", "readIface", "tableOff", "tableOn", "flag", "store",
     "clearIface", "dnsApply", "activate", "dnsRestore", "wgDisconnect",
     "deactivate", "cleanup"}

ThreadsOK ==
    /\ pc \in [Threads -> Places]
    /\ op \in [Threads -> {"none", "connect", "set", "disconnect", "start"}]
    /\ iface \in [Threads -> Tunnels \union {NoTunnel}]
    /\ on \in [Threads -> Modes]
    /\ seen \in [Threads -> Tunnels \union {NoTunnel}]

\* The type of the state.
TypeOK ==
    /\ ThreadsOK
    /\ serving \in BOOLEAN /\ settings \in Modes
    /\ cgEnabled \in BOOLEAN /\ cgDir \in BOOLEAN /\ captured \in BOOLEAN
    /\ active \in Tunnels \union {NoTunnel}
    /\ vpnIface \in Tunnels \union {NoTunnel}
    /\ links \subseteq Tunnels /\ table \in links \union {NoTunnel}
    /\ rules \in BOOLEAN
    /\ nft \in [kind : {"none", "base", "full"}, iface : Tunnels \union {NoTunnel}]
    /\ resolv \in {Host, Absent, Cut} \union Tunnels
    /\ backup \in {Host, Absent, Cut} \union Tunnels
    /\ original \in {Host, Absent, Cut} \union Tunnels
    /\ entry \in {"file", "link", "gone"}
    /\ entry = "gone" <=> resolv = Absent
    /\ recent \subseteq {"wg", "split", "kept"} \/ recent = {"overlap"}
    /\ dnsRisk \in BOOLEAN

\* Connected and between requests, without split tunnelling every packet goes into
\* the tunnel and in inclusive mode those of the listed processes do, WireGuard's
\* own never: whatever crashed, failed or raced before the last connect that was
\* alone, nothing of it remains.  (Exclusive mode: ExclusiveBypasses.)
PacketsGoWhereTold ==
    Rest /\ active # NoTunnel /\ recent = {} /\ settings # "exclusive" =>
        /\ Path("captured") = "tunnel"
        /\ Path("other") = IF settings = "off" THEN "tunnel" ELSE "direct"
        /\ Path("wireguard") = "direct"

\* In exclusive mode the listed processes bypass the tunnel: what the user
\* interface says of it.  The code sends them, and only them, into it.
ExclusiveBypasses ==
    Rest /\ active # NoTunnel /\ recent = {} /\ settings = "exclusive" =>
        Path("captured") = "direct"

\* With nothing connected every packet goes past the tunnels, whatever crashes and
\* failures have left in nftables, the rules or the cgroup, as long as they left
\* no interface either.
IdleIsDirect ==
    Rest /\ active = NoTunnel /\ "overlap" \notin recent /\ "kept" \notin recent =>
        \A p \in Packets : Path(p) = "direct"

\* With everything in the tunnel, a packet gets past it only while a request
\* has deleted the table and not loaded the next, or is taking it down.
LeaksOnlyInReload ==
    serving /\ active # NoTunnel /\ recent = {} /\ settings = "off"
            /\ Path("other") # "tunnel"
        => \E c \in Clients :
            \/ pc[c] = "tableOn"
            \/ op[c] = "disconnect"
            \/ op[c] = "set" /\ on[c] # "off"

\* Between requests resolv.conf lists the servers of the host when no tunnel with
\* servers is connected, and otherwise those of the tunnel, unless it was a
\* symbolic link, which is then gone; as long as no file access failed and no
\* crash or lost interface came in between.
DnsFollowsTunnel ==
    Rest /\ ~dnsRisk =>
        /\ active \notin WithDns => resolv = Host
        /\ active \in WithDns /\ "wg" \notin recent =>
              resolv = active \/ entry = "gone"

=============================================================================
