---------------------------- MODULE DaemonProofs ----------------------------
(***************************************************************************)
(* Theorems about Daemon, for every number of clients and tunnels, through *)
(* all failures, crashes and overlapping requests.                         *)
(*                                                                         *)
(* The properties of Daemon speak of what holds after a connect that had   *)
(* the daemon to itself.  `recent' remembers an overlap until the next     *)
(* such connect; while it does not, at most one client is at work, and the *)
(* invariants below say what that one leaves in the kernel step by step.   *)
(***************************************************************************)
EXTENDS Daemon, TLAPS

Busy(c) == pc[c] # "idle"

\* Where a request of each kind can be.
PlacesOf(what) ==
    CASE what = "connect" -> {"wgConnect", "setIface", "readSettings", "cgroupOn",
                              "readIface", "tableOff", "tableOn", "store",
                              "dnsApply", "activate"}
      [] what = "set" -> {"cgroupOn", "cgroupOff", "readIface", "tableOff",
                          "tableOn", "flag", "store"}
      [] what = "disconnect" -> {"tableOff", "tableOn", "cgroupOff", "clearIface",
                                 "dnsRestore", "wgDisconnect", "deactivate"}
      [] OTHER -> {"idle"}

StartPlaces == {"cgroupOn", "readIface", "tableOff", "tableOn", "store", "cleanup"}

\* Requests come and go with the daemon.
ControlInv ==
    /\ \A c \in Clients : op[c] # "start" /\ pc[c] \in PlacesOf(op[c])
    /\ pc[Main] \in {"down", "up"} \union StartPlaces
    /\ pc[Main] \in StartPlaces => op[Main] = "start"
    /\ serving <=> pc[Main] = "up"
    /\ ~serving => Idle

\* A connect is for a tunnel, and only a daemon that serves has an active one.
RequestInv ==
    /\ \A c \in Clients : op[c] = "connect" => iface[c] \in Tunnels
    /\ ~serving => active = NoTunnel

Overlapped == "overlap" \in recent

\* Of the clients one at most is at work, unless an overlap is on record.
AloneInv ==
    ~Overlapped => \A c, d \in Clients : Busy(c) /\ Busy(d) => c = d

\* The tunnel that may hold the VPN table while c is at work.
Own(c) ==
    IF op[c] # "connect" THEN active
    ELSE IF pc[c] = "wgConnect" THEN NoTunnel ELSE iface[c]

\* The one client at work connects while no tunnel is active, or takes down the
\* one that is.
WorkInv ==
    serving /\ ~Overlapped =>
        \A c \in Clients : Busy(c) =>
            /\ op[c] = "connect" => active = NoTunnel
            /\ op[c] = "disconnect" => iface[c] = active

Kept == "kept" \in recent

\* Unless an interface is on record that stayed, no tunnel holds the VPN table but
\* the one that is active, or that the one client at work connects.
LinkInv ==
    serving /\ ~Overlapped /\ ~Kept =>
        /\ Idle => table \in {NoTunnel, active}
        /\ \A c \in Clients : Busy(c) =>
            /\ table \in {NoTunnel, Own(c)}
            /\ pc[c] = "deactivate" => table = NoTunnel

Kind(mode) == IF mode # "off" THEN "base" ELSE "full"

TableFor(t) == [kind |-> Kind(settings), iface |-> t]

\* The tunnel t is up and the manager knows of it.
UpFor(t) == table = t /\ rules /\ vpnIface = t

\* What a connect has done so far to the kernel and the manager.
ConnectFits(c) ==
    /\ table = iface[c] /\ rules
    /\ pc[c] # "setIface" => vpnIface = iface[c]
    /\ pc[c] \notin {"setIface", "readSettings"} => on[c] = settings
    /\ pc[c] \in {"tableOff", "tableOn"} => seen[c] = iface[c]
    /\ pc[c] \in {"readIface", "tableOff", "tableOn"} /\ on[c] # "off" => cgDir
    /\ pc[c] \in {"store", "dnsApply", "activate"} => nft = TableFor(iface[c])

\* What a change of the settings has done so far while a tunnel is connected.
SetFits(c) ==
    /\ UpFor(active)
    /\ pc[c] \in {"tableOff", "tableOn"} => seen[c] = active
    /\ pc[c] \in {"readIface", "tableOff", "tableOn"} /\ on[c] # "off" => cgDir
    /\ pc[c] \in {"cgroupOn", "cgroupOff", "readIface", "tableOff"} =>
          nft = TableFor(active)
    /\ pc[c] \in {"flag", "store"} => nft = [kind |-> Kind(on[c]), iface |-> active]
    /\ pc[c] \in {"cgroupOff", "flag"} => on[c] = "off"
    /\ pc[c] = "cgroupOn" => on[c] # "off"
    /\ pc[c] = "store" /\ on[c] = "off" => settings = "off"

\* The tunnel that is connected stays up and its table fits the settings,
\* except between the deletion of the table and the loading of the next.
KernelInv ==
    serving /\ recent = {} =>
        /\ Idle /\ active # NoTunnel => UpFor(active) /\ nft = TableFor(active)
        /\ \A c \in Clients :
            /\ op[c] = "connect" /\ pc[c] # "wgConnect" => ConnectFits(c)
            /\ op[c] = "set" /\ active # NoTunnel => SetFits(c)

\* An overlap is a risk for resolv.conf for good.
RiskInv == Overlapped => dnsRisk

\* The host's servers are in resolv.conf or in the backup, in this life.  There is
\* a backup only after an apply, which leaves no symbolic link.
HostKept ==
    /\ backup \in {Absent, Host} /\ original \in {Absent, Host}
    /\ resolv # Host => backup = Host /\ serving
    /\ backup # Absent => entry # "link"

Lists(t) == resolv = t \/ entry = "gone"

\* The servers in resolv.conf are those of the active tunnel.
ResolvFits ==
    /\ active \notin WithDns => resolv = Host
    /\ active \in WithDns /\ "wg" \notin recent => Lists(active)

\* The interface of t has not gone.
Up(t) == t \in links \union {NoTunnel}

\* Where the client c has got with the interface and with resolv.conf.
DnsFits(c) ==
    /\ pc[c] # "deactivate" => Up(Own(c))
    /\ op[c] = "connect" =>
          IF pc[c] = "activate" /\ iface[c] \in WithDns THEN Lists(iface[c]) ELSE resolv = Host
    /\ pc[c] \in {"wgDisconnect", "deactivate"} => resolv = Host
    /\ op[c] # "connect" /\ pc[c] \notin {"wgDisconnect", "deactivate"} => ResolvFits

\* While nothing overlaps, fails or is lost, the servers of a tunnel are in
\* resolv.conf from the apply of its connect to the restore of its disconnect.
DnsInv ==
    ~dnsRisk =>
        /\ HostKept
        /\ serving /\ Idle => Up(active) /\ ResolvFits
        /\ serving => \A c \in Clients : Busy(c) => DnsFits(c)

-----------------------------------------------------------------------------
\* Type correctness

\* The three ways in which a step moves a thread keep the threads well typed.
LEMMA GotoTyped ==
    ASSUME ThreadsOK, NEW c \in Threads, NEW to \in Places, Goto(c, to)
    PROVE  ThreadsOK'
  BY DEF ThreadsOK, Goto

LEMMA ReplyTyped ==
    ASSUME ThreadsOK, NEW c \in Threads, Reply(c)
    PROVE  ThreadsOK'
  BY DEF ThreadsOK, Reply, Clear, Places, Modes

LEMMA BeginTyped ==
    ASSUME ThreadsOK, NEW c \in Threads, NEW to \in Places,
           NEW what \in {"connect", "set", "disconnect"},
           NEW t \in Tunnels \union {NoTunnel}, NEW mode \in Modes,
           Begin(c, what, to, t, mode)
    PROVE  ThreadsOK'
  BY DEF ThreadsOK, Begin

LEMMA ReturnTyped ==
    ASSUME ThreadsOK, NEW c \in Threads, Return(c)
    PROVE  ThreadsOK'
<1>1. "dnsApply" \in Places /\ "cleanup" \in Places
  BY DEF Places
<1> QED
  BY <1>1, GotoTyped, ReplyTyped DEF Return

\* What is remembered of failures stays well typed.
RecentOK == recent \subseteq {"wg", "split", "kept"} \/ recent = {"overlap"}

LEMMA RecentlyTyped ==
    ASSUME RecentOK, NEW kind \in {"wg", "split", "kept", "overlap"}, Recently(kind)
    PROVE  RecentOK'
  BY DEF RecentOK, Recently

LEMMA AfterTableTyped ==
    ASSUME NEW c
    PROVE  AfterTable(c) \in {"cgroupOff", "dnsApply", "flag", "store"}
  BY DEF AfterTable

\* The state that no request has to itself.
RestOK ==
    /\ serving \in BOOLEAN /\ settings \in Modes
    /\ cgEnabled \in BOOLEAN /\ cgDir \in BOOLEAN /\ captured \in BOOLEAN
    /\ active \in Tunnels \union {NoTunnel}
    /\ vpnIface \in Tunnels \union {NoTunnel}
    /\ links \subseteq Tunnels /\ table \in links \union {NoTunnel}
    /\ rules \in BOOLEAN
    /\ nft \in [kind : {"none", "base", "full"}, iface : Tunnels \union {NoTunnel}]

DnsOK ==
    /\ resolv \in {Host, Absent, Cut} \union Tunnels
    /\ backup \in {Host, Absent, Cut} \union Tunnels
    /\ original \in {Host, Absent, Cut} \union Tunnels
    /\ entry \in {"file", "link", "gone"}
    /\ entry = "gone" <=> resolv = Absent

HistoryOK == RecentOK /\ dnsRisk \in BOOLEAN

LEMMA TypeParts == TypeOK <=> ThreadsOK /\ RestOK /\ DnsOK /\ HistoryOK
  BY DEF TypeOK, RestOK, DnsOK, HistoryOK, RecentOK

LEMMA OverlapTyped == HistoryOK /\ Overlap => HistoryOK'
  BY RecentlyTyped DEF HistoryOK, Overlap, history, RecentOK

LEMMA HarmTyped ==
    ASSUME HistoryOK, NEW kind \in {"wg", "split", "kept"}, Harm(kind)
    PROVE  HistoryOK'
  BY RecentlyTyped DEF HistoryOK, Harm

\* resolv.conf stays well typed whether it is written or its writing fails.
LEMMA WriteTyped ==
    ASSUME DnsOK, NEW content \in {Host, Cut} \union Tunnels, Write(content)
    PROVE  /\ resolv' \in {Host, Absent, Cut} \union Tunnels
           /\ entry' \in {"file", "link", "gone"}
           /\ entry' = "gone" <=> resolv' = Absent
  BY DaemonConstants DEF DnsOK, Write

LEMMA WriteFailsTyped ==
    ASSUME DnsOK, NEW content \in SUBSET Tunnels, WriteFails(content)
    PROVE  /\ resolv' \in {Host, Absent, Cut} \union Tunnels
           /\ entry' \in {"file", "link", "gone"}
           /\ entry' = "gone" <=> resolv' = Absent
  BY DEF DnsOK, WriteFails

\* Only a client that connects is at wgConnect, and it has a tunnel to connect.
LEMMA ConnectsTunnel ==
    ASSUME ControlInv, RequestInv, NEW c \in Threads, pc[c] = "wgConnect"
    PROVE  iface[c] \in Tunnels
<1>1. c \in Clients
  BY DEF ControlInv, Threads, StartPlaces
<1>2. op[c] = "connect"
  BY <1>1 DEF ControlInv, PlacesOf
<1> QED
  BY <1>1, <1>2 DEF RequestInv

LEMMA NextTypeOK == TypeOK /\ ControlInv /\ RequestInv /\ [Next]_vars => TypeOK'
<1> SUFFICES ASSUME TypeOK, ControlInv, RequestInv, [Next]_vars PROVE TypeOK'
  OBVIOUS
<1> USE DaemonConstants DEF Threads
<1>0. ThreadsOK /\ RestOK /\ DnsOK /\ HistoryOK
  BY TypeParts
<1> SUFFICES ThreadsOK' /\ RestOK' /\ DnsOK' /\ HistoryOK'
  BY TypeParts DEF TypeOK, ThreadsOK, RestOK, DnsOK, HistoryOK, RecentOK
<1>h. ASSUME UNCHANGED history PROVE HistoryOK'
  BY <1>0, <1>h DEF history, HistoryOK, RecentOK
<1>d. ASSUME UNCHANGED dnsVars PROVE DnsOK'
  BY <1>0, <1>d DEF dnsVars, DnsOK
<1>t. ASSUME UNCHANGED threadVars PROVE ThreadsOK'
  BY <1>0, <1>t DEF threadVars, ThreadsOK
<1>g. ASSUME NEW c \in Threads, NEW to, Goto(c, to), to \in Places PROVE ThreadsOK'
  BY <1>0, <1>g, GotoTyped
<1>r. ASSUME NEW c \in Threads, Reply(c) PROVE ThreadsOK'
  BY <1>0, <1>r, ReplyTyped
<1>1. ASSUME NEW c \in Clients, NEW t \in Tunnels, ConnectTunnel(c, t)
      PROVE  ThreadsOK' /\ RestOK' /\ DnsOK' /\ HistoryOK'
  <2>1. ThreadsOK'
    BY <1>0, <1>1, BeginTyped DEF ConnectTunnel, Places, Modes
  <2>2. HistoryOK'
    BY <1>0, <1>1, OverlapTyped, RecentlyTyped DEF ConnectTunnel, HistoryOK
  <2> QED
    BY <1>0, <1>1, <1>d, <2>1, <2>2 DEF ConnectTunnel, RestOK, cgVars, wgVars
<1>2. ASSUME NEW c \in Clients, NEW mode \in Modes, SetSplitTunneling(c, mode)
      PROVE  ThreadsOK' /\ RestOK' /\ DnsOK' /\ HistoryOK'
  <2>1. ThreadsOK'
    BY <1>0, <1>2, BeginTyped DEF SetSplitTunneling, Places
  <2> QED
    BY <1>0, <1>2, <1>d, <2>1, OverlapTyped DEF SetSplitTunneling, RestOK, cgVars, wgVars
<1>3. ASSUME NEW c \in Clients, DisconnectTunnel(c)
      PROVE  ThreadsOK' /\ RestOK' /\ DnsOK' /\ HistoryOK'
  <2>1. ThreadsOK'
    BY <1>0, <1>3, BeginTyped DEF DisconnectTunnel, Places, RestOK, Modes
  <2> QED
    BY <1>0, <1>3, <1>d, <2>1, OverlapTyped DEF DisconnectTunnel, RestOK, cgVars, wgVars
<1>4. ASSUME NEW c \in Threads, ThreadStep(c)
      PROVE  ThreadsOK' /\ RestOK' /\ DnsOK' /\ HistoryOK'
  <2> iface[c] \in Tunnels \union {NoTunnel} /\ seen[c] \in Tunnels \union {NoTunnel}
        /\ on[c] \in Modes
    BY <1>0 DEF ThreadsOK
  <2>1. CASE WgConnect(c)
    <3>1. HistoryOK'
      BY <1>0, <2>1 DEF WgConnect, HistoryOK, RecentOK
    <3>2. iface[c] \in Tunnels
      BY <2>1, ConnectsTunnel DEF WgConnect
    <3> QED
      BY <1>0, <1>g, <1>d, <2>1, <3>1, <3>2 DEF WgConnect, RestOK, cgVars, Places
  <2>2. CASE WgConnectRefused(c)
    BY <1>0, <1>r, <1>d, <1>h, <2>2 DEF WgConnectRefused, Fits, RestOK, cgVars
  <2>3. CASE WgConnectFails(c)
    <3>1. rules' \in BOOLEAN
      BY <1>0, <2>3 DEF WgConnectFails, RestOK
    <3>2. iface[c] \in Tunnels
      BY <2>3, ConnectsTunnel DEF WgConnectFails
    <3>3. HistoryOK' /\ links' \subseteq Tunnels /\ table' \in links' \union {NoTunnel}
      <4>1. PICK kept \in BOOLEAN :
              /\ links' = IF kept THEN links \union {iface[c]} ELSE links \ {iface[c]}
              /\ table' \in IF table \notin {NoTunnel, iface[c]} THEN {table}
                            ELSE IF kept THEN {NoTunnel, iface[c]} ELSE {NoTunnel}
              /\ Harm(IF kept THEN "kept" ELSE "wg")
        BY <2>3 DEF WgConnectFails
      <4>2. HistoryOK'
        BY <1>0, <4>1, HarmTyped
      <4> QED
        BY <1>0, <3>2, <4>1, <4>2 DEF RestOK
    <3> QED
      BY <1>0, <1>r, <1>d, <2>3, <3>1, <3>3 DEF WgConnectFails, RestOK, cgVars
  <2>4. CASE SetIface(c)
    BY <1>0, <1>g, <1>d, <1>h, <2>4 DEF SetIface, RestOK, cgVars, wgVars, Places
  <2>5. CASE ReadSettings(c)
    <3>1. ThreadsOK'
      BY <1>0, <2>5 DEF ReadSettings, ThreadsOK, Places, RestOK
    <3> QED
      BY <1>0, <1>d, <1>h, <2>5, <3>1 DEF ReadSettings, RestOK, cgVars, wgVars
  <2>6. CASE DnsApply(c)
    <3>1. DnsOK'
      <4>1. CASE iface[c] \in WithDns
        <5>1. Write(iface[c]) /\ iface[c] \in Tunnels
          BY <2>6, <4>1 DEF DnsApply
        <5>2. backup' \in {Host, Absent, Cut} \union Tunnels
              /\ original' \in {Host, Absent, Cut} \union Tunnels
          BY <1>0, <2>6, <4>1 DEF DnsApply, DnsOK
        <5> QED
          BY <1>0, <5>1, <5>2, WriteTyped DEF DnsOK
      <4>2. CASE iface[c] \notin WithDns
        BY <1>d, <2>6, <4>2 DEF DnsApply
      <4> QED
        BY <4>1, <4>2
    <3> QED
      BY <1>0, <1>g, <1>h, <2>6, <3>1 DEF DnsApply, RestOK, cgVars, wgVars, Places
  <2>7. CASE Activate(c)
    BY <1>0, <1>r, <1>d, <1>h, <2>7 DEF Activate, RestOK, cgVars, wgVars
  <2>8. CASE CgroupOn(c)
    <3>1. ThreadsOK'
      BY <1>0, <1>g, <2>8, ReturnTyped DEF CgroupOn, Places
    <3>2. HistoryOK'
      BY <1>0, <1>h, <2>8, HarmTyped DEF CgroupOn
    <3> QED
      BY <1>0, <1>d, <2>8, <3>1, <3>2 DEF CgroupOn, RestOK, cgVars, wgVars
  <2>9. CASE CgroupOff(c)
    BY <1>0, <1>g, <1>d, <1>h, <2>9 DEF CgroupOff, RestOK, wgVars, Places
  <2>10. CASE ReadIface(c)
    <3>1. ThreadsOK'
      BY <1>0, <2>10 DEF ReadIface, ThreadsOK, Places, RestOK
    <3> QED
      BY <1>0, <1>d, <1>h, <2>10, <3>1 DEF ReadIface, RestOK, cgVars, wgVars
  <2>11. CASE TableOff(c)
    <3>1. ThreadsOK'
      BY <1>0, <1>g, <2>11, AfterTableTyped DEF TableOff, Places
    <3> QED
      BY <1>0, <1>d, <1>h, <2>11, <3>1 DEF TableOff, RestOK, cgVars, wgVars, NoTable
  <2>12. CASE TableOn(c)
    <3>1. ThreadsOK'
      BY <1>0, <1>g, <2>12, AfterTableTyped DEF TableOn, Places
    <3>2. HistoryOK'
      BY <1>0, <1>h, <2>12, HarmTyped DEF TableOn
    <3>3. nft' \in [kind : {"none", "base", "full"}, iface : Tunnels \union {NoTunnel}]
      BY <2>12 DEF TableOn, NoTable
    <3> QED
      BY <1>0, <1>d, <2>12, <3>1, <3>2, <3>3 DEF TableOn, RestOK, cgVars, wgVars
  <2>13. CASE FlagDisabled(c)
    BY <1>0, <1>g, <1>d, <1>h, <2>13 DEF FlagDisabled, RestOK, cgVars, wgVars, Places, Modes
  <2>14. CASE StoreSettings(c)
    BY <1>0, <1>d, <1>h, <2>14, ReturnTyped DEF StoreSettings, RestOK, cgVars, wgVars
  <2>15. CASE ClearIface(c)
    BY <1>0, <1>g, <1>d, <1>h, <2>15 DEF ClearIface, RestOK, cgVars, wgVars, Places
  <2>16. CASE DnsRestore(c)
    <3>1. DnsOK'
      <4>1. CASE backup = Absent
        BY <1>0, <2>16, <4>1 DEF DnsRestore, DnsOK
      <4>2. CASE backup # Absent
        BY <1>0, <2>16, <4>2, WriteTyped DEF DnsRestore, DnsOK
      <4> QED
        BY <4>1, <4>2
    <3> QED
      BY <1>0, <1>g, <1>h, <2>16, <3>1 DEF DnsRestore, RestOK, cgVars, wgVars, Places
  <2>17. CASE WgDisconnect(c)
    <3>1. links' \subseteq Tunnels /\ table' \in links' \union {NoTunnel} /\ rules' \in BOOLEAN
      BY <1>0, <2>17 DEF WgDisconnect, Removed, RestOK, wgVars
    <3> QED
      BY <1>0, <1>g, <1>d, <1>h, <2>17, <3>1 DEF WgDisconnect, RestOK, cgVars, Places
  <2>18. CASE WgDisconnectFails(c)
    BY <1>0, <1>r, <1>d, <2>18, HarmTyped DEF WgDisconnectFails, RestOK, cgVars
  <2>19. CASE Deactivate(c)
    BY <1>0, <1>r, <1>d, <1>h, <2>19 DEF Deactivate, RestOK, cgVars, wgVars
  <2>20. CASE DnsApplyFails(c)
    <3>1. WriteFails({iface[c]}) /\ {iface[c]} \in SUBSET Tunnels
      BY <2>20, DaemonConstants DEF DnsApplyFails
    <3>2. original' \in {Host, Absent, Cut} \union Tunnels
      BY <1>0, <2>20 DEF DnsApplyFails, DnsOK
    <3>3. backup' \in {Host, Absent, Cut} \union Tunnels
      BY <1>0, <2>20, <3>2 DEF DnsApplyFails, DnsOK
    <3>4. DnsOK' /\ HistoryOK'
      BY <1>0, <2>20, <3>1, <3>2, <3>3, WriteFailsTyped
         DEF DnsApplyFails, DnsOK, HistoryOK, RecentOK, WriteFails
    <3> QED
      BY <1>0, <1>g, <2>20, <3>4 DEF DnsApplyFails, RestOK, cgVars, wgVars, Places
  <2>21. CASE DnsRestoreFails(c)
    <3>1. CASE WriteFails({}) /\ UNCHANGED original
      <4>1. DnsOK' /\ HistoryOK'
        BY <1>0, <2>21, <3>1, WriteFailsTyped
           DEF DnsRestoreFails, DnsOK, HistoryOK, RecentOK, WriteFails
      <4> QED
        BY <1>0, <1>g, <2>21, <4>1 DEF DnsRestoreFails, RestOK, cgVars, wgVars, Places
    <3>2. CASE Write(backup) /\ original' = Absent /\ dnsRisk' = TRUE
      <4>1. DnsOK' /\ HistoryOK'
        BY <1>0, <2>21, <3>2, WriteTyped DEF DnsRestoreFails, DnsOK, HistoryOK, RecentOK
      <4> QED
        BY <1>0, <1>g, <2>21, <4>1 DEF DnsRestoreFails, RestOK, cgVars, wgVars, Places
    <3> QED
      BY <2>21, <3>1, <3>2 DEF DnsRestoreFails
  <2>22. CASE WgDisconnectSkips(c)
    <3>1. HistoryOK'
      BY <1>0, <2>22, HarmTyped DEF WgDisconnectSkips
    <3> QED
      BY <1>0, <1>g, <1>d, <2>22, <3>1 DEF WgDisconnectSkips, RestOK, cgVars, wgVars, Places
  <2> QED
    BY <1>4, <2>1, <2>2, <2>3, <2>4, <2>5, <2>6, <2>7, <2>8, <2>9, <2>10, <2>11, <2>12,
       <2>13, <2>14, <2>15, <2>16, <2>17, <2>18, <2>19, <2>20, <2>21, <2>22 DEF ThreadStep
<1>5. ASSUME NEW mode \in Modes, Start(mode)
      PROVE  ThreadsOK' /\ RestOK' /\ DnsOK' /\ HistoryOK'
  <2>1. ThreadsOK'
    BY <1>0, <1>5 DEF Start, ThreadsOK, Places
  <2>2. DnsOK'
    BY <1>0, <1>5 DEF Start, DnsOK
  <2> QED
    BY <1>0, <1>h, <1>5, <2>1, <2>2 DEF Start, RestOK, cgVars, wgVars
<1>6. CASE CleanupStale
  <2>1. ThreadsOK'
    BY <1>0, <1>6 DEF CleanupStale, Clear, ThreadsOK, Places, Modes
  <2> QED
    BY <1>0, <1>d, <1>h, <1>6, <2>1 DEF CleanupStale, RestOK, cgVars
<1>11. CASE CleanupStaleFails
  <2>1. ThreadsOK'
    BY <1>0, <1>11 DEF CleanupStaleFails, Clear, ThreadsOK, Places, Modes
  <2>2. HistoryOK'
    BY <1>0, <1>11, RecentlyTyped DEF CleanupStaleFails, HistoryOK, RecentOK
  <2>3. links' \subseteq Tunnels /\ table' \in links' \union {NoTunnel} /\ rules' \in BOOLEAN
    BY <1>0, <1>11 DEF CleanupStaleFails, RestOK
  <2> QED
    BY <1>0, <1>d, <1>11, <2>1, <2>2, <2>3 DEF CleanupStaleFails, RestOK, cgVars
<1>7. CASE Crash
  <2>1. ThreadsOK'
    BY <1>7 DEF Crash, ThreadsOK, Places, Modes
  <2>2. HistoryOK'
    BY <1>0, <1>7 DEF Crash, HistoryOK, RecentOK
  <2>3. DnsOK'
    BY <1>0, <1>7 DEF Crash, DnsOK
  <2> QED
    BY <1>0, <1>7, <2>1, <2>2, <2>3 DEF Crash, RestOK, wgVars, Modes
<1>8. CASE Capture \/ ProcessExits
  BY <1>0, <1>t, <1>d, <1>h, <1>8 DEF Capture, ProcessExits, RestOK, wgVars
<1>9. CASE LinkLost
  <2>1. HistoryOK'
    BY <1>0, <1>9, RecentlyTyped DEF LinkLost, HistoryOK
  <2> QED
    BY <1>0, <1>t, <1>d, <1>9, <2>1 DEF LinkLost, Removed, RestOK, cgVars
<1>10. CASE UNCHANGED vars
  BY <1>0, <1>t, <1>d, <1>h, <1>10 DEF vars, RestOK, cgVars, wgVars
<1> QED
  BY <1>1, <1>2, <1>3, <1>4, <1>5, <1>6, <1>7, <1>8, <1>9, <1>10, <1>11 DEF Next

LEMMA InitTypeOK == Init => TypeOK
<1> SUFFICES ASSUME Init PROVE TypeOK
  OBVIOUS
<1>1. ThreadsOK
  BY DEF Init, ThreadsOK, Threads, Places, Modes
<1>2. RestOK
  BY DEF Init, RestOK, NoTable, Modes
<1>3. DnsOK
  BY DaemonConstants DEF Init, DnsOK
<1>4. HistoryOK
  BY DEF Init, HistoryOK, RecentOK
<1> QED
  BY <1>1, <1>2, <1>3, <1>4, TypeParts

-----------------------------------------------------------------------------
\* Control

\* A thread that is at work goes from place to place of its request.
LEMMA GotoControl ==
    ASSUME ThreadsOK, ControlInv, NEW c \in Threads, NEW to,
           pc' = [pc EXCEPT ![c] = to], op' = op, serving' = serving,
           c \in Clients => Busy(c) /\ to \in PlacesOf(op[c]),
           c = Main => pc[c] \in StartPlaces /\ to \in StartPlaces
    PROVE  ControlInv'
<1>1. c # Main => c \in Clients
  BY DEF Threads
<1>2. Main \in Threads /\ Clients \subseteq Threads /\ Main \notin Clients
  BY DaemonConstants DEF Threads
<1>3. "up" \notin StartPlaces
  BY DEF StartPlaces
<1>4. op' = op /\ \A d \in Threads : pc'[d] = IF d = c THEN to ELSE pc[d]
  BY DEF ThreadsOK
<1>5. pc'[Main] \in {"down", "up"} \union StartPlaces
        /\ (pc'[Main] \in StartPlaces => op'[Main] = "start")
        /\ (serving' <=> pc'[Main] = "up")
  BY <1>2, <1>3, <1>4 DEF ControlInv
<1>6. \A d \in Clients : op'[d] # "start" /\ pc'[d] \in PlacesOf(op'[d])
  BY <1>2, <1>4 DEF ControlInv
<1>7. ~serving' => Idle'
  BY <1>1, <1>2, <1>4 DEF ControlInv, Idle, Busy
<1> QED
  BY <1>4, <1>5, <1>6, <1>7 DEF ControlInv, PlacesOf

\* And it ends with the answer.
LEMMA ReplyControl ==
    ASSUME ThreadsOK, ControlInv, NEW c \in Clients, Reply(c), serving' = serving
    PROVE  ControlInv'
<1>1. Main \in Threads /\ Clients \subseteq Threads /\ Main # c
  BY DaemonConstants DEF Threads
<1>2. \A d \in Threads : /\ pc'[d] = IF d = c THEN "idle" ELSE pc[d]
                         /\ op'[d] = IF d = c THEN "none" ELSE op[d]
  BY DEF Reply, Clear, ThreadsOK
<1>3. \A d \in Clients : op'[d] # "start" /\ pc'[d] \in PlacesOf(op'[d])
  BY <1>1, <1>2 DEF ControlInv, PlacesOf
<1> QED
  BY <1>1, <1>2, <1>3 DEF ControlInv, Idle, PlacesOf

LEMMA BeginControl ==
    ASSUME ThreadsOK, ControlInv, NEW c \in Clients, NEW what, NEW to, NEW t, NEW mode,
           Begin(c, what, to, t, mode), what # "start", to \in PlacesOf(what),
           serving' = serving
    PROVE  ControlInv'
<1>1. Main \in Threads /\ Clients \subseteq Threads /\ Main # c
  BY DaemonConstants DEF Threads
<1>2. \A d \in Threads : /\ pc'[d] = IF d = c THEN to ELSE pc[d]
                         /\ op'[d] = IF d = c THEN what ELSE op[d]
  BY DEF Begin, ThreadsOK
<1>3. \A d \in Clients : op'[d] # "start" /\ pc'[d] \in PlacesOf(op'[d])
  BY <1>1, <1>2 DEF ControlInv
<1> QED
  BY <1>1, <1>2, <1>3 DEF ControlInv, PlacesOf, Begin

\* Which threads a place is for.
LEMMA WhoIsThere ==
    ASSUME ControlInv, NEW c \in Threads
    PROVE  /\ c \in Clients => (pc[c] # "idle" <=> op[c] \in {"connect", "set", "disconnect"})
           /\ c = Main => pc[c] \in {"down", "up"} \union StartPlaces
           /\ c = Main /\ pc[c] \in StartPlaces => op[c] = "start"
           /\ c = Main \/ c \in Clients
  BY DEF ControlInv, Threads, PlacesOf

LEMMA StepControl ==
    ASSUME ThreadsOK, ControlInv, NEW c \in Threads, ThreadStep(c)
    PROVE  ControlInv'
<1> USE DaemonConstants
<1>w. /\ c = Main \/ c \in Clients
      /\ c \in Clients => op[c] # "start" /\ pc[c] \in PlacesOf(op[c])
      /\ c = Main => /\ pc[c] \in {"down", "up"} \union StartPlaces
                     /\ pc[c] \in StartPlaces => op[c] = "start"
  BY DEF ControlInv, Threads
<1>g. ASSUME NEW to, Goto(c, to), serving' = serving, pc[c] \notin {"idle", "down", "up"},
             c \in Clients => to \in PlacesOf(op[c]), c = Main => to \in StartPlaces
      PROVE  ControlInv'
  BY <1>g, <1>w, GotoControl DEF Goto, Busy
<1>r. ASSUME Reply(c), serving' = serving, c \in Clients
      PROVE  ControlInv'
  BY <1>r, ReplyControl
<1>t. ASSUME Return(c), serving' = serving, pc[c] \in {"cgroupOn", "store"}
      PROVE  ControlInv'
  <2>1. CASE c = Main
    <3>1. Goto(c, "cleanup")
      BY <1>w, <1>t, <2>1 DEF Return, StartPlaces
    <3> QED
      BY <1>g, <1>t, <2>1, <3>1 DEF StartPlaces
  <2>2. CASE c \in Clients /\ op[c] = "connect"
    BY <1>g, <1>t, <2>2 DEF Return, PlacesOf
  <2>3. CASE c \in Clients /\ op[c] # "connect"
    BY <1>r, <1>w, <1>t, <2>3 DEF Return
  <2> QED
    BY <1>w, <2>1, <2>2, <2>3
<1>1. CASE WgConnect(c)
  BY <1>g, <1>w, <1>1 DEF WgConnect, PlacesOf, StartPlaces
<1>2. CASE WgConnectRefused(c)
  BY <1>r, <1>w, <1>2 DEF WgConnectRefused, StartPlaces
<1>3. CASE WgConnectFails(c)
  BY <1>r, <1>w, <1>3 DEF WgConnectFails, StartPlaces
<1>4. CASE SetIface(c)
  BY <1>g, <1>w, <1>4 DEF SetIface, PlacesOf, StartPlaces
<1>5. CASE ReadSettings(c)
  <2>1. c \in Clients /\ op[c] = "connect" /\ Busy(c)
    BY <1>w, <1>5 DEF ReadSettings, PlacesOf, StartPlaces, Busy
  <2> QED
    BY <1>5, <2>1, GotoControl DEF ReadSettings, PlacesOf
<1>6. CASE DnsApply(c)
  BY <1>g, <1>w, <1>6 DEF DnsApply, PlacesOf, StartPlaces
<1>7. CASE Activate(c)
  BY <1>r, <1>w, <1>7 DEF Activate, StartPlaces
<1>8. CASE CgroupOn(c)
  <2>1. c \in Clients => "readIface" \in PlacesOf(op[c])
    BY <1>w, <1>8 DEF CgroupOn, PlacesOf
  <2> QED
    BY <1>g, <1>t, <1>8, <2>1 DEF CgroupOn, StartPlaces
<1>9. CASE CgroupOff(c)
  BY <1>g, <1>w, <1>9 DEF CgroupOff, PlacesOf, StartPlaces
<1>10. CASE ReadIface(c)
  <2>1. /\ c \in Clients => Busy(c) /\ {"store", "tableOff"} \subseteq PlacesOf(op[c])
        /\ c = Main => pc[c] \in StartPlaces /\ {"store", "tableOff"} \subseteq StartPlaces
    BY <1>w, <1>10 DEF ReadIface, PlacesOf, StartPlaces, Busy
  <2> QED
    BY <1>10, <2>1, GotoControl DEF ReadIface
<1>a. ASSUME pc[c] \in {"tableOff", "tableOn"}
      PROVE  /\ c \in Clients => AfterTable(c) \in PlacesOf(op[c])
             /\ c = Main => AfterTable(c) \in StartPlaces
  BY <1>w, <1>a DEF AfterTable, PlacesOf, StartPlaces
<1>11. CASE TableOff(c)
  <2>1. c \in Clients => "tableOn" \in PlacesOf(op[c])
    BY <1>w, <1>11 DEF TableOff, PlacesOf
  <2> QED
    BY <1>g, <1>a, <1>11, <2>1 DEF TableOff, StartPlaces
<1>12. CASE TableOn(c)
  BY <1>g, <1>a, <1>12 DEF TableOn
<1>13. CASE FlagDisabled(c)
  BY <1>g, <1>w, <1>13 DEF FlagDisabled, PlacesOf, StartPlaces
<1>14. CASE StoreSettings(c)
  BY <1>t, <1>14 DEF StoreSettings
<1>15. CASE ClearIface(c)
  BY <1>g, <1>w, <1>15 DEF ClearIface, PlacesOf, StartPlaces
<1>16. CASE DnsRestore(c)
  BY <1>g, <1>w, <1>16 DEF DnsRestore, PlacesOf, StartPlaces
<1>17. CASE WgDisconnect(c)
  BY <1>g, <1>w, <1>17 DEF WgDisconnect, PlacesOf, StartPlaces
<1>18. CASE WgDisconnectFails(c)
  BY <1>r, <1>w, <1>18 DEF WgDisconnectFails, StartPlaces
<1>19. CASE Deactivate(c)
  BY <1>r, <1>w, <1>19 DEF Deactivate, StartPlaces
<1>20. CASE DnsApplyFails(c)
  BY <1>g, <1>w, <1>20 DEF DnsApplyFails, PlacesOf, StartPlaces
<1>21. CASE DnsRestoreFails(c)
  BY <1>g, <1>w, <1>21 DEF DnsRestoreFails, PlacesOf, StartPlaces
<1>22. CASE WgDisconnectSkips(c)
  BY <1>g, <1>w, <1>22 DEF WgDisconnectSkips, PlacesOf, StartPlaces
<1> QED
  BY <1>1, <1>2, <1>3, <1>4, <1>5, <1>6, <1>7, <1>8, <1>9, <1>10, <1>11, <1>12,
     <1>13, <1>14, <1>15, <1>16, <1>17, <1>18, <1>19, <1>20, <1>21, <1>22 DEF ThreadStep

LEMMA NextControl == TypeOK /\ ControlInv /\ [Next]_vars => ControlInv'
<1> SUFFICES ASSUME TypeOK, ControlInv, [Next]_vars PROVE ControlInv'
  OBVIOUS
<1> USE DaemonConstants
<1>0. ThreadsOK
  BY DEF TypeOK
<1>t. Main \in Threads /\ Clients \subseteq Threads
  BY DEF Threads
<1>u. ASSUME UNCHANGED <<threadVars, serving>> PROVE ControlInv'
  BY <1>u DEF threadVars, ControlInv, Idle
<1>1. ASSUME NEW c \in Clients, NEW t \in Tunnels, ConnectTunnel(c, t) PROVE ControlInv'
  BY <1>0, <1>1, BeginControl DEF ConnectTunnel, PlacesOf
<1>2. ASSUME NEW c \in Clients, NEW mode \in Modes, SetSplitTunneling(c, mode)
      PROVE  ControlInv'
  BY <1>0, <1>2, BeginControl DEF SetSplitTunneling, PlacesOf
<1>3. ASSUME NEW c \in Clients, DisconnectTunnel(c) PROVE ControlInv'
  BY <1>0, <1>3, BeginControl DEF DisconnectTunnel, PlacesOf
<1>4. ASSUME NEW c \in Threads, ThreadStep(c) PROVE ControlInv'
  BY <1>0, <1>4, StepControl
<1>5. ASSUME NEW mode \in Modes, Start(mode) PROVE ControlInv'
  <2>1. /\ \A c \in Clients : pc'[c] = pc[c] /\ op'[c] = op[c]
        /\ pc'[Main] \in {"cgroupOn", "cleanup"} /\ op'[Main] = "start"
        /\ serving' = serving /\ pc[Main] = "down"
    BY <1>0, <1>t, <1>5 DEF Start, ThreadsOK
  <2> QED
    BY <2>1 DEF ControlInv, Idle, StartPlaces
<1>6. CASE CleanupStale \/ CleanupStaleFails
  <2>1. /\ \A c \in Clients : pc'[c] = pc[c] /\ op'[c] = op[c]
        /\ pc'[Main] = "up" /\ serving' = TRUE
    BY <1>0, <1>t, <1>6 DEF CleanupStale, CleanupStaleFails, Clear, ThreadsOK
  <2> QED
    BY <2>1 DEF ControlInv, StartPlaces
<1>7. CASE Crash
  BY <1>t, <1>7 DEF Crash, ControlInv, PlacesOf, StartPlaces, Idle
<1>8. CASE Capture \/ ProcessExits \/ LinkLost
  BY <1>u, <1>8 DEF Capture, ProcessExits, LinkLost
<1>9. CASE UNCHANGED vars
  BY <1>u, <1>9 DEF vars
<1> QED
  BY <1>1, <1>2, <1>3, <1>4, <1>5, <1>6, <1>7, <1>8, <1>9 DEF Next

-----------------------------------------------------------------------------
\* Who is at work

Untouched(d) ==
    /\ pc'[d] = pc[d] /\ op'[d] = op[d] /\ iface'[d] = iface[d]
    /\ on'[d] = on[d] /\ seen'[d] = seen[d]

\* A thread that steps is at work, leaves the other threads alone, and keeps its
\* request until it has answered.
LEMMA StepMoves ==
    ASSUME ThreadsOK, NEW c \in Threads, ThreadStep(c)
    PROVE  /\ pc[c] \notin {"idle", "down", "up"}
           /\ serving' = serving
           /\ \A d \in Threads \ {c} : Untouched(d)
           /\ \/ op'[c] = op[c] /\ iface'[c] = iface[c]
              \/ pc'[c] = "idle" /\ op'[c] = "none"
<1> USE DEF ThreadsOK
<1>g. ASSUME NEW to, Goto(c, to)
      PROVE  /\ \A d \in Threads \ {c} : Untouched(d)
             /\ op'[c] = op[c] /\ iface'[c] = iface[c]
  BY <1>g DEF Goto, Untouched
<1>r. ASSUME Reply(c)
      PROVE  /\ \A d \in Threads \ {c} : Untouched(d)
             /\ pc'[c] = "idle" /\ op'[c] = "none"
  BY <1>r DEF Reply, Clear, Untouched
<1>t. ASSUME Return(c)
      PROVE  /\ \A d \in Threads \ {c} : Untouched(d)
             /\ \/ op'[c] = op[c] /\ iface'[c] = iface[c]
                \/ pc'[c] = "idle" /\ op'[c] = "none"
  BY <1>g, <1>r, <1>t DEF Return
<1>1. CASE WgConnect(c)
  BY <1>g, <1>1 DEF WgConnect
<1>2. CASE WgConnectRefused(c) \/ WgConnectFails(c)
  BY <1>r, <1>2 DEF WgConnectRefused, WgConnectFails
<1>3. CASE SetIface(c)
  BY <1>g, <1>3 DEF SetIface
<1>4. CASE ReadSettings(c)
  BY <1>4 DEF ReadSettings, Untouched
<1>5. CASE DnsApply(c) \/ DnsApplyFails(c) \/ DnsRestoreFails(c) \/ WgDisconnectSkips(c)
  BY <1>g, <1>5 DEF DnsApply, DnsApplyFails, DnsRestoreFails, WgDisconnectSkips
<1>6. CASE Activate(c) \/ Deactivate(c)
  BY <1>r, <1>6 DEF Activate, Deactivate
<1>7. CASE CgroupOn(c)
  BY <1>g, <1>t, <1>7 DEF CgroupOn
<1>8. CASE CgroupOff(c)
  BY <1>g, <1>8 DEF CgroupOff
<1>9. CASE ReadIface(c)
  BY <1>9 DEF ReadIface, Untouched
<1>10. CASE TableOff(c)
  BY <1>g, <1>10 DEF TableOff
<1>11. CASE TableOn(c)
  BY <1>g, <1>11 DEF TableOn
<1>12. CASE FlagDisabled(c)
  BY <1>g, <1>12 DEF FlagDisabled
<1>13. CASE StoreSettings(c)
  BY <1>t, <1>13 DEF StoreSettings
<1>14. CASE ClearIface(c) \/ DnsRestore(c) \/ WgDisconnect(c)
  BY <1>g, <1>14 DEF ClearIface, DnsRestore, WgDisconnect
<1>15. CASE WgDisconnectFails(c)
  BY <1>r, <1>15 DEF WgDisconnectFails
<1> QED
  BY <1>1, <1>2, <1>3, <1>4, <1>5, <1>6, <1>7, <1>8, <1>9, <1>10, <1>11, <1>12,
     <1>13, <1>14, <1>15 DEF ThreadStep

\* The first step of a connect that has the daemon to itself: what went wrong
\* before no longer matters.
Fresh(c) ==
    /\ WgConnect(c) /\ recent' = {} /\ active = NoTunnel
    /\ \A d \in Clients \ {c} : ~Busy(d)

\* Otherwise nothing is forgotten.
LEMMA StepRemembers ==
    ASSUME HistoryOK, NEW c \in Threads, ThreadStep(c)
    PROVE  recent \subseteq recent' \/ Fresh(c)
<1>h. ASSUME UNCHANGED history PROVE recent \subseteq recent'
  BY <1>h DEF history
<1>k. ASSUME NEW kind \in {"wg", "split", "kept"}, Harm(kind) PROVE recent \subseteq recent'
  BY <1>k DEF Harm, Recently
<1>1. CASE WgConnect(c)
  BY <1>1 DEF WgConnect, Fresh, Busy
<1>2. CASE WgConnectFails(c) \/ WgDisconnectFails(c) \/ WgDisconnectSkips(c)
  BY <1>k, <1>2 DEF WgConnectFails, WgDisconnectFails, WgDisconnectSkips
<1>9. CASE DnsApplyFails(c) \/ DnsRestoreFails(c)
  BY <1>9 DEF DnsApplyFails, DnsRestoreFails
<1>3. CASE CgroupOn(c)
  BY <1>h, <1>k, <1>3 DEF CgroupOn
<1>4. CASE TableOn(c)
  BY <1>h, <1>k, <1>4 DEF TableOn
<1>5. CASE WgConnectRefused(c) \/ SetIface(c) \/ ReadSettings(c)
  BY <1>h, <1>5 DEF WgConnectRefused, SetIface, ReadSettings
<1>6. CASE DnsApply(c) \/ Activate(c) \/ CgroupOff(c) \/ ReadIface(c) \/ TableOff(c)
  BY <1>h, <1>6 DEF DnsApply, Activate, CgroupOff, ReadIface, TableOff
<1>7. CASE FlagDisabled(c) \/ StoreSettings(c) \/ ClearIface(c) \/ DnsRestore(c)
  BY <1>h, <1>7 DEF FlagDisabled, StoreSettings, ClearIface, DnsRestore
<1>8. CASE WgDisconnect(c) \/ Deactivate(c)
  BY <1>h, <1>8 DEF WgDisconnect, Deactivate
<1> QED
  BY <1>1, <1>2, <1>3, <1>4, <1>5, <1>6, <1>7, <1>8, <1>9 DEF ThreadStep

\* A request begins with the daemon to itself, or the overlap is on record.
LEMMA BeginRemembers ==
    ASSUME NEW c \in Clients, NEW what, NEW to, NEW t, NEW mode, ThreadsOK,
           Begin(c, what, to, t, mode), Overlap
    PROVE  /\ serving /\ ~Busy(c)
           /\ pc'[c] = to /\ op'[c] = what /\ iface'[c] = t /\ on'[c] = mode
           /\ \A d \in Threads \ {c} : Untouched(d)
           /\ \/ Overlapped' /\ recent' # {}
              \/ Idle /\ recent' = recent /\ dnsRisk' = dnsRisk
<1>1. c \in Threads
  BY DEF Threads
<1> QED
  BY <1>1 DEF Begin, ThreadsOK, Overlap, Recently, Overlapped, Untouched, Busy, history

\* A connect begins so too, or it leaves an interface behind.
LEMMA ConnectRemembers ==
    ASSUME ThreadsOK, NEW c \in Clients, NEW t \in Tunnels, ConnectTunnel(c, t)
    PROVE  /\ serving /\ ~Busy(c)
           /\ pc'[c] = "wgConnect" /\ op'[c] = "connect" /\ iface'[c] = t
           /\ \A d \in Threads \ {c} : Untouched(d)
           /\ \/ Overlapped' /\ recent' # {}
              \/ Idle /\ recent' = recent /\ dnsRisk' = dnsRisk /\ active \notin links
              \/ Idle /\ recent \subseteq recent' /\ (Kept' \/ Overlapped') /\ recent' # {} /\ dnsRisk'
<1>1. c \in Threads
  BY DEF Threads
<1>2. Begin(c, "connect", "wgConnect", t, "off")
  BY DEF ConnectTunnel
<1>3. CASE active \in links /\ Idle
  <2>1. Recently("kept") /\ dnsRisk' = TRUE
    BY <1>3 DEF ConnectTunnel
  <2> QED
    BY <1>1, <1>2, <1>3, <2>1
       DEF Begin, ThreadsOK, Recently, Overlapped, Kept, Untouched, Busy
<1>4. CASE ~(active \in links /\ Idle)
  <2>1. Overlap
    BY <1>4 DEF ConnectTunnel
  <2>2. \/ Overlapped' /\ recent' # {}
        \/ Idle /\ recent' = recent /\ dnsRisk' = dnsRisk
    BY <2>1 DEF Overlap, Recently, Overlapped, history
  <2> QED
    BY <1>1, <1>2, <1>4, <2>2 DEF Begin, ThreadsOK, Untouched, Busy
<1> QED
  BY <1>3, <1>4

LEMMA NextRequest == TypeOK /\ ControlInv /\ RequestInv /\ [Next]_vars => RequestInv'
<1> SUFFICES ASSUME TypeOK, ControlInv, RequestInv, [Next]_vars PROVE RequestInv'
  OBVIOUS
<1>0. ThreadsOK /\ Clients \subseteq Threads /\ Main \in Threads /\ Main \notin Clients
  BY DaemonConstants DEF TypeOK, Threads
<1>u. ASSUME UNCHANGED <<op, iface, active>>, serving' = serving \/ serving'
      PROVE  RequestInv'
  BY <1>u DEF RequestInv
<1>1. ASSUME NEW c \in Clients, NEW t \in Tunnels, ConnectTunnel(c, t) PROVE RequestInv'
  <2>1. \A d \in Clients : iface'[d] = IF d = c THEN t ELSE iface[d]
    BY <1>0, <1>1 DEF ConnectTunnel, Begin, ThreadsOK
  <2>2. \A d \in Clients : d # c => op'[d] = op[d]
    BY <1>0, <1>1 DEF ConnectTunnel, Begin, ThreadsOK
  <2> QED
    BY <1>1, <2>1, <2>2 DEF RequestInv, ConnectTunnel
<1>2. ASSUME NEW c \in Clients, NEW mode \in Modes, SetSplitTunneling(c, mode)
      PROVE  RequestInv'
  <2>1. \A d \in Clients : op'[d] = "connect" => op[d] = "connect" /\ iface'[d] = iface[d]
    BY <1>0, <1>2 DEF SetSplitTunneling, Begin, ThreadsOK
  <2> QED
    BY <1>2, <2>1 DEF RequestInv, SetSplitTunneling
<1>3. ASSUME NEW c \in Clients, DisconnectTunnel(c) PROVE RequestInv'
  <2>1. \A d \in Clients : op'[d] = "connect" => op[d] = "connect" /\ iface'[d] = iface[d]
    BY <1>0, <1>3 DEF DisconnectTunnel, Begin, ThreadsOK
  <2> QED
    BY <1>3, <2>1 DEF RequestInv, DisconnectTunnel
<1>4. ASSUME NEW c \in Threads, ThreadStep(c) PROVE RequestInv'
  <2>1. \A d \in Clients : op'[d] = "connect" => op[d] = "connect" /\ iface'[d] = iface[d]
    BY <1>0, <1>4, StepMoves DEF Untouched
  <2>2. serving' = serving
    BY <1>0, <1>4, StepMoves
  <2>3. active' = active \/ active' = NoTunnel \/ Activate(c)
    BY <1>4 DEF ThreadStep, WgConnect, WgConnectRefused, WgConnectFails, SetIface,
          ReadSettings, DnsApply, DnsApplyFails, CgroupOn, CgroupOff, ReadIface, TableOff,
          TableOn, FlagDisabled, StoreSettings, ClearIface, DnsRestore, DnsRestoreFails,
          WgDisconnect, WgDisconnectSkips, WgDisconnectFails, Deactivate
  <2>4. Activate(c) => serving
    <3> SUFFICES ASSUME Activate(c) PROVE serving
      OBVIOUS
    <3>1. c \in Clients /\ ~(pc[c] = "idle")
      BY WhoIsThere DEF Activate, StartPlaces
    <3> QED
      BY <3>1 DEF ControlInv, Idle
  <2> QED
    BY <2>1, <2>2, <2>3, <2>4 DEF RequestInv
<1>5. ASSUME NEW mode \in Modes, Start(mode) PROVE RequestInv'
  <2>1. \A d \in Clients : op'[d] = op[d] /\ iface'[d] = iface[d]
    BY <1>0, <1>5 DEF Start, ThreadsOK
  <2> QED
    BY <1>5, <2>1 DEF RequestInv, Start
<1>6. CASE CleanupStale \/ CleanupStaleFails
  <2>1. \A d \in Clients : op'[d] = op[d] /\ iface'[d] = iface[d]
    BY <1>0, <1>6 DEF CleanupStale, CleanupStaleFails, Clear, ThreadsOK
  <2> QED
    BY <1>6, <2>1 DEF RequestInv, CleanupStale, CleanupStaleFails
<1>7. CASE Crash
  BY <1>0, <1>7 DEF Crash, RequestInv
<1>8. CASE Capture \/ ProcessExits \/ LinkLost
  BY <1>u, <1>8 DEF Capture, ProcessExits, LinkLost, threadVars
<1>9. CASE UNCHANGED vars
  BY <1>u, <1>9 DEF vars, threadVars
<1> QED
  BY <1>1, <1>2, <1>3, <1>4, <1>5, <1>6, <1>7, <1>8, <1>9 DEF Next

LEMMA NextAlone == TypeOK /\ ControlInv /\ AloneInv /\ [Next]_vars => AloneInv'
<1> SUFFICES ASSUME TypeOK, ControlInv, AloneInv, [Next]_vars, ~Overlapped'
             PROVE  \A c, d \in Clients : Busy(c)' /\ Busy(d)' => c = d
  BY DEF AloneInv
<1>0. /\ ThreadsOK /\ HistoryOK
      /\ Clients \subseteq Threads /\ Main \in Threads /\ Main \notin Clients
  BY DaemonConstants, TypeParts DEF Threads
<1>u. ASSUME recent \subseteq recent', \A c \in Clients : pc'[c] = pc[c]
      PROVE  \A c, d \in Clients : Busy(c)' /\ Busy(d)' => c = d
  BY <1>u DEF AloneInv, Overlapped, Busy
<1>b. ASSUME NEW c \in Clients, NEW what, NEW to, NEW t, NEW mode,
             Begin(c, what, to, t, mode), Overlap
      PROVE  \A e, d \in Clients : Busy(e)' /\ Busy(d)' => e = d
  <2>1. Idle /\ \A d \in Threads \ {c} : Untouched(d)
    BY <1>0, <1>b, BeginRemembers
  <2> QED
    BY <1>0, <2>1 DEF Idle, Untouched, Busy
<1>1. ASSUME NEW c \in Threads, ThreadStep(c)
      PROVE  \A e, d \in Clients : Busy(e)' /\ Busy(d)' => e = d
  <2>1. Busy(c) /\ \A d \in Clients \ {c} : Busy(d)' <=> Busy(d)
    BY <1>0, <1>1, StepMoves DEF Untouched, Busy
  <2>2. CASE recent \subseteq recent'
    BY <2>1, <2>2 DEF AloneInv, Overlapped
  <2>3. CASE Fresh(c)
    BY <2>1, <2>3 DEF Fresh
  <2> QED
    BY <1>0, <1>1, <2>2, <2>3, StepRemembers
<1>2. ASSUME NEW mode \in Modes, Start(mode)
      PROVE  \A c, d \in Clients : Busy(c)' /\ Busy(d)' => c = d
  BY <1>0, <1>2, <1>u DEF Start, history, ThreadsOK
<1>3. CASE CleanupStale \/ CleanupStaleFails
  BY <1>0, <1>3, <1>u DEF CleanupStale, CleanupStaleFails, Recently, history, ThreadsOK
<1>8. ASSUME NEW c \in Clients, NEW t \in Tunnels, ConnectTunnel(c, t)
      PROVE  \A e, d \in Clients : Busy(e)' /\ Busy(d)' => e = d
  <2>1. Idle /\ \A d \in Threads \ {c} : Untouched(d)
    BY <1>0, <1>8, ConnectRemembers
  <2> QED
    BY <1>0, <2>1 DEF Idle, Untouched, Busy
<1>4. CASE Crash
  BY <1>0, <1>4 DEF Crash, Busy
<1>5. CASE Capture \/ ProcessExits
  BY <1>5, <1>u DEF Capture, ProcessExits, history, threadVars
<1>6. CASE LinkLost
  BY <1>6, <1>u DEF LinkLost, Recently, threadVars
<1>7. CASE UNCHANGED vars
  BY <1>7, <1>u DEF vars, history, threadVars
<1> QED
  BY <1>b, <1>1, <1>2, <1>3, <1>4, <1>5, <1>6, <1>7, <1>8
     DEF Next, SetSplitTunneling, DisconnectTunnel

-----------------------------------------------------------------------------
\* The interface

\* What holds of a daemon that serves, whatever overlapped.
BaseInv == TypeOK /\ ControlInv /\ RequestInv /\ AloneInv

\* A step of a daemon that serves is a client's.  Unless an overlap is on record
\* the other clients are idle, before the step and after it.
LEMMA StepAlone ==
    ASSUME BaseInv, NEW c \in Threads, ThreadStep(c), serving', ~Overlapped'
    PROVE  /\ c \in Clients /\ serving /\ Busy(c)
           /\ op[c] \in {"connect", "set", "disconnect"} /\ pc[c] \in PlacesOf(op[c])
           /\ \A d \in Clients \ {c} : /\ Untouched(d)
                                       /\ ~Busy(d) /\ ~Busy(d)'
           /\ Fresh(c) \/ (~Overlapped /\ recent \subseteq recent')
           /\ Idle' <=> pc'[c] = "idle"
<1>0. /\ ThreadsOK /\ HistoryOK
      /\ Clients \subseteq Threads /\ Main \in Threads /\ Main \notin Clients
  BY DaemonConstants, TypeParts DEF Threads, BaseInv
<1>1. /\ pc[c] \notin {"idle", "down", "up"} /\ serving' = serving
      /\ \A d \in Threads \ {c} : Untouched(d)
  BY <1>0, StepMoves
<1>2. c \in Clients /\ Busy(c)
  BY <1>1 DEF BaseInv, ControlInv, Threads, Busy
<1>3. op[c] \in {"connect", "set", "disconnect"} /\ pc[c] \in PlacesOf(op[c])
  BY <1>0, <1>2 DEF BaseInv, ControlInv, PlacesOf, Busy, ThreadsOK
<1>4. Fresh(c) \/ (~Overlapped /\ recent \subseteq recent')
  BY <1>0, StepRemembers DEF Overlapped
<1>5. \A d \in Clients \ {c} : ~Busy(d)
  BY <1>2, <1>4 DEF BaseInv, AloneInv, Fresh
<1>6. \A d \in Clients \ {c} : Untouched(d) /\ ~Busy(d) /\ ~Busy(d)'
  BY <1>0, <1>1, <1>5 DEF Untouched, Busy
<1>7. Idle' <=> pc'[c] = "idle"
  BY <1>2, <1>6 DEF Idle, Busy
<1> QED
  BY <1>1, <1>2, <1>3, <1>4, <1>6, <1>7

\* What WorkInv says of the client c.
WorkFits(c) ==
    Busy(c) => /\ op[c] = "connect" => active = NoTunnel
               /\ op[c] = "disconnect" => iface[c] = active

LEMMA NextWork == BaseInv /\ WorkInv /\ [Next]_vars => WorkInv'
<1> SUFFICES ASSUME BaseInv, WorkInv, [Next]_vars, serving', ~Overlapped'
             PROVE  WorkInv'
  BY DEF WorkInv
<1>0. /\ ThreadsOK /\ RestOK /\ HistoryOK
      /\ Clients \subseteq Threads /\ Main \in Threads /\ Main \notin Clients
  BY DaemonConstants, TypeParts DEF Threads, BaseInv
<1>u. ASSUME recent \subseteq recent', UNCHANGED <<threadVars, serving, active>>
      PROVE  WorkInv'
  <2>1. serving /\ ~Overlapped /\ UNCHANGED <<pc, op, iface>>
    BY <1>u DEF Overlapped, threadVars
  <2> QED
    BY <1>u, <2>1 DEF WorkInv, Busy
\* Only the client that steps matters.
<1>o. ASSUME NEW c \in Clients, \A d \in Clients \ {c} : ~Busy(d)', WorkFits(c)'
      PROVE  WorkInv'
  BY <1>o DEF WorkInv, WorkFits
<1>1. ASSUME NEW c \in Clients, NEW t \in Tunnels, ConnectTunnel(c, t) PROVE WorkInv'
  <2>1. /\ op'[c] = "connect" /\ Idle
        /\ \A d \in Threads \ {c} : Untouched(d)
    BY <1>0, <1>1, ConnectRemembers
  <2>2. \A d \in Clients \ {c} : ~Busy(d)'
    BY <1>0, <2>1 DEF Idle, Untouched, Busy
  <2>3. active' = NoTunnel
    BY <1>1 DEF ConnectTunnel
  <2> QED
    BY <1>o, <2>1, <2>2, <2>3 DEF WorkFits
<1>2. ASSUME NEW c \in Clients, NEW mode \in Modes, SetSplitTunneling(c, mode)
      PROVE  WorkInv'
  <2>1. /\ op'[c] = "set" /\ Idle
        /\ \A d \in Threads \ {c} : Untouched(d)
    BY <1>0, <1>2, BeginRemembers DEF SetSplitTunneling, Overlapped
  <2>2. \A d \in Clients \ {c} : ~Busy(d)'
    BY <1>0, <2>1 DEF Idle, Untouched, Busy
  <2> QED
    BY <1>o, <2>1, <2>2 DEF WorkFits
<1>3. ASSUME NEW c \in Clients, DisconnectTunnel(c) PROVE WorkInv'
  <2>1. /\ op'[c] = "disconnect" /\ iface'[c] = active /\ Idle
        /\ \A d \in Threads \ {c} : Untouched(d)
    BY <1>0, <1>3, BeginRemembers, Zenon DEF DisconnectTunnel
  <2>2. \A d \in Clients \ {c} : ~Busy(d)'
    BY <1>0, <2>1 DEF Idle, Untouched, Busy
  <2>3. active' = active
    BY <1>3 DEF DisconnectTunnel
  <2> QED
    BY <1>o, <2>1, <2>2, <2>3 DEF WorkFits
<1>4. ASSUME NEW c \in Threads, ThreadStep(c) PROVE WorkInv'
  <2>1. /\ c \in Clients /\ serving /\ Busy(c) /\ pc[c] \in PlacesOf(op[c])
        /\ Fresh(c) \/ ~Overlapped
        /\ \A d \in Clients \ {c} : ~Busy(d)'
    BY <1>4, StepAlone
  <2>2. op[c] = "connect" => active = NoTunnel
    BY <2>1 DEF WorkInv, Fresh
  <2>3. op[c] = "disconnect" => iface[c] = active
    <3>1. Fresh(c) => op[c] = "connect"
      BY <2>1 DEF Fresh, WgConnect, PlacesOf
    <3> QED
      BY <2>1, <3>1 DEF WorkInv
  <2>4. \/ op'[c] = op[c] /\ iface'[c] = iface[c]
        \/ pc'[c] = "idle" /\ op'[c] = "none"
    BY <1>0, <1>4, StepMoves
  <2>5. active' = active \/ Activate(c) \/ Deactivate(c)
    BY <1>4 DEF ThreadStep, WgConnect, WgConnectRefused, WgConnectFails, SetIface,
          ReadSettings, DnsApply, DnsApplyFails, CgroupOn, CgroupOff, ReadIface, TableOff,
          TableOn, FlagDisabled, StoreSettings, ClearIface, DnsRestore, DnsRestoreFails,
          WgDisconnect, WgDisconnectSkips, WgDisconnectFails
  <2>6. Activate(c) \/ Deactivate(c) => pc'[c] = "idle"
    BY <1>0 DEF Activate, Deactivate, Reply, ThreadsOK
  <2> QED
    BY <1>o, <2>1, <2>2, <2>3, <2>4, <2>5, <2>6 DEF WorkFits, Busy
<1>5. ASSUME NEW mode \in Modes, Start(mode) PROVE FALSE
  BY <1>5 DEF Start, BaseInv, ControlInv
<1>6. CASE CleanupStale \/ CleanupStaleFails
  <2>1. Idle /\ \A c \in Clients : pc'[c] = pc[c]
    BY <1>0, <1>6
       DEF CleanupStale, CleanupStaleFails, BaseInv, ControlInv, ThreadsOK, StartPlaces
  <2> QED
    BY <2>1 DEF WorkInv, Idle, Busy
<1>7. CASE Crash
  BY <1>7 DEF Crash
<1>8. CASE Capture \/ ProcessExits
  BY <1>u, <1>8 DEF Capture, ProcessExits, history
<1>9. CASE LinkLost
  BY <1>u, <1>9 DEF LinkLost, Recently
<1>10. CASE UNCHANGED vars
  BY <1>u, <1>10 DEF vars, history, threadVars
<1> QED
  BY <1>1, <1>2, <1>3, <1>4, <1>5, <1>6, <1>7, <1>8, <1>9, <1>10 DEF Next

\* What LinkInv says of the client c, whose request may just have ended.
LinkFits(c) ==
    /\ pc[c] = "idle" => table \in {NoTunnel, active}
    /\ pc[c] # "idle" =>
        /\ table \in {NoTunnel, Own(c)}
        /\ pc[c] = "deactivate" => table = NoTunnel

LEMMA LinkStep ==
    ASSUME TypeOK, NEW c \in Clients, ThreadStep(c), WgConnect(c) \/ LinkFits(c),
           ~Overlapped', ~Kept', pc[c] \in PlacesOf(op[c]), pc[c] # "idle",
           op[c] = "connect" => active = NoTunnel,
           op[c] = "disconnect" => iface[c] = active
    PROVE  LinkFits(c)'
<1> USE DaemonConstants
<1>0. ThreadsOK /\ RestOK /\ c \in Threads
  BY TypeParts DEF Threads
<1>g. ASSUME NEW to, Goto(c, to) PROVE pc'[c] = to /\ op'[c] = op[c] /\ iface'[c] = iface[c]
  BY <1>0, <1>g DEF Goto, ThreadsOK
<1>r. ASSUME Reply(c) PROVE pc'[c] = "idle"
  BY <1>0, <1>r DEF Reply, ThreadsOK
\* Within a request the table and the active tunnel stay.
<1>s. ASSUME UNCHANGED <<table, active>>, LinkFits(c), pc[c] # "wgConnect",
             op'[c] = op[c] /\ iface'[c] = iface[c],
             pc'[c] \notin {"idle", "wgConnect", "deactivate"}
      PROVE  LinkFits(c)'
  BY <1>s DEF LinkFits, Own
<1>e. ASSUME UNCHANGED <<table, active>>, LinkFits(c), op[c] # "connect", pc'[c] = "idle"
      PROVE  LinkFits(c)'
  BY <1>e DEF LinkFits, Own
<1>t. ASSUME UNCHANGED <<table, active>>, LinkFits(c), Return(c), pc[c] # "wgConnect"
      PROVE  LinkFits(c)'
  BY <1>g, <1>r, <1>s, <1>e, <1>t DEF Return
<1>a. AfterTable(c) \notin {"idle", "wgConnect", "deactivate"}
  BY DEF AfterTable
<1>k. ASSUME NEW kind, Harm(kind), kind = "kept" PROVE FALSE
  BY <1>k DEF Harm, Recently, Kept, Overlapped
<1>1. CASE WgConnect(c)
  <2>1. op[c] = "connect"
    BY <1>1 DEF WgConnect, PlacesOf
  <2>2. pc'[c] = "setIface" /\ op'[c] = "connect" /\ iface'[c] = iface[c]
        /\ table' = iface[c]
    BY <1>g, <1>1, <2>1 DEF WgConnect
  <2> QED
    BY <2>2 DEF LinkFits, Own
<1>2. CASE WgConnectRefused(c)
  <2>1. op[c] = "connect" /\ pc[c] = "wgConnect" /\ LinkFits(c)
    BY <1>g, <1>r, <1>2 DEF WgConnect, WgConnectRefused, PlacesOf
  <2>2. table' = NoTunnel /\ pc'[c] = "idle"
    BY <1>r, <1>2, <2>1 DEF WgConnectRefused, LinkFits, Own
  <2> QED
    BY <2>2 DEF LinkFits
<1>3. CASE WgConnectFails(c)
  <2>1. op[c] = "connect" /\ pc[c] = "wgConnect"
    BY <1>3 DEF WgConnectFails, PlacesOf
  <2>2. pc'[c] = "idle"
    BY <1>r, <1>3 DEF WgConnectFails
  <2>3. LinkFits(c)
    BY <1>g, <2>1, <2>2 DEF WgConnect
  <2>4. table = NoTunnel
    BY <2>1, <2>3 DEF LinkFits, Own
  <2>5. PICK kept \in BOOLEAN :
          /\ table' \in IF table \notin {NoTunnel, iface[c]} THEN {table}
                        ELSE IF kept THEN {NoTunnel, iface[c]} ELSE {NoTunnel}
          /\ Harm(IF kept THEN "kept" ELSE "wg")
    BY <1>3 DEF WgConnectFails
  <2>6. table' = NoTunnel
    BY <1>k, <2>4, <2>5
  <2> QED
    BY <2>2, <2>6 DEF LinkFits
<1>4. CASE SetIface(c) \/ DnsApply(c) \/ DnsApplyFails(c) \/ FlagDisabled(c)
  <2>1. pc'[c] \in {"readSettings", "activate", "store"}
        /\ op'[c] = op[c] /\ iface'[c] = iface[c]
    BY <1>g, <1>4 DEF SetIface, DnsApply, DnsApplyFails, FlagDisabled
  <2>2. UNCHANGED <<table, active>> /\ pc[c] # "wgConnect"
    BY <1>4 DEF SetIface, DnsApply, DnsApplyFails, FlagDisabled, wgVars
  <2> QED
    BY <1>s, <2>1, <2>2 DEF WgConnect
<1>5. CASE CgroupOff(c)
  <2>1. pc'[c] \in {"clearIface", "readIface"}
        /\ op'[c] = op[c] /\ iface'[c] = iface[c]
    BY <1>g, <1>5 DEF CgroupOff
  <2> QED
    BY <1>s, <1>5, <2>1 DEF WgConnect, CgroupOff, wgVars
<1>6. CASE ReadSettings(c) \/ ReadIface(c)
  <2>1. op'[c] = op[c] /\ iface'[c] = iface[c]
        /\ pc'[c] \in {"cgroupOn", "tableOff", "store"}
    BY <1>0, <1>6 DEF ReadSettings, ReadIface, ThreadsOK
  <2> QED
    BY <1>s, <1>6, <2>1 DEF WgConnect, ReadSettings, ReadIface, wgVars
<1>7. CASE Activate(c)
  <2>1. op[c] = "connect" /\ pc[c] = "activate" /\ LinkFits(c)
    BY <1>7 DEF WgConnect, Activate, PlacesOf
  <2>2. pc'[c] = "idle" /\ active' = iface[c] /\ table' = table
    BY <1>r, <1>7 DEF Activate, wgVars
  <2> QED
    BY <2>1, <2>2 DEF LinkFits, Own
<1>8. CASE CgroupOn(c)
  BY <1>g, <1>s, <1>t, <1>8 DEF WgConnect, CgroupOn, wgVars
<1>9. CASE TableOff(c)
  BY <1>g, <1>s, <1>a, <1>9 DEF WgConnect, TableOff, wgVars
<1>10. CASE TableOn(c)
  BY <1>g, <1>s, <1>a, <1>10 DEF WgConnect, TableOn, wgVars
<1>11. CASE StoreSettings(c)
  BY <1>t, <1>11 DEF WgConnect, StoreSettings, wgVars
<1>12. CASE ClearIface(c) \/ DnsRestore(c) \/ DnsRestoreFails(c)
  <2>1. pc'[c] \in {"dnsRestore", "wgDisconnect"}
        /\ op'[c] = op[c] /\ iface'[c] = iface[c]
    BY <1>g, <1>12 DEF ClearIface, DnsRestore, DnsRestoreFails
  <2>2. UNCHANGED <<table, active>> /\ pc[c] # "wgConnect"
    BY <1>12 DEF ClearIface, DnsRestore, DnsRestoreFails, wgVars
  <2> QED
    BY <1>s, <2>1, <2>2 DEF WgConnect
<1>13. CASE WgDisconnect(c)
  <2>1. op[c] = "disconnect" /\ pc[c] = "wgDisconnect" /\ LinkFits(c)
    BY <1>13 DEF WgConnect, WgDisconnect, PlacesOf
  <2>2. table \in {NoTunnel, iface[c]}
    BY <2>1 DEF LinkFits, Own
  <2>3. table' = NoTunnel
    BY <1>0, <1>13, <2>2 DEF WgDisconnect, Removed, wgVars, RestOK
  <2> QED
    BY <1>g, <1>13, <2>1, <2>3 DEF WgDisconnect, LinkFits
<1>14. CASE WgDisconnectSkips(c)
  BY <1>k, <1>14 DEF WgDisconnectSkips
<1>15. CASE WgDisconnectFails(c)
  <2>1. op[c] = "disconnect" /\ pc[c] = "wgDisconnect" /\ LinkFits(c)
    BY <1>15 DEF WgConnect, WgDisconnectFails, PlacesOf
  <2>2. pc'[c] = "idle" /\ active' = active /\ table' \in {table, NoTunnel}
    BY <1>r, <1>15 DEF WgDisconnectFails
  <2> QED
    BY <2>1, <2>2 DEF LinkFits, Own
<1>16. CASE Deactivate(c)
  BY <1>r, <1>16 DEF WgConnect, Deactivate, LinkFits, wgVars
<1> QED
  BY <1>1, <1>2, <1>3, <1>4, <1>5, <1>6, <1>7, <1>8, <1>9, <1>10, <1>11, <1>12, <1>13,
     <1>14, <1>15, <1>16 DEF ThreadStep

LEMMA NextLink == BaseInv /\ WorkInv /\ LinkInv /\ [Next]_vars => LinkInv'
<1> SUFFICES ASSUME BaseInv, WorkInv, LinkInv, [Next]_vars, serving', ~Overlapped', ~Kept'
             PROVE  LinkInv'
  BY DEF LinkInv
<1>0. /\ ThreadsOK /\ RestOK /\ HistoryOK /\ TypeOK
      /\ Clients \subseteq Threads /\ Main \in Threads /\ Main \notin Clients
  BY DaemonConstants, TypeParts DEF Threads, BaseInv
<1>u. ASSUME recent \subseteq recent', UNCHANGED <<threadVars, serving, active>>,
             table' = table \/ table' = NoTunnel
      PROVE  LinkInv'
  <2>1. serving /\ ~Overlapped /\ ~Kept
    BY <1>u DEF Overlapped, Kept
  <2>2. UNCHANGED <<pc, op, iface>>
    BY <1>u DEF threadVars
  <2> QED
    BY <1>u, <2>1, <2>2 DEF LinkInv, Own, Idle, Busy
\* Only the client that steps matters.
<1>o. ASSUME NEW c \in Clients, \A d \in Clients \ {c} : ~Busy(d)', LinkFits(c)'
      PROVE  LinkInv'
  BY <1>o DEF LinkInv, LinkFits, Idle, Busy
\* A request that begins finds the daemon idle.
<1>a. ASSUME NEW c \in Clients, NEW what, NEW to, NEW t, NEW mode,
             Begin(c, what, to, t, mode), Overlap
      PROVE  /\ pc'[c] = to /\ op'[c] = what /\ iface'[c] = t
             /\ \A d \in Clients \ {c} : ~Busy(d)'
             /\ table \in {NoTunnel, active}
  <2>1. /\ serving /\ Idle /\ recent' = recent
        /\ pc'[c] = to /\ op'[c] = what /\ iface'[c] = t
        /\ \A d \in Threads \ {c} : Untouched(d)
    BY <1>0, <1>a, BeginRemembers
  <2>2. ~Overlapped /\ ~Kept
    BY <2>1 DEF Overlapped, Kept
  <2> QED
    BY <1>0, <2>1, <2>2 DEF Idle, Busy, Untouched, LinkInv
<1>1. ASSUME NEW c \in Clients, NEW t \in Tunnels, ConnectTunnel(c, t) PROVE LinkInv'
  <2>1. /\ serving /\ pc'[c] = "wgConnect" /\ op'[c] = "connect"
        /\ Idle /\ recent' = recent /\ active \notin links
        /\ \A d \in Threads \ {c} : Untouched(d)
    BY <1>0, <1>1, ConnectRemembers
  <2>2. ~Overlapped /\ ~Kept
    BY <2>1 DEF Overlapped, Kept
  <2>3. table = NoTunnel
    BY <1>0, <2>1, <2>2 DEF LinkInv, RestOK
  <2>4. table' = NoTunnel
    BY <1>1, <2>3 DEF ConnectTunnel, wgVars
  <2>5. \A d \in Clients \ {c} : ~Busy(d)'
    BY <1>0, <2>1 DEF Idle, Busy, Untouched
  <2> QED
    BY <1>o, <2>1, <2>4, <2>5 DEF LinkFits
<1>2. ASSUME NEW c \in Clients, NEW mode \in Modes, SetSplitTunneling(c, mode)
      PROVE  LinkInv'
  <2>1. /\ pc'[c] \in {"cgroupOn", "cgroupOff"} /\ op'[c] = "set"
        /\ \A d \in Clients \ {c} : ~Busy(d)'
        /\ table \in {NoTunnel, active}
    BY <1>a, <1>2 DEF SetSplitTunneling
  <2>2. table' = table /\ active' = active
    BY <1>2 DEF SetSplitTunneling, wgVars
  <2> QED
    BY <1>o, <2>1, <2>2 DEF Own, LinkFits
<1>3. ASSUME NEW c \in Clients, DisconnectTunnel(c) PROVE LinkInv'
  <2>1. /\ pc'[c] = "tableOff" /\ op'[c] = "disconnect"
        /\ \A d \in Clients \ {c} : ~Busy(d)'
        /\ table \in {NoTunnel, active}
    BY <1>a, <1>3, Zenon DEF DisconnectTunnel
  <2>2. table' = table /\ active' = active
    BY <1>3 DEF DisconnectTunnel, wgVars
  <2> QED
    BY <1>o, <2>1, <2>2 DEF Own, LinkFits
<1>4. ASSUME NEW c \in Threads, ThreadStep(c) PROVE LinkInv'
  <2>1. /\ c \in Clients /\ serving /\ Busy(c) /\ pc[c] \in PlacesOf(op[c])
        /\ Fresh(c) \/ (~Overlapped /\ recent \subseteq recent')
        /\ \A d \in Clients \ {c} : ~Busy(d)'
    BY <1>4, StepAlone
  <2>2. WgConnect(c) \/ LinkFits(c)
    BY <2>1 DEF Fresh, LinkInv, LinkFits, Kept, Busy
  <2>3. /\ op[c] = "connect" => active = NoTunnel
        /\ op[c] = "disconnect" => iface[c] = active
    <3>1. Fresh(c) => op[c] = "connect" /\ active = NoTunnel
      BY <2>1 DEF Fresh, WgConnect, PlacesOf
    <3> QED
      BY <2>1, <3>1 DEF WorkInv
  <2>4. LinkFits(c)'
    BY <1>0, <1>4, <2>1, <2>2, <2>3, LinkStep DEF Busy
  <2> QED
    BY <1>o, <2>1, <2>4
<1>5. ASSUME NEW mode \in Modes, Start(mode) PROVE FALSE
  BY <1>5 DEF Start, BaseInv, ControlInv
<1>6. CASE CleanupStale \/ CleanupStaleFails
  <2>1. Idle /\ \A c \in Clients : pc'[c] = pc[c]
    BY <1>0, <1>6
       DEF CleanupStale, CleanupStaleFails, BaseInv, ControlInv, ThreadsOK, StartPlaces
  <2>2. ASSUME Recently("kept") PROVE FALSE
    BY <2>2 DEF Recently, Kept, Overlapped
  <2>3. table' = NoTunnel
    BY <1>6, <2>2 DEF CleanupStale, CleanupStaleFails
  <2> QED
    BY <2>1, <2>3 DEF LinkInv, Idle, Busy
<1>7. CASE Crash
  BY <1>7 DEF Crash
<1>8. CASE Capture \/ ProcessExits
  BY <1>u, <1>8 DEF Capture, ProcessExits, history, wgVars
<1>9. CASE LinkLost
  BY <1>u, <1>9 DEF LinkLost, Removed, Recently
<1>10. CASE UNCHANGED vars
  BY <1>u, <1>10 DEF vars, history, wgVars, threadVars
<1> QED
  BY <1>1, <1>2, <1>3, <1>4, <1>5, <1>6, <1>7, <1>8, <1>9, <1>10 DEF Next

LEMMA BaseHolds == Spec => []BaseInv
<1>1. Init => TypeOK /\ ControlInv /\ RequestInv /\ AloneInv
  <2> SUFFICES ASSUME Init PROVE TypeOK /\ ControlInv /\ RequestInv /\ AloneInv
    OBVIOUS
  <2>1. TypeOK
    BY InitTypeOK
  <2>2. \A c \in Clients : pc[c] = "idle" /\ op[c] = "none"
    BY DaemonConstants DEF Init, Threads
  <2>3. pc[Main] = "down"
    BY DEF Init, Threads
  <2> QED
    BY <2>1, <2>2, <2>3
       DEF Init, ControlInv, RequestInv, AloneInv, PlacesOf, StartPlaces, Idle, Busy
<1>2. BaseInv /\ [Next]_vars => BaseInv'
  BY NextTypeOK, NextControl, NextRequest, NextAlone DEF BaseInv
<1>3. Init => BaseInv
  BY <1>1 DEF BaseInv
<1> QED
  BY <1>2, <1>3, PTL DEF Spec

\* The type of the daemon's state, for any clients, tunnels and failures.
THEOREM TypeCorrect == Spec => []TypeOK
<1>1. BaseInv => TypeOK
  BY DEF BaseInv
<1> QED
  BY <1>1, BaseHolds, PTL

LEMMA WorkHolds == Spec => []WorkInv
<1>1. Init => WorkInv
  BY DEF Init, WorkInv
<1> QED
  BY <1>1, BaseHolds, NextWork, PTL DEF Spec

LEMMA LinkHolds == Spec => []LinkInv
<1>1. Init => LinkInv
  BY DEF Init, LinkInv
<1> QED
  BY <1>1, BaseHolds, WorkHolds, NextLink, PTL DEF Spec

\* With nothing connected every packet goes past the tunnels, unless requests have
\* overlapped or an interface is on record that stayed: whatever crashed, failed or
\* was deleted, the VPN table has no route.
THEOREM IdlePacketsDirect == Spec => []IdleIsDirect
<1>1. LinkInv => IdleIsDirect
  BY DEF LinkInv, IdleIsDirect, Rest, Overlapped, Kept, Path
<1> QED
  BY <1>1, LinkHolds, PTL

-----------------------------------------------------------------------------
\* The path of a packet

\* What KernelInv says of the client c, whose request may just have ended.
KernelFits(c) ==
    /\ pc[c] = "idle" /\ active # NoTunnel => UpFor(active) /\ nft = TableFor(active)
    /\ op[c] = "connect" /\ pc[c] # "wgConnect" => ConnectFits(c)
    /\ op[c] = "set" /\ active # NoTunnel => SetFits(c)

\* The steps of the three requests.  An action that ends in a failure is on
\* record, and so in none of these lemmas.
LEMMA GotoFields ==
    ASSUME ThreadsOK, NEW c \in Threads, NEW to, Goto(c, to)
    PROVE  /\ pc'[c] = to /\ op'[c] = op[c] /\ iface'[c] = iface[c]
           /\ on'[c] = on[c] /\ seen'[c] = seen[c]
  BY DEF ThreadsOK, Goto

LEMMA ReplyFields ==
    ASSUME ThreadsOK, NEW c \in Threads, Reply(c)
    PROVE  pc'[c] = "idle" /\ op'[c] = "none"
  BY DEF ThreadsOK, Reply, Clear

LEMMA HarmShows ==
    ASSUME NEW kind, Harm(kind)
    PROVE  recent' # {}
  BY DEF Harm, Recently

LEMMA ConnectStep ==
    ASSUME TypeOK, NEW c \in Clients, ThreadStep(c), recent' = {},
           op[c] = "connect", pc[c] \in PlacesOf("connect"),
           active = NoTunnel, iface[c] \in Tunnels,
           pc[c] # "wgConnect" => ConnectFits(c)
    PROVE  KernelFits(c)'
<1> USE DaemonConstants
<1>0. ThreadsOK /\ c \in Threads
  BY DEF TypeOK, Threads
<1>g. ASSUME NEW to, Goto(c, to)
      PROVE  /\ pc'[c] = to /\ op'[c] = "connect" /\ iface'[c] = iface[c]
             /\ on'[c] = on[c] /\ seen'[c] = seen[c]
  BY <1>0, <1>g, GotoFields
<1>r. ASSUME Reply(c) PROVE pc'[c] = "idle" /\ op'[c] = "none"
  BY <1>0, <1>r, ReplyFields
<1>t. ASSUME Return(c)
      PROVE  /\ pc'[c] = "dnsApply" /\ op'[c] = "connect" /\ iface'[c] = iface[c]
             /\ on'[c] = on[c] /\ seen'[c] = seen[c]
  BY <1>g, <1>t DEF Return
<1>1. CASE WgConnect(c)
  BY <1>g, <1>1 DEF WgConnect, KernelFits, ConnectFits
<1>2. CASE WgConnectRefused(c) \/ WgConnectFails(c)
  <2>1. pc'[c] = "idle" /\ op'[c] = "none" /\ active' = active
    BY <1>r, <1>2 DEF WgConnectRefused, WgConnectFails
  <2> QED
    BY <2>1 DEF KernelFits
<1>3. CASE SetIface(c)
  BY <1>g, <1>3 DEF SetIface, KernelFits, ConnectFits, wgVars
<1>4. CASE ReadSettings(c)
  <2>1. /\ pc'[c] = (IF settings # "off" THEN "cgroupOn" ELSE "tableOff")
        /\ on'[c] = settings /\ seen'[c] = iface[c]
        /\ op'[c] = "connect" /\ iface'[c] = iface[c]
    BY <1>0, <1>4 DEF ReadSettings, ThreadsOK
  <2> QED
    BY <1>4, <2>1 DEF ReadSettings, KernelFits, ConnectFits, wgVars
<1>5. CASE CgroupOn(c)
  BY <1>g, <1>5, HarmShows DEF CgroupOn, KernelFits, ConnectFits, wgVars
<1>6. CASE ReadIface(c)
  <2>1. vpnIface = iface[c]
    BY <1>6 DEF ReadIface, ConnectFits
  <2>2. /\ pc'[c] = "tableOff" /\ on'[c] = on[c] /\ seen'[c] = iface[c]
        /\ op'[c] = "connect" /\ iface'[c] = iface[c]
    BY <1>0, <1>6, <2>1 DEF ReadIface, ThreadsOK
  <2> QED
    BY <1>6, <2>2 DEF ReadIface, KernelFits, ConnectFits, wgVars, cgVars
<1>7. CASE TableOff(c)
  <2>1. seen[c] = iface[c]
    BY <1>7 DEF TableOff, ConnectFits
  <2> QED
    BY <1>g, <1>7, <2>1 DEF TableOff, KernelFits, ConnectFits, wgVars, cgVars
<1>8. CASE TableOn(c)
  <2>1. seen[c] = iface[c] /\ on[c] = settings /\ (on[c] # "off" => cgDir)
    BY <1>8 DEF TableOn, ConnectFits
  <2>2. nft' = TableFor(iface[c])
    BY <1>8, <2>1, HarmShows DEF TableOn, TableFor, Kind
  <2>3. pc'[c] \in {"store", "dnsApply"}
    BY <1>g, <1>8 DEF TableOn, AfterTable
  <2> QED
    BY <1>g, <1>8, <2>2, <2>3 DEF TableOn, KernelFits, ConnectFits, TableFor, wgVars, cgVars
<1>9. CASE StoreSettings(c)
  <2>1. nft = TableFor(iface[c]) /\ on[c] = settings
    BY <1>9 DEF StoreSettings, ConnectFits
  <2> QED
    BY <1>t, <1>9, <2>1
       DEF StoreSettings, KernelFits, ConnectFits, TableFor, wgVars, cgVars
<1>10. CASE DnsApply(c)
  BY <1>g, <1>10 DEF DnsApply, KernelFits, ConnectFits, TableFor, wgVars, cgVars
<1>11. CASE Activate(c)
  BY <1>r, <1>11 DEF Activate, KernelFits, ConnectFits, TableFor, UpFor, wgVars, cgVars
<1>13. CASE DnsApplyFails(c)
  BY <1>g, <1>13 DEF DnsApplyFails, KernelFits, ConnectFits, TableFor, wgVars, cgVars
<1>12. pc[c] \notin {"cgroupOff", "flag", "clearIface", "dnsRestore", "wgDisconnect",
                     "deactivate"}
  BY DEF PlacesOf
<1> QED
  BY <1>1, <1>2, <1>3, <1>4, <1>5, <1>6, <1>7, <1>8, <1>9, <1>10, <1>11, <1>12, <1>13
     DEF ThreadStep, CgroupOff, FlagDisabled, ClearIface, DnsRestore, DnsRestoreFails,
         WgDisconnect, WgDisconnectSkips, WgDisconnectFails, Deactivate

LEMMA SetStep ==
    ASSUME TypeOK, NEW c \in Clients, ThreadStep(c), recent' = {},
           op[c] = "set", pc[c] \in PlacesOf("set"),
           active # NoTunnel => SetFits(c)
    PROVE  KernelFits(c)'
<1> USE DaemonConstants
<1>0. ThreadsOK /\ c \in Threads
  BY DEF TypeOK, Threads
<1>a. pc[c] \in {"cgroupOn", "cgroupOff", "readIface", "tableOff", "tableOn", "flag",
                 "store"}
  BY DEF PlacesOf
<1>g. ASSUME NEW to, Goto(c, to)
      PROVE  /\ pc'[c] = to /\ op'[c] = "set"
             /\ on'[c] = on[c] /\ seen'[c] = seen[c]
  BY <1>0, <1>g, GotoFields
<1>1. active' = active
  BY <1>a DEF ThreadStep, WgConnect, WgConnectRefused, WgConnectFails, SetIface,
        ReadSettings, DnsApply, DnsApplyFails, Activate, CgroupOn, CgroupOff, ReadIface,
        TableOff, TableOn, FlagDisabled, StoreSettings, ClearIface, DnsRestore,
        DnsRestoreFails, WgDisconnect, WgDisconnectSkips, WgDisconnectFails, Deactivate
<1>2. CASE active = NoTunnel
  <2>1. op'[c] \in {"set", "none"}
    BY <1>0, StepMoves
  <2> QED
    BY <1>1, <1>2, <2>1 DEF KernelFits
<1>3. CASE active # NoTunnel
  <2> USE <1>3
  <2>1. CASE CgroupOn(c)
    BY <1>g, <2>1, HarmShows
       DEF CgroupOn, KernelFits, SetFits, UpFor, TableFor, wgVars
  <2>2. CASE CgroupOff(c)
    <3>1. pc'[c] = "readIface" /\ op'[c] = "set" /\ on'[c] = on[c]
      BY <1>g, <2>2 DEF CgroupOff
    <3> QED
      BY <2>2, <3>1 DEF CgroupOff, KernelFits, SetFits, UpFor, TableFor, wgVars
  <2>3. CASE ReadIface(c)
    <3>1. vpnIface = active
      BY DEF SetFits, UpFor
    <3>2. pc'[c] = "tableOff" /\ op'[c] = "set" /\ on'[c] = on[c] /\ seen'[c] = active
      BY <1>0, <2>3, <3>1 DEF ReadIface, ThreadsOK
    <3> QED
      BY <2>3, <3>2 DEF ReadIface, KernelFits, SetFits, UpFor, TableFor, wgVars, cgVars
  <2>4. CASE TableOff(c)
    <3>1. seen[c] = active
      BY <2>4 DEF TableOff, SetFits
    <3>2. pc'[c] = "tableOn" /\ op'[c] = "set" /\ on'[c] = on[c] /\ seen'[c] = active
      BY <1>g, <2>4, <3>1 DEF TableOff
    <3> QED
      BY <2>4, <3>2 DEF TableOff, KernelFits, SetFits, UpFor, wgVars, cgVars
  <2>5. CASE TableOn(c)
    <3>1. seen[c] = active /\ (on[c] # "off" => cgDir)
      BY <2>5 DEF TableOn, SetFits
    <3>2. nft' = [kind |-> Kind(on[c]), iface |-> active]
      BY <2>5, <3>1, HarmShows DEF TableOn, Kind
    <3>3. pc'[c] = (IF on[c] # "off" THEN "store" ELSE "flag") /\ op'[c] = "set" /\ on'[c] = on[c]
      BY <1>g, <2>5 DEF TableOn, AfterTable
    <3> QED
      BY <2>5, <3>2, <3>3 DEF TableOn, KernelFits, SetFits, UpFor, wgVars, cgVars
  <2>6. CASE FlagDisabled(c)
    BY <1>g, <2>6 DEF FlagDisabled, KernelFits, SetFits, UpFor, wgVars, cgVars
  <2>7. CASE StoreSettings(c)
    <3>1. pc'[c] = "idle" /\ op'[c] = "none"
      BY <1>0, <2>7, ReplyFields DEF StoreSettings, Return
    <3> QED
      BY <2>7, <3>1 DEF StoreSettings, KernelFits, SetFits, UpFor, TableFor, wgVars, cgVars
  <2> QED
    BY <1>a, <2>1, <2>2, <2>3, <2>4, <2>5, <2>6, <2>7
       DEF ThreadStep, WgConnect, WgConnectRefused, WgConnectFails, SetIface,
           ReadSettings, DnsApply, DnsApplyFails, Activate, ClearIface, DnsRestore,
           DnsRestoreFails, WgDisconnect, WgDisconnectSkips, WgDisconnectFails, Deactivate
<1> QED
  BY <1>2, <1>3

LEMMA DisconnectStep ==
    ASSUME TypeOK, NEW c \in Clients, ThreadStep(c), recent' = {},
           op[c] = "disconnect", pc[c] \in PlacesOf("disconnect")
    PROVE  KernelFits(c)'
<1>0. ThreadsOK /\ c \in Threads
  BY DEF TypeOK, Threads
<1>a. pc[c] \in {"tableOff", "tableOn", "cgroupOff", "clearIface", "dnsRestore",
                 "wgDisconnect", "deactivate"}
  BY DEF PlacesOf
<1>1. op'[c] \in {"disconnect", "none"}
  BY <1>0, StepMoves
<1>g. ASSUME NEW to, Goto(c, to) PROVE pc'[c] = to
  BY <1>0, <1>g, GotoFields
<1>2. CASE Deactivate(c)
  BY <1>1, <1>2 DEF Deactivate, KernelFits
<1>3. CASE WgDisconnectFails(c) \/ WgDisconnectSkips(c)
  BY <1>3, HarmShows DEF WgDisconnectFails, WgDisconnectSkips
<1>4. ASSUME pc'[c] # "idle" PROVE KernelFits(c)'
  BY <1>1, <1>4 DEF KernelFits
<1>5. CASE TableOff(c) \/ TableOn(c)
  <2>1. pc'[c] \in {"tableOn", "cgroupOff"}
    BY <1>g, <1>5 DEF TableOff, TableOn, AfterTable
  <2> QED
    BY <1>4, <2>1
<1>6. CASE CgroupOff(c)
  BY <1>g, <1>4, <1>6 DEF CgroupOff
<1>7. CASE ClearIface(c) \/ DnsRestore(c) \/ DnsRestoreFails(c) \/ WgDisconnect(c)
  <2>1. pc'[c] \in {"dnsRestore", "wgDisconnect", "deactivate"}
    BY <1>g, <1>7 DEF ClearIface, DnsRestore, DnsRestoreFails, WgDisconnect
  <2> QED
    BY <1>4, <2>1
<1> QED
  BY <1>a, <1>2, <1>3, <1>5, <1>6, <1>7
     DEF ThreadStep, WgConnect, WgConnectRefused, WgConnectFails, SetIface, ReadSettings,
         DnsApply, DnsApplyFails, Activate, CgroupOn, ReadIface, FlagDisabled, StoreSettings

LEMMA NextKernel == BaseInv /\ WorkInv /\ KernelInv /\ [Next]_vars => KernelInv'
<1> SUFFICES ASSUME BaseInv, BaseInv', WorkInv, KernelInv, [Next]_vars, serving',
                    recent' = {}
             PROVE  KernelInv'
  BY NextTypeOK, NextControl, NextRequest, NextAlone DEF KernelInv, BaseInv
<1>0. /\ TypeOK /\ ThreadsOK /\ RestOK /\ HistoryOK /\ ~Overlapped'
      /\ Clients \subseteq Threads /\ Main \in Threads /\ Main \notin Clients
  BY DaemonConstants, TypeParts DEF Threads, BaseInv, Overlapped
<1>u. ASSUME recent \subseteq recent', serving,
             UNCHANGED <<pc, op, iface, on, seen, active, settings, vpnIface, cgDir,
                         table, rules, nft>>
      PROVE  KernelInv'
  <2>1. recent = {}
    BY <1>u
  <2> QED
    BY <1>u, <2>1 DEF KernelInv, ConnectFits, SetFits, UpFor, TableFor, Idle
\* A client that is idle has no request.
<1>n. \A d \in Clients : pc'[d] = "idle" => op'[d] \notin {"connect", "set"}
  BY DEF BaseInv, ControlInv, PlacesOf
\* Only the client that steps matters.
<1>o. ASSUME NEW c \in Clients, KernelFits(c)', \A d \in Clients \ {c} : ~Busy(d)'
      PROVE  KernelInv'
  <2>1. \A d \in Clients : d # c => op'[d] \notin {"connect", "set"}
    BY <1>n, <1>o DEF Busy
  <2> QED
    BY <1>o, <2>1 DEF KernelInv, KernelFits, Idle
<1>a. ASSUME NEW c \in Clients, NEW what, NEW to, NEW t, NEW mode,
             Begin(c, what, to, t, mode), Overlap
      PROVE  /\ active # NoTunnel => UpFor(active) /\ nft = TableFor(active)
             /\ pc'[c] = to /\ op'[c] = what /\ on'[c] = mode
             /\ \A d \in Clients \ {c} : ~Busy(d)'
  <2>1. /\ serving /\ Idle /\ recent = {}
        /\ pc'[c] = to /\ op'[c] = what /\ on'[c] = mode
        /\ \A d \in Threads \ {c} : Untouched(d)
    BY <1>0, <1>a, BeginRemembers
  <2> QED
    BY <1>0, <2>1 DEF Idle, Busy, Untouched, KernelInv
<1>1. ASSUME NEW c \in Clients, NEW t \in Tunnels, ConnectTunnel(c, t) PROVE KernelInv'
  <2>1. /\ Idle /\ pc'[c] = "wgConnect" /\ op'[c] = "connect"
        /\ \A d \in Threads \ {c} : Untouched(d)
    BY <1>0, <1>1, ConnectRemembers
  <2>2. \A d \in Clients \ {c} : ~Busy(d)'
    BY <1>0, <2>1 DEF Idle, Busy, Untouched
  <2> QED
    BY <1>o, <2>1, <2>2 DEF KernelFits
<1>2. ASSUME NEW c \in Clients, NEW mode \in Modes, SetSplitTunneling(c, mode)
      PROVE  KernelInv'
  <2>1. /\ active # NoTunnel => UpFor(active) /\ nft = TableFor(active)
        /\ pc'[c] = (IF mode # "off" THEN "cgroupOn" ELSE "cgroupOff")
        /\ op'[c] = "set" /\ on'[c] = mode
        /\ \A d \in Clients \ {c} : ~Busy(d)'
    BY <1>a, <1>2 DEF SetSplitTunneling
  <2>2. active' # NoTunnel => SetFits(c)'
    BY <1>2, <2>1 DEF SetSplitTunneling, SetFits, UpFor, TableFor, wgVars
  <2> QED
    BY <1>o, <2>1, <2>2 DEF KernelFits
<1>3. ASSUME NEW c \in Clients, DisconnectTunnel(c) PROVE KernelInv'
  <2>1. /\ pc'[c] = "tableOff" /\ op'[c] = "disconnect"
        /\ \A d \in Clients \ {c} : ~Busy(d)'
    BY <1>a, <1>3, Zenon DEF DisconnectTunnel
  <2> QED
    BY <1>o, <2>1 DEF KernelFits
<1>4. ASSUME NEW c \in Threads, ThreadStep(c) PROVE KernelInv'
  <2>1. /\ c \in Clients /\ serving /\ Busy(c)
        /\ op[c] \in {"connect", "set", "disconnect"} /\ pc[c] \in PlacesOf(op[c])
        /\ \A d \in Clients \ {c} : ~Busy(d)'
        /\ Fresh(c) \/ (~Overlapped /\ recent \subseteq recent')
    BY <1>0, <1>4, StepAlone
  <2>2. CASE Fresh(c)
    <3>1. op[c] = "connect" /\ pc[c] = "wgConnect"
      BY <2>1, <2>2 DEF Fresh, WgConnect, PlacesOf
    <3>2. active = NoTunnel /\ iface[c] \in Tunnels
      BY <2>1, <2>2, <3>1 DEF Fresh, BaseInv, RequestInv
    <3> QED
      BY <1>0, <1>4, <1>o, <2>1, <3>1, <3>2, ConnectStep
  <2>3. CASE ~Overlapped /\ recent = {}
    <3>1. CASE op[c] = "connect"
      <4>1. active = NoTunnel /\ iface[c] \in Tunnels
        BY <2>1, <2>3, <3>1 DEF WorkInv, BaseInv, RequestInv
      <4>2. pc[c] # "wgConnect" => ConnectFits(c)
        BY <2>1, <2>3, <3>1 DEF KernelInv
      <4> QED
        BY <1>0, <1>4, <1>o, <2>1, <3>1, <4>1, <4>2, ConnectStep
    <3>2. CASE op[c] = "set"
      <4>1. active # NoTunnel => SetFits(c)
        BY <2>1, <2>3, <3>2 DEF KernelInv
      <4> QED
        BY <1>0, <1>4, <1>o, <2>1, <3>2, <4>1, SetStep
    <3>3. CASE op[c] = "disconnect"
      BY <1>0, <1>4, <1>o, <2>1, <3>3, DisconnectStep
    <3> QED
      BY <2>1, <3>1, <3>2, <3>3
  <2> QED
    BY <2>1, <2>2, <2>3
<1>5. ASSUME NEW mode \in Modes, Start(mode) PROVE FALSE
  BY <1>5 DEF Start, BaseInv, ControlInv
<1>6. CASE CleanupStale \/ CleanupStaleFails
  <2>1. /\ Idle /\ active = NoTunnel /\ active' = active
        /\ \A c \in Clients : pc'[c] = pc[c]
    BY <1>0, <1>6 DEF CleanupStale, CleanupStaleFails, BaseInv, ControlInv, RequestInv,
          ThreadsOK, StartPlaces
  <2>2. \A c \in Clients : op'[c] \notin {"connect", "set"}
    BY <1>n, <2>1 DEF Idle
  <2> QED
    BY <2>1, <2>2 DEF KernelInv
<1>7. CASE Crash
  BY <1>7 DEF Crash
<1>8. CASE Capture \/ ProcessExits
  BY <1>u, <1>8 DEF Capture, ProcessExits, history, wgVars, threadVars
<1>9. CASE LinkLost
  BY <1>9 DEF LinkLost, Recently
<1>10. CASE UNCHANGED vars
  BY <1>u, <1>10 DEF vars, history, wgVars, cgVars, threadVars
<1> QED
  BY <1>1, <1>2, <1>3, <1>4, <1>5, <1>6, <1>7, <1>8, <1>9, <1>10 DEF Next

LEMMA KernelHolds == Spec => []KernelInv
<1>1. Init => KernelInv
  BY DEF Init, KernelInv
<1> QED
  BY <1>1, BaseHolds, WorkHolds, NextKernel, PTL DEF Spec

\* What the tables do with a packet while the tunnel is up.
LEMMA Paths ==
    ASSUME NEW t \in Tunnels, table = t, rules
    PROVE  /\ nft = [kind |-> "full", iface |-> t] =>
                /\ Path("captured") = "tunnel" /\ Path("other") = "tunnel"
                /\ Path("wireguard") = "direct"
           /\ nft = [kind |-> "base", iface |-> t] =>
                /\ Path("captured") = "tunnel" /\ Path("other") = "direct"
                /\ Path("wireguard") = "direct"
<1>1. WgMark = Fwmark + 1 /\ WgMark # Fwmark /\ WgMark # 0 /\ Fwmark # 0
  BY DaemonConstants DEF WgMark
<1>2. table # NoTunnel
  BY DaemonConstants
<1> QED
  BY <1>1, <1>2 DEF Path, Marked, Sent

\* Connected and between requests, without split tunnelling or in inclusive mode,
\* every packet goes where it should, for every mark but the largest, which
\* DaemonConstants leaves out.
THEOREM PacketsTold == Spec => []PacketsGoWhereTold
<1>1. TypeOK /\ KernelInv => PacketsGoWhereTold
  <2> SUFFICES ASSUME TypeOK, KernelInv, Rest, active # NoTunnel, recent = {}
               PROVE  /\ Path("captured") = "tunnel"
                      /\ Path("other") = IF settings = "off" THEN "tunnel" ELSE "direct"
                      /\ Path("wireguard") = "direct"
    BY DEF PacketsGoWhereTold
  <2>1. active \in Tunnels
    BY DEF TypeOK
  <2>2. table = active /\ rules /\ nft = TableFor(active)
    BY DEF KernelInv, Rest, UpFor
  <2> QED
    BY <2>1, <2>2, Paths DEF TableFor, Kind
<1> QED
  BY <1>1, TypeCorrect, KernelHolds, PTL

\* With everything in the tunnel a packet gets past it only between the two nft
\* commands of a reload, or while a request takes the tunnel down.
THEOREM LeaksBounded == Spec => []LeaksOnlyInReload
<1>1. BaseInv /\ WorkInv /\ KernelInv => LeaksOnlyInReload
  <2> SUFFICES ASSUME BaseInv, WorkInv, KernelInv, serving, active # NoTunnel, recent = {},
                      settings = "off",
                      ~ \E c \in Clients :
                          \/ pc[c] = "tableOn" \/ op[c] = "disconnect"
                          \/ op[c] = "set" /\ on[c] # "off"
               PROVE  Path("other") = "tunnel"
    BY DEF LeaksOnlyInReload
  <2>1. active \in Tunnels
    BY DEF BaseInv, TypeOK
  <2>2. CASE Idle
    BY <2>1, <2>2, Paths DEF KernelInv, UpFor, TableFor, Kind
  <2>3. CASE ~Idle
    <3>1. PICK c \in Clients : pc[c] # "idle"
      BY <2>3 DEF Idle
    <3>2. op[c] \in {"connect", "set", "disconnect"} /\ pc[c] \in PlacesOf(op[c])
      BY <3>1 DEF BaseInv, ControlInv, PlacesOf
    <3>3. op[c] # "connect"
      BY <3>1 DEF WorkInv, Overlapped, Busy
    <3>4. op[c] = "set" /\ on[c] = "off" /\ pc[c] # "tableOn"
      BY <3>2, <3>3
    <3>5. SetFits(c)
      BY <3>4 DEF KernelInv
    <3>6. nft = [kind |-> "full", iface |-> active]
      BY <3>2, <3>4, <3>5 DEF SetFits, TableFor, PlacesOf, Kind
    <3> QED
      BY <2>1, <3>5, <3>6, Paths DEF SetFits, UpFor
  <2> QED
    BY <2>2, <2>3
<1> QED
  BY <1>1, BaseHolds, WorkHolds, KernelHolds, PTL

-----------------------------------------------------------------------------
\* resolv.conf

LEMMA StepRisk ==
    ASSUME HistoryOK, NEW c \in Threads, ThreadStep(c)
    PROVE  /\ dnsRisk => dnsRisk'
           /\ Overlapped' => Overlapped
           /\ "wg" \in recent => "wg" \in recent' \/ WgConnect(c)
<1>h. ASSUME UNCHANGED history PROVE dnsRisk' = dnsRisk /\ recent' = recent
  BY <1>h DEF history
<1>k. ASSUME NEW kind \in {"wg", "split", "kept"}, Harm(kind)
      PROVE  dnsRisk' = dnsRisk /\ recent \subseteq recent' /\ (Overlapped' => Overlapped)
  BY <1>k DEF Harm, Recently, Overlapped
<1>1. CASE WgConnect(c)
  BY <1>1 DEF WgConnect, Overlapped
<1>2. CASE WgConnectFails(c) \/ WgDisconnectFails(c) \/ WgDisconnectSkips(c)
  BY <1>k, <1>2 DEF WgConnectFails, WgDisconnectFails, WgDisconnectSkips
<1>3. CASE CgroupOn(c) \/ TableOn(c)
  BY <1>h, <1>k, <1>3 DEF CgroupOn, TableOn, Overlapped
<1>4. CASE WgConnectRefused(c) \/ SetIface(c) \/ ReadSettings(c) \/ Activate(c)
  BY <1>h, <1>4 DEF WgConnectRefused, SetIface, ReadSettings, Activate, Overlapped
<1>5. CASE DnsApply(c) \/ CgroupOff(c) \/ ReadIface(c) \/ TableOff(c)
  BY <1>h, <1>5 DEF DnsApply, CgroupOff, ReadIface, TableOff, Overlapped
<1>6. CASE FlagDisabled(c) \/ StoreSettings(c) \/ ClearIface(c) \/ DnsRestore(c)
  BY <1>h, <1>6 DEF FlagDisabled, StoreSettings, ClearIface, DnsRestore, Overlapped
<1>7. CASE WgDisconnect(c) \/ Deactivate(c)
  BY <1>h, <1>7 DEF WgDisconnect, Deactivate, Overlapped
<1>8. CASE DnsApplyFails(c) \/ DnsRestoreFails(c)
  BY <1>8 DEF DnsApplyFails, DnsRestoreFails, WriteFails, Overlapped
<1> QED
  BY <1>1, <1>2, <1>3, <1>4, <1>5, <1>6, <1>7, <1>8 DEF ThreadStep

LEMMA NextRisk ==
    TypeOK /\ RiskInv /\ [Next]_vars => RiskInv' /\ (dnsRisk => dnsRisk')
<1> SUFFICES ASSUME TypeOK, RiskInv, [Next]_vars
             PROVE  RiskInv' /\ (dnsRisk => dnsRisk')
  OBVIOUS
<1>0. HistoryOK
  BY TypeParts
<1>h. ASSUME UNCHANGED history PROVE RiskInv' /\ (dnsRisk => dnsRisk')
  BY <1>h DEF history, RiskInv, Overlapped
<1>o. ASSUME Overlap PROVE RiskInv' /\ (dnsRisk => dnsRisk')
  BY <1>h, <1>o DEF Overlap, RiskInv
<1>1. ASSUME NEW c \in Threads, ThreadStep(c) PROVE RiskInv' /\ (dnsRisk => dnsRisk')
  BY <1>0, <1>1, StepRisk DEF RiskInv
<1>4. ASSUME NEW c \in Clients, NEW t \in Tunnels, ConnectTunnel(c, t)
      PROVE  RiskInv' /\ (dnsRisk => dnsRisk')
  BY <1>o, <1>4 DEF ConnectTunnel, RiskInv
<1>5. CASE CleanupStaleFails
  BY <1>0, <1>5 DEF CleanupStaleFails, Recently, RiskInv, Overlapped
<1>2. CASE Crash
  BY <1>2 DEF Crash, RiskInv, Overlapped
<1>3. CASE LinkLost
  BY <1>3 DEF LinkLost, RiskInv
<1> QED
  BY <1>h, <1>o, <1>1, <1>2, <1>3, <1>4, <1>5
     DEF Next, SetSplitTunneling, DisconnectTunnel, Start, CleanupStale, Capture,
         ProcessExits, vars

\* What DnsInv says of the client c, whose request may just have ended.
DnsLeft(c) ==
    /\ HostKept
    /\ pc[c] = "idle" => Up(active) /\ ResolvFits
    /\ pc[c] # "idle" => DnsFits(c)

LEMMA DnsStep ==
    ASSUME TypeOK, NEW c \in Clients, ThreadStep(c), serving, serving' = serving,
           HostKept, DnsFits(c), ~Overlapped,
           op[c] \in {"connect", "set", "disconnect"}, pc[c] \in PlacesOf(op[c]),
           op[c] = "connect" => active = NoTunnel,
           op[c] = "disconnect" => iface[c] = active, ~dnsRisk'
    PROVE  DnsLeft(c)'
<1> USE DaemonConstants
<1>0. ThreadsOK /\ HistoryOK /\ c \in Threads
  BY TypeParts DEF Threads
<1>g. ASSUME NEW to, Goto(c, to)
      PROVE  pc'[c] = to /\ op'[c] = op[c] /\ iface'[c] = iface[c]
  BY <1>0, <1>g, GotoFields
<1>r. ASSUME Reply(c) PROVE pc'[c] = "idle"
  BY <1>0, <1>r, ReplyFields
<1>n. NoTunnel \notin WithDns /\ WithDns \subseteq Tunnels
  OBVIOUS
<1>k. ASSUME UNCHANGED dnsVars PROVE HostKept'
  BY <1>k DEF dnsVars, HostKept
\* A step that leaves the interfaces, the tunnel and resolv.conf alone.
<1>w. ASSUME ~WgConnect(c), UNCHANGED <<active, resolv, entry>> PROVE ResolvFits => ResolvFits'
  BY <1>0, <1>w, StepRisk DEF ResolvFits, Lists
<1>s. ASSUME ~WgConnect(c), UNCHANGED <<links, active, dnsVars>>,
             op'[c] = op[c], iface'[c] = iface[c],
             pc[c] \notin {"wgConnect", "activate", "wgDisconnect", "deactivate"},
             pc'[c] \notin {"idle", "wgConnect", "activate", "wgDisconnect", "deactivate"}
      PROVE  DnsLeft(c)'
  <2>1. HostKept' /\ UNCHANGED <<resolv, entry>>
    BY <1>k, <1>s DEF dnsVars
  <2>2. ResolvFits => ResolvFits'
    BY <1>w, <1>s, <2>1
  <2>3. Own(c)' = Own(c) /\ Up(Own(c))
    BY <1>s DEF Own, DnsFits
  <2>4. DnsFits(c)'
    BY <1>s, <2>1, <2>2, <2>3 DEF DnsFits, Up
  <2> QED
    BY <1>s, <2>1, <2>4 DEF DnsLeft
<1>e. ASSUME ~WgConnect(c), UNCHANGED <<links, active, dnsVars>>, op[c] # "connect",
             pc[c] \notin {"wgDisconnect", "deactivate"}, pc'[c] = "idle"
      PROVE  DnsLeft(c)'
  <2>1. HostKept' /\ UNCHANGED <<resolv, entry>>
    BY <1>k, <1>e DEF dnsVars
  <2>2. ResolvFits'
    BY <1>w, <1>e, <2>1 DEF DnsFits
  <2>3. Up(active)
    BY <1>e DEF DnsFits, Own
  <2> QED
    BY <1>e, <2>1, <2>2, <2>3 DEF DnsLeft, Up
<1>t. ASSUME ~WgConnect(c), UNCHANGED <<links, active, dnsVars>>, Return(c),
             pc[c] \in {"cgroupOn", "store"}
      PROVE  DnsLeft(c)'
  <2>1. CASE op[c] = "connect"
    BY <1>g, <1>s, <1>t, <2>1 DEF Return
  <2>2. CASE op[c] # "connect"
    BY <1>r, <1>e, <1>t, <2>2 DEF Return
  <2> QED
    BY <2>1, <2>2
<1>1. CASE WgConnect(c)
  <2>1. op[c] = "connect" /\ pc[c] = "wgConnect"
    BY <1>1 DEF WgConnect, PlacesOf
  <2>2. /\ pc'[c] = "setIface" /\ op'[c] = "connect" /\ iface'[c] = iface[c]
        /\ links' = links \union {iface[c]} /\ UNCHANGED dnsVars
    BY <1>g, <1>1, <2>1 DEF WgConnect
  <2>3. resolv' = Host
    BY <2>1, <2>2 DEF DnsFits, dnsVars
  <2> QED
    BY <1>k, <2>2, <2>3 DEF DnsLeft, DnsFits, Own, Up
<1>2. CASE WgConnectRefused(c) \/ WgConnectFails(c)
  <2>1. op[c] = "connect" /\ pc[c] = "wgConnect"
    BY <1>2 DEF WgConnectRefused, WgConnectFails, PlacesOf
  <2>2. resolv = Host
    BY <2>1 DEF DnsFits
  <2>3. pc'[c] = "idle" /\ active' = NoTunnel /\ UNCHANGED dnsVars
    BY <1>r, <1>2, <2>1 DEF WgConnectRefused, WgConnectFails
  <2> QED
    BY <1>k, <1>n, <2>2, <2>3 DEF DnsLeft, ResolvFits, Up, dnsVars
<1>3. CASE SetIface(c) \/ FlagDisabled(c) \/ ClearIface(c)
  <2>1. /\ pc'[c] \in {"readSettings", "store", "dnsRestore"}
        /\ op'[c] = op[c] /\ iface'[c] = iface[c]
        /\ pc[c] \in {"setIface", "flag", "clearIface"}
    BY <1>g, <1>3 DEF SetIface, FlagDisabled, ClearIface
  <2>2. UNCHANGED <<links, active, dnsVars>>
    BY <1>3 DEF SetIface, FlagDisabled, ClearIface, wgVars
  <2> QED
    BY <1>s, <2>1, <2>2 DEF WgConnect
<1>4. CASE ReadSettings(c) \/ ReadIface(c)
  <2>1. /\ pc'[c] \in {"cgroupOn", "tableOff", "store"}
        /\ op'[c] = op[c] /\ iface'[c] = iface[c]
        /\ pc[c] \in {"readSettings", "readIface"}
    BY <1>0, <1>4 DEF ReadSettings, ReadIface, ThreadsOK
  <2>2. UNCHANGED <<links, active, dnsVars>>
    BY <1>4 DEF ReadSettings, ReadIface, wgVars
  <2> QED
    BY <1>s, <2>1, <2>2 DEF WgConnect
<1>5. CASE CgroupOff(c) \/ TableOff(c) \/ TableOn(c)
  <2>1. /\ pc'[c] \in {"clearIface", "readIface", "tableOn", "cgroupOff", "dnsApply",
                       "flag", "store"}
        /\ op'[c] = op[c] /\ iface'[c] = iface[c]
        /\ pc[c] \in {"cgroupOff", "tableOff", "tableOn"}
    BY <1>g, <1>5 DEF CgroupOff, TableOff, TableOn, AfterTable
  <2>2. UNCHANGED <<links, active, dnsVars>>
    BY <1>5 DEF CgroupOff, TableOff, TableOn, wgVars
  <2> QED
    BY <1>s, <2>1, <2>2 DEF WgConnect
<1>6. CASE CgroupOn(c)
  <2>1. UNCHANGED <<links, active, dnsVars>> /\ pc[c] = "cgroupOn" /\ ~WgConnect(c)
    BY <1>6 DEF CgroupOn, WgConnect, wgVars
  <2>2. CASE Goto(c, "readIface")
    BY <1>g, <1>s, <2>1, <2>2
  <2>3. CASE Return(c)
    BY <1>t, <2>1, <2>3
  <2> QED
    BY <1>6, <2>2, <2>3 DEF CgroupOn
<1>7. CASE StoreSettings(c)
  BY <1>t, <1>7 DEF StoreSettings, WgConnect, wgVars
<1>8. CASE DnsApply(c)
  <2>1. op[c] = "connect" /\ pc[c] = "dnsApply"
    BY <1>8 DEF DnsApply, PlacesOf
  <2>2. resolv = Host /\ Up(iface[c])
    BY <2>1 DEF DnsFits, Own
  <2>3. /\ pc'[c] = "activate" /\ op'[c] = "connect" /\ iface'[c] = iface[c]
        /\ links' = links
    BY <1>g, <1>8, <2>1 DEF DnsApply, wgVars
  <2>4. HostKept' /\ IF iface[c] \in WithDns THEN Lists(iface[c])' ELSE resolv' = Host
    <3>1. CASE iface[c] \in WithDns
      <4>1. original' = Host /\ backup' = Host /\ Write(iface[c])
        BY <1>8, <2>2, <3>1 DEF DnsApply, HostKept
      <4>2. entry' # "link" /\ (resolv' = iface[c] \/ entry' = "gone")
        BY <4>1 DEF Write
      <4>3. iface'[c] = iface[c]
        BY <2>3
      <4> QED
        BY <3>1, <4>1, <4>2, <4>3 DEF HostKept, Lists
    <3>2. CASE iface[c] \notin WithDns
      BY <1>8, <1>k, <2>2, <3>2 DEF DnsApply, dnsVars
    <3> QED
      BY <3>1, <3>2
  <2> QED
    BY <2>2, <2>3, <2>4 DEF DnsLeft, DnsFits, Own, Up, Lists
<1>9. CASE Activate(c)
  <2>1. op[c] = "connect" /\ pc[c] = "activate"
    BY <1>9 DEF Activate, PlacesOf
  <2>2. /\ IF iface[c] \in WithDns THEN Lists(iface[c]) ELSE resolv = Host
        /\ Up(iface[c])
    BY <2>1 DEF DnsFits, Own
  <2>3. /\ pc'[c] = "idle" /\ links' = links /\ active' = iface[c]
        /\ UNCHANGED dnsVars
    BY <1>r, <1>9, <2>2 DEF Activate, wgVars
  <2> QED
    BY <1>k, <2>2, <2>3 DEF DnsLeft, ResolvFits, Up, Lists, dnsVars
<1>10. CASE DnsRestore(c)
  <2>1. op[c] = "disconnect" /\ pc[c] = "dnsRestore"
    BY <1>10 DEF DnsRestore, PlacesOf
  <2>2. /\ pc'[c] = "wgDisconnect" /\ op'[c] = "disconnect"
        /\ links' = links /\ active' = active
    BY <1>g, <1>10, <2>1 DEF DnsRestore, wgVars
  <2>3. resolv' = Host /\ HostKept'
    <3>1. CASE backup = Absent
      BY <1>10, <3>1 DEF DnsRestore, HostKept
    <3>2. CASE backup # Absent
      BY <1>10, <3>2 DEF DnsRestore, HostKept, Write
    <3> QED
      BY <3>1, <3>2
  <2>4. Up(active)
    BY <2>1 DEF DnsFits, Own
  <2> QED
    BY <2>2, <2>3, <2>4 DEF DnsLeft, DnsFits, Own, Up
<1>11. CASE WgDisconnect(c)
  <2>1. op[c] = "disconnect" /\ pc[c] = "wgDisconnect" /\ resolv = Host
    BY <1>11 DEF WgDisconnect, PlacesOf, DnsFits
  <2>2. pc'[c] = "deactivate" /\ op'[c] = "disconnect" /\ UNCHANGED dnsVars
    BY <1>g, <1>11, <2>1 DEF WgDisconnect
  <2> QED
    BY <1>k, <2>1, <2>2 DEF DnsLeft, DnsFits, dnsVars
<1>12. CASE WgDisconnectFails(c)
  <2>1. resolv = Host /\ Up(active)
    BY <1>12 DEF WgDisconnectFails, PlacesOf, DnsFits, Own
  <2>2. "wg" \in recent'
    BY <1>12 DEF WgDisconnectFails, Harm, Recently, Overlapped
  <2>3. pc'[c] = "idle" /\ links' = links /\ active' = active /\ UNCHANGED dnsVars
    BY <1>r, <1>12 DEF WgDisconnectFails
  <2> QED
    BY <1>k, <2>1, <2>2, <2>3 DEF DnsLeft, ResolvFits, Up, dnsVars
<1>13. CASE Deactivate(c)
  <2>1. resolv = Host
    BY <1>13 DEF Deactivate, DnsFits
  <2>2. pc'[c] = "idle" /\ active' = NoTunnel /\ UNCHANGED dnsVars
    BY <1>r, <1>13 DEF Deactivate
  <2> QED
    BY <1>k, <1>n, <2>1, <2>2 DEF DnsLeft, ResolvFits, Up, dnsVars
<1>14. CASE WgDisconnectSkips(c)
  <2>1. op[c] = "disconnect" /\ pc[c] = "wgDisconnect" /\ resolv = Host
    BY <1>14 DEF WgDisconnectSkips, PlacesOf, DnsFits
  <2>2. pc'[c] = "deactivate" /\ op'[c] = "disconnect" /\ UNCHANGED dnsVars
    BY <1>g, <1>14, <2>1 DEF WgDisconnectSkips
  <2> QED
    BY <1>k, <2>1, <2>2 DEF DnsLeft, DnsFits, dnsVars
\* A failure of these two is a risk.
<1>15. CASE DnsApplyFails(c) \/ DnsRestoreFails(c)
  BY <1>15 DEF DnsApplyFails, DnsRestoreFails, WriteFails
<1> QED
  BY <1>1, <1>2, <1>3, <1>4, <1>5, <1>6, <1>7, <1>8, <1>9, <1>10, <1>11, <1>12, <1>13,
     <1>14, <1>15 DEF ThreadStep

LEMMA NextDns ==
    BaseInv /\ WorkInv /\ RiskInv /\ DnsInv /\ [Next]_vars => DnsInv'
<1> SUFFICES ASSUME BaseInv, BaseInv', WorkInv, RiskInv, RiskInv', DnsInv, [Next]_vars,
                    ~dnsRisk'
             PROVE  DnsInv'
  BY NextTypeOK, NextControl, NextRequest, NextAlone, NextRisk DEF DnsInv, BaseInv
<1>0. /\ TypeOK /\ ThreadsOK /\ RestOK /\ DnsOK /\ HistoryOK
      /\ Clients \subseteq Threads /\ Main \in Threads /\ Main \notin Clients
  BY DaemonConstants, TypeParts DEF Threads, BaseInv
<1>1. ~dnsRisk /\ ~Overlapped /\ ~Overlapped'
  BY <1>0, NextRisk DEF RiskInv
<1>2. HostKept /\ (serving /\ Idle => Up(active) /\ ResolvFits)
  BY <1>1 DEF DnsInv
\* A daemon that does not serve has nobody at work.
<1>s. ASSUME HostKept', ~serving' PROVE DnsInv'
  BY <1>s DEF DnsInv
<1>u. ASSUME UNCHANGED <<pc, op, iface, serving, active, links, dnsVars, recent>>
      PROVE  DnsInv'
  BY <1>1, <1>u
     DEF DnsInv, HostKept, ResolvFits, DnsFits, Own, Up, Lists, Idle, Busy, dnsVars
\* Only the client that steps matters.
<1>o. ASSUME NEW c \in Clients, DnsLeft(c)', \A d \in Clients \ {c} : ~Busy(d)'
      PROVE  DnsInv'
  BY <1>o DEF DnsInv, DnsLeft, Busy, Idle
<1>a. ASSUME NEW c \in Clients, NEW what, NEW to, NEW t, NEW mode,
             Begin(c, what, to, t, mode), Overlap, serving' = serving
      PROVE  /\ serving' /\ Up(active) /\ ResolvFits /\ recent' = recent
             /\ pc'[c] = to /\ op'[c] = what
             /\ \A d \in Clients \ {c} : ~Busy(d)'
  <2>1. /\ serving /\ Idle /\ recent' = recent
        /\ pc'[c] = to /\ op'[c] = what
        /\ \A d \in Threads \ {c} : Untouched(d)
    BY <1>0, <1>1, <1>a, BeginRemembers
  <2> QED
    BY <1>0, <1>2, <1>a, <2>1 DEF Idle, Busy, Untouched
<1>3. ASSUME NEW c \in Clients, NEW t \in Tunnels, ConnectTunnel(c, t) PROVE DnsInv'
  <2>1. UNCHANGED dnsVars /\ active' = NoTunnel /\ serving' = serving
    BY <1>3 DEF ConnectTunnel
  <2>2. /\ serving /\ Idle /\ active \notin links
        /\ pc'[c] = "wgConnect" /\ op'[c] = "connect"
        /\ \A d \in Threads \ {c} : Untouched(d)
    BY <1>0, <1>1, <1>3, ConnectRemembers
  <2>3. \A d \in Clients \ {c} : ~Busy(d)'
    BY <1>0, <2>2 DEF Idle, Busy, Untouched
  <2>4. resolv = Host
    BY <1>2, <2>2, DaemonConstants DEF ResolvFits, Up
  <2>5. HostKept'
    BY <1>2, <2>1, <2>2 DEF HostKept, dnsVars
  <2> QED
    BY <1>o, <2>1, <2>2, <2>3, <2>4, <2>5 DEF DnsLeft, DnsFits, Own, Up, dnsVars
<1>4. ASSUME NEW c \in Clients, NEW mode \in Modes, SetSplitTunneling(c, mode)
      PROVE  DnsInv'
  <2>1. UNCHANGED dnsVars /\ active' = active /\ links' = links /\ serving' = serving
    BY <1>4 DEF SetSplitTunneling, wgVars
  <2>2. /\ serving' /\ Up(active) /\ ResolvFits /\ recent' = recent
        /\ pc'[c] \in {"cgroupOn", "cgroupOff"} /\ op'[c] = "set"
        /\ \A d \in Clients \ {c} : ~Busy(d)'
    BY <1>a, <1>4, <2>1 DEF SetSplitTunneling
  <2>3. HostKept' /\ ResolvFits'
    BY <1>2, <2>1, <2>2 DEF HostKept, ResolvFits, Lists, dnsVars
  <2> QED
    BY <1>o, <2>1, <2>2, <2>3 DEF DnsLeft, DnsFits, Own, Up
<1>5. ASSUME NEW c \in Clients, DisconnectTunnel(c) PROVE DnsInv'
  <2>1. UNCHANGED dnsVars /\ active' = active /\ links' = links /\ serving' = serving
    BY <1>5 DEF DisconnectTunnel, wgVars
  <2>2. /\ serving' /\ Up(active) /\ ResolvFits /\ recent' = recent
        /\ pc'[c] = "tableOff" /\ op'[c] = "disconnect"
        /\ \A d \in Clients \ {c} : ~Busy(d)'
    BY <1>a, <1>5, <2>1, Zenon DEF DisconnectTunnel
  <2>3. HostKept' /\ ResolvFits'
    BY <1>2, <2>1, <2>2 DEF HostKept, ResolvFits, Lists, dnsVars
  <2> QED
    BY <1>o, <2>1, <2>2, <2>3 DEF DnsLeft, DnsFits, Own, Up
<1>6. ASSUME NEW c \in Threads, ThreadStep(c), serving PROVE DnsInv'
  <2>0. serving' = serving
    BY <1>0, <1>6, StepMoves
  <2>1. /\ c \in Clients /\ serving /\ Busy(c)
        /\ op[c] \in {"connect", "set", "disconnect"} /\ pc[c] \in PlacesOf(op[c])
        /\ \A d \in Clients \ {c} : ~Busy(d)'
    BY <1>1, <1>6, <2>0, StepAlone
  <2>2. DnsFits(c)
    BY <1>1, <2>1 DEF DnsInv
  <2>3. /\ op[c] = "connect" => active = NoTunnel
        /\ op[c] = "disconnect" => iface[c] = active
    BY <1>1, <2>1 DEF WorkInv
  <2>4. DnsLeft(c)'
    BY <1>0, <1>1, <1>2, <1>6, <2>0, <2>1, <2>2, <2>3, DnsStep
  <2> QED
    BY <1>o, <2>1, <2>4
\* Before the daemon serves only its start-up is at work, which has no DNS step.
<1>7. ASSUME NEW c \in Threads, ThreadStep(c), ~serving PROVE DnsInv'
  <2>1. ~serving' /\ pc[c] \notin {"idle", "down", "up"}
    BY <1>0, <1>7, StepMoves
  <2>2. c = Main
    BY <1>7, <2>1 DEF BaseInv, ControlInv, Idle, Threads
  <2>3. pc[c] \in StartPlaces
    BY <2>1, <2>2 DEF BaseInv, ControlInv
  <2>4. UNCHANGED dnsVars
    BY <1>7, <2>3
       DEF StartPlaces, ThreadStep, WgConnect, WgConnectRefused, WgConnectFails, SetIface,
           ReadSettings, DnsApply, DnsApplyFails, Activate, CgroupOn, CgroupOff, ReadIface,
           TableOff, TableOn, FlagDisabled, StoreSettings, ClearIface, DnsRestore,
           DnsRestoreFails, WgDisconnect, WgDisconnectSkips, WgDisconnectFails, Deactivate
  <2> QED
    BY <1>2, <1>7, <1>s, <2>1, <2>4 DEF HostKept, dnsVars
<1>8. ASSUME NEW mode \in Modes, Start(mode) PROVE DnsInv'
  <2>1. ~serving /\ ~serving'
    BY <1>8 DEF Start, BaseInv, ControlInv
  <2>2. HostKept'
    BY <1>2, <1>8, <2>1 DEF Start, HostKept
  <2> QED
    BY <1>s, <2>1, <2>2
<1>9. CASE CleanupStale \/ CleanupStaleFails
  <2>1. /\ Idle /\ ~serving /\ active = NoTunnel
        /\ \A c \in Clients : pc'[c] = pc[c]
    BY <1>0, <1>9 DEF CleanupStale, CleanupStaleFails, BaseInv, ControlInv, RequestInv,
          ThreadsOK, StartPlaces
  <2>2. active' = NoTunnel /\ UNCHANGED dnsVars
    BY <1>9, <2>1 DEF CleanupStale, CleanupStaleFails
  <2>3. resolv' = Host /\ HostKept'
    BY <1>2, <2>1, <2>2 DEF HostKept, dnsVars
  <2>4. NoTunnel \notin WithDns
    BY DaemonConstants
  <2> QED
    BY <2>1, <2>2, <2>3, <2>4 DEF DnsInv, ResolvFits, Up, Idle, Busy
<1>10. CASE Crash
  <2>1. resolv' = Host
    BY <1>10 DEF Crash
  <2>2. HostKept'
    BY <1>2, <1>10, <2>1 DEF Crash, HostKept
  <2> QED
    BY <1>10, <1>s, <2>2 DEF Crash
<1>11. CASE Capture \/ ProcessExits
  BY <1>u, <1>11 DEF Capture, ProcessExits, history, wgVars, threadVars
<1>12. CASE LinkLost
  BY <1>12 DEF LinkLost
<1>13. CASE UNCHANGED vars
  BY <1>u, <1>13 DEF vars, history, wgVars, threadVars
<1> QED
  BY <1>3, <1>4, <1>5, <1>6, <1>7, <1>8, <1>9, <1>10, <1>11, <1>12, <1>13 DEF Next

\* Between requests resolv.conf lists the servers of the connected tunnel, and
\* the host's when there is none, or is gone where it was a symbolic link: nothing
\* but an overlap, a crash under a tunnel's servers, a failing file access or an
\* interface that was lost or forgotten can leave it otherwise.
THEOREM DnsFollows == Spec => []DnsFollowsTunnel
<1>1. Init => RiskInv /\ DnsInv
  BY DEF Init, RiskInv, Overlapped, DnsInv, HostKept
<1>2. DnsInv => DnsFollowsTunnel
  BY DEF DnsInv, DnsFollowsTunnel, Rest, ResolvFits, Lists
<1>3. Spec => []RiskInv
  BY <1>1, BaseHolds, NextRisk, PTL DEF Spec, BaseInv
<1> QED
  BY <1>1, <1>2, <1>3, BaseHolds, WorkHolds, NextDns, PTL DEF Spec

=============================================================================
