------------------------ MODULE SplitTunnelRestProofs ------------------------
(***************************************************************************)
(* Theorems about the routes, and about what agrees between requests, for  *)
(* every number of clients, threads, interfaces, processes, names and      *)
(* addresses.  Where requests must not overlap, or some failure must not   *)
(* occur, the theorem says so.                                             *)
(***************************************************************************)
EXTENDS SplitTunnelProofs

(***************************************************************************)
(* Requests that do not overlap: nobody sends one while another is served. *)
(* The background threads and the environment go on as they like.          *)
(***************************************************************************)
SerialStep == \A c \in Clients : Request(c) => AtRest
OneAtATime == [][SerialStep]_vars

Alone   == \A b, c \in Clients : pc[b] # "idle" /\ pc[c] # "idle" => b = c
Sole(c) == \A b \in Clients \ {c} : pc[b] = "idle"

Enabling == {"enable", "scan", "startMonitor", "readIface", "setupBase", "startDns", "store"}
Stopping == {"stopMonitor", "stopDns", "cgroupOff"}

(***************************************************************************)
(* What the program counter of a thread says of the request it serves.     *)
(***************************************************************************)
Control(c) ==
    /\ pc[c] = "idle" <=> op[c] = "none"
    /\ pc[c] \in {"setIface", "readSettings", "fullVpn", "activate"} => op[c] = "connect"
    /\ pc[c] \in {"teardown", "clearIface", "linkDown"} => op[c] = "disconnect"
    /\ pc[c] \in {"clearRoutes", "setupFull", "flag"} => op[c] = "set"
    /\ pc[c] \in Stopping => op[c] # "connect"
    /\ pc[c] \in Enabling => op[c] # "disconnect"
    /\ pc[c] \in Enabling \ {"readIface", "store"} => cfg[c].enabled
    /\ pc[c] \in Enabling /\ op[c] = "connect" => cfg[c].enabled
    /\ pc[c] \in Stopping \union {"clearRoutes", "setupFull", "flag"} /\ op[c] = "set" =>
           ~cfg[c].enabled
    /\ op[c] \in {"connect", "disconnect"} => iface[c] \in Ifaces

ControlInv == \A c \in Clients : Control(c)

(***************************************************************************)
(* What a loop handle and the enabled cgroup say of the settings, with one *)
(* request at a time: they are taken by enabling alone, and a request that *)
(* disables, or disconnects, has given up each of them in its turn.        *)
(***************************************************************************)
Off(c)    == pc[c] \in {"readIface", "store"} /\ ~cfg[c].enabled
Releasing == {"clearRoutes", "clearIface", "setupFull", "flag", "linkDown"}

Handles(c) ==
    /\ procHandle # NoLoop \/ dnsHandle # NoLoop \/ cgEnabled =>
           settings.enabled \/ (pc[c] \in Enabling \ {"enable"} /\ cfg[c].enabled)
    /\ Off(c) \/ pc[c] \in Releasing \union {"stopDns", "teardown", "cgroupOff"} =>
           procHandle = NoLoop
    /\ Off(c) \/ pc[c] \in Releasing \union {"teardown", "cgroupOff"} => dnsHandle = NoLoop
    /\ Off(c) \/ pc[c] \in Releasing => ~cgEnabled
    /\ pc[c] \in Enabling /\ op[c] = "connect" => settings = cfg[c]
    /\ pc[c] = "fullVpn" => ~settings.enabled

HandlesInv == \A c \in Clients : Sole(c) => Handles(c)

(***************************************************************************)
(* The records of the tunnel, with one request at a time and not both an   *)
(* interface that somebody else deletes and one that cannot be deleted.    *)
(***************************************************************************)
Meant(c) == IF op[c] = "connect" THEN iface[c] ELSE active

Session(c) ==
    /\ tunnel = Meant(c) \/ ("link" \in Faults /\ tunnel = NoIface)
    /\ op[c] = "connect" => active = NoIface
    /\ op[c] = "disconnect" => iface[c] = active
    /\ pc[c] = "setIface" => "link" \in Faults \/ vpnIface = NoIface
    /\ pc[c] = "linkDown" => vpnIface = NoIface
    /\ pc[c] \notin {"setIface", "linkDown"} =>
           vpnIface = Meant(c)
           \/ ("wg" \in Faults /\ op[c] # "connect" /\ vpnIface = NoIface)

SessionInv == \A c \in Clients : Sole(c) => Session(c)

(***************************************************************************)
(* The table of a disabled manager, unless nft or ip link fail.            *)
(***************************************************************************)
WholeTunnel(i) == IF i = NoIface THEN NoTable ELSE Full(i)

DisabledTable(c) ==
    /\ pc[c] \in {"idle", "enable"} /\ op[c] # "connect" /\ ~settings.enabled =>
           nft = WholeTunnel(active)
    /\ pc[c] = "setupFull" => seen[c] = vpnIface
    /\ pc[c] = "flag" \/ (pc[c] = "store" /\ ~cfg[c].enabled) => nft = WholeTunnel(active)
    /\ pc[c] \in {"cgroupOff", "clearIface", "linkDown"} /\ op[c] = "disconnect" => nft = NoTable
    /\ pc[c] = "activate" /\ ~settings.enabled => nft = Full(iface[c])

DisabledInv == \A c \in Clients : Sole(c) => DisabledTable(c)

(***************************************************************************)
(* What apply_settings has set up, step by step, unless the cgroup, nft or *)
(* ip link fail.                                                           *)
(***************************************************************************)
Resolving(s) ==
    HasDomains(s) => dnsHandle # NoLoop /\ dnsJob[dnsHandle] = s.domains

Monitoring(s) == procHandle # NoLoop /\ appPaths = Listed(s) /\ cgEnabled /\ cgDir

EnabledSoFar(c) ==
    /\ pc[c] \in Enabling \ {"enable"} /\ cfg[c].enabled => cgEnabled /\ cgDir
    /\ pc[c] \in Enabling \ {"enable", "scan"} /\ cfg[c].enabled => appPaths = Listed(cfg[c])
    /\ pc[c] \in Enabling \ {"enable", "scan", "startMonitor"} /\ cfg[c].enabled =>
           procHandle # NoLoop
    /\ pc[c] = "setupBase" => seen[c] = vpnIface
    /\ pc[c] \in {"startDns", "store"} /\ cfg[c].enabled /\ vpnIface # NoIface =>
           nft = Base(vpnIface)
    /\ pc[c] = "store" /\ cfg[c].enabled => Resolving(cfg[c])
    /\ pc[c] = "activate" /\ settings.enabled =>
           Monitoring(settings) /\ Resolving(settings) /\ nft = Base(iface[c])
    /\ pc[c] = "idle" /\ settings.enabled /\ active # NoIface =>
           Monitoring(settings) /\ Resolving(settings) /\ nft = Base(active)

EnabledInv == \A c \in Clients : Sole(c) => EnabledSoFar(c)

(***************************************************************************)
(* What the DNS threads have found.                                        *)
(***************************************************************************)

\* What a DNS thread has found so far: nothing while it is not running, otherwise
\* what the names of its list can yield, and all of it when it is about to update.
Answered(job, found) ==
    \A k \in Dirs : \A d \in Domains :
        found[<<k, d>>] # {} => d \in job[k] /\ found[<<k, d>>] \subseteq UNION Answers[d]

FoundInv ==
    \A l \in DnsLoops :
        /\ dnsPc[l] = "free" => dnsFound[l] = Nothing
        /\ dnsPc[l] = "update" => Complete(dnsJob[l], dnsFound[l])
        /\ Answered(dnsJob[l], dnsFound[l])

-----------------------------------------------------------------------------

\* The settings a client may send are settings.
LEMMA RequestsAreSettings == \A s \in Requests \union {DefaultSettings} : s \in Settings
  BY ConstantsAssumption, Values

\* Where apply_settings returns to, and where it goes from the interface it read.
LEMMA ApplyReturnsTo ==
    ASSUME TypeOK, NEW c \in Clients, ApplyReturns(c)
    PROVE  \/ /\ op[c] = "connect" /\ pc'[c] = "activate"
              /\ UNCHANGED <<op, cfg, iface, seen>>
           \/ /\ op[c] # "connect" /\ pc'[c] = "idle" /\ op'[c] = "none"
              /\ cfg'[c] = DefaultSettings
  BY DEF ApplyReturns, Reply, TypeOK

LEMMA ReadIfaceTo ==
    ASSUME TypeOK, NEW c \in Clients, ReadIface(c)
    PROVE  /\ pc[c] = "readIface" /\ UNCHANGED <<op, cfg, iface>> /\ seen'[c] = vpnIface
           /\ pc'[c] = IF ~cfg[c].enabled THEN "setupFull"
                       ELSE IF vpnIface # NoIface THEN "setupBase" ELSE "startDns"
  BY DEF ReadIface, Goto, TypeOK

\* A step of one thread leaves the locals of the others alone.
LEMMA OthersKeepLocals ==
    ASSUME TypeOK, NEW c \in Clients, Request(c) \/ Serve(c), NEW b \in Clients, b # c
    PROVE  /\ pc'[b] = pc[b] /\ op'[b] = op[b] /\ cfg'[b] = cfg[b]
           /\ iface'[b] = iface[b] /\ seen'[b] = seen[b]
<1> DEFINE Kept == /\ pc'[b] = pc[b] /\ op'[b] = op[b] /\ cfg'[b] = cfg[b]
                   /\ iface'[b] = iface[b] /\ seen'[b] = seen[b]
<1> SUFFICES Kept
  OBVIOUS
<1> USE DEF TypeOK, clientVars
<1>1. ASSUME NEW s \in Requests, SetSplitTunneling(c, s) PROVE Kept
  BY <1>1 DEF SetSplitTunneling, Goto
<1>2. ASSUME NEW i \in Ifaces, ConnectTunnel(c, i) PROVE Kept
  BY <1>2 DEF ConnectTunnel, Goto
<1>3. ASSUME NEW i \in Ifaces, ConnectFails(c, i) PROVE Kept
  BY <1>3 DEF ConnectFails
<1>4. CASE DisconnectTunnel(c)
  BY <1>4 DEF DisconnectTunnel, Goto
<1>5. CASE CgroupEnable(c)
  BY <1>5 DEF CgroupEnable, ApplyReturns, Reply
<1>6. CASE ScanProcesses(c)
  BY <1>6 DEF ScanProcesses, Step, Goto
<1>7. CASE StartProcessMonitor(c)
  BY <1>7 DEF StartProcessMonitor, Step, Goto
<1>8. CASE ReadIface(c)
  BY <1>8 DEF ReadIface, Goto
<1>9. CASE SetupBase(c)
  BY <1>9 DEF SetupBase, Step, Goto
<1>10. CASE StartDnsLoop(c)
  BY <1>10 DEF StartDnsLoop, Step, Goto
<1>11. CASE StoreSettings(c)
  BY <1>11 DEF StoreSettings, ApplyReturns, Reply
<1>12. CASE StopProcessMonitor(c)
  BY <1>12 DEF StopProcessMonitor, Step, Goto
<1>13. CASE StopDnsLoop(c)
  BY <1>13 DEF StopDnsLoop, Step, Goto
<1>14. CASE Teardown(c)
  BY <1>14 DEF Teardown, Step, Goto
<1>15. CASE CgroupDisable(c)
  BY <1>15 DEF CgroupDisable, Step, Goto
<1>16. CASE ClearRoutes(c)
  BY <1>16 DEF ClearRoutes, Step, Goto
<1>17. CASE ClearIfaceAndRoutes(c)
  BY <1>17 DEF ClearIfaceAndRoutes, Step, Goto
<1>18. CASE SetupFullOrNone(c)
  BY <1>18 DEF SetupFullOrNone, Step, Goto
<1>19. CASE FlagDisabled(c)
  BY <1>19 DEF FlagDisabled, Step, Goto
<1>20. CASE SetIface(c)
  BY <1>20 DEF SetIface, Step, Goto
<1>21. CASE ReadSettings(c)
  BY <1>21 DEF ReadSettings, Goto
<1>22. CASE SetupFullVpn(c)
  BY <1>22 DEF SetupFullVpn, Step, Goto
<1>23. CASE Activate(c)
  BY <1>23 DEF Activate, Reply
<1>24. CASE LinkDown(c)
  BY <1>24 DEF LinkDown, Reply
<1> QED
  BY <1>1, <1>2, <1>3, <1>4, <1>5, <1>6, <1>7, <1>8, <1>9, <1>10, <1>11, <1>12,
     <1>13, <1>14, <1>15, <1>16, <1>17, <1>18, <1>19, <1>20, <1>21, <1>22, <1>23,
     <1>24
  DEF Request, Serve

\* The steps of the loops and of the environment leave what the requests work on
\* alone, but for an interface that somebody deletes.
quietVars == <<clientVars, settings, nft, active, vpnIface, cgEnabled, cgDir,
               procHandle, dnsHandle, appPaths>>

LEMMA OtherStepsAreQuiet ==
    ASSUME [Next]_vars, ~(\E c \in Clients : Request(c) \/ Serve(c)) \/ UNCHANGED vars
    PROVE  /\ UNCHANGED quietVars
           /\ tunnel' = tunnel \/ ("link" \in Faults /\ tunnel' = NoIface)
<1> USE DEF quietVars, clientVars, sessionVars, slotVars, cgVars, monVars, hostVars
<1>1. ASSUME NEW l \in ProcLoops, ProcLoop(l) PROVE UNCHANGED <<quietVars, tunnel>>
  BY <1>1 DEF ProcLoop, ProcTick, ProcIsWatched, ProcMatch, ProcAdd, ProcRecord
<1>2. ASSUME NEW l \in DnsLoops, DnsLoop(l) PROVE UNCHANGED <<quietVars, tunnel>>
  BY <1>2 DEF DnsLoop, DnsResolveVpn, DnsResolveDirect, DnsUpdateRoutes, DnsWake
<1>3. ASSUME NEW p \in Pids, (\E a \in Apps : ProcessRuns(p, a)) \/ ProcessExits(p)
      PROVE  UNCHANGED <<quietVars, tunnel>>
  BY <1>3 DEF ProcessRuns, ProcessExits
<1>4. CASE LinkLost
  BY <1>4 DEF LinkLost
<1>5. CASE UNCHANGED vars
  BY <1>5 DEF vars
<1> QED
  BY <1>1, <1>2, <1>3, <1>4, <1>5 DEF Next, Environment

\* The induction step of ControlInv, for the thread that takes the step.
LEMMA ThreadKeepsControl ==
    ASSUME TypeOK, NEW c \in Clients, Control(c), Request(c) \/ Serve(c)
    PROVE  Control(c)'
<1> USE ConstantsAssumption DEF TypeOK, Control, Enabling, Stopping, Settings, clientVars
<1>1. ASSUME NEW s \in Requests, SetSplitTunneling(c, s) PROVE Control(c)'
  BY <1>1 DEF SetSplitTunneling, Goto
<1>2. ASSUME NEW i \in Ifaces, ConnectTunnel(c, i) PROVE Control(c)'
  BY <1>2 DEF ConnectTunnel, Goto
<1>3. ASSUME NEW i \in Ifaces, ConnectFails(c, i) PROVE Control(c)'
  BY <1>3 DEF ConnectFails
<1>4. CASE DisconnectTunnel(c)
  BY <1>4 DEF DisconnectTunnel, Goto
<1>5. CASE CgroupEnable(c)
  <2>1. /\ pc[c] = "enable" /\ cfg[c].enabled
        /\ \/ pc'[c] = "scan" /\ UNCHANGED <<op, cfg, iface>>
           \/ ApplyReturns(c)
    BY <1>5 DEF CgroupEnable
  <2>2. CASE pc'[c] = "scan" /\ UNCHANGED <<op, cfg, iface>>
    BY <2>1, <2>2
  <2>3. CASE ApplyReturns(c)
    BY <2>1, <2>3, ApplyReturnsTo
  <2> QED
    BY <2>1, <2>2, <2>3
<1>6. CASE ScanProcesses(c)
  BY <1>6 DEF ScanProcesses, Step, Goto
<1>7. CASE StartProcessMonitor(c)
  BY <1>7 DEF StartProcessMonitor, Step, Goto
<1>8. CASE ReadIface(c)
  <2>1. /\ pc[c] = "readIface" /\ UNCHANGED <<op, cfg, iface>>
        /\ pc'[c] = IF ~cfg[c].enabled THEN "setupFull"
                    ELSE IF vpnIface # NoIface THEN "setupBase" ELSE "startDns"
    BY <1>8, ReadIfaceTo
  <2> QED
    BY <2>1
<1>9. CASE SetupBase(c)
  BY <1>9 DEF SetupBase, Step, Goto
<1>10. CASE StartDnsLoop(c)
  BY <1>10 DEF StartDnsLoop, Step, Goto
<1>11. CASE StoreSettings(c)
  <2>1. pc[c] = "store" /\ ApplyReturns(c)
    BY <1>11 DEF StoreSettings
  <2> QED
    BY <2>1, ApplyReturnsTo
<1>12. CASE StopProcessMonitor(c)
  BY <1>12 DEF StopProcessMonitor, Step, Goto
<1>13. CASE StopDnsLoop(c)
  BY <1>13 DEF StopDnsLoop, Step, Goto
<1>14. CASE Teardown(c)
  BY <1>14 DEF Teardown, Step, Goto
<1>15. CASE CgroupDisable(c)
  BY <1>15 DEF CgroupDisable, Step, Goto
<1>16. CASE ClearRoutes(c)
  BY <1>16 DEF ClearRoutes, Step, Goto
<1>17. CASE ClearIfaceAndRoutes(c)
  BY <1>17 DEF ClearIfaceAndRoutes, Step, Goto
<1>18. CASE SetupFullOrNone(c)
  BY <1>18 DEF SetupFullOrNone, Step, Goto
<1>19. CASE FlagDisabled(c)
  BY <1>19 DEF FlagDisabled, Step, Goto
<1>20. CASE SetIface(c)
  BY <1>20 DEF SetIface, Step, Goto
<1>21. CASE ReadSettings(c)
  BY <1>21 DEF ReadSettings, Goto
<1>22. CASE SetupFullVpn(c)
  BY <1>22 DEF SetupFullVpn, Step, Goto
<1>23. CASE Activate(c)
  BY <1>23 DEF Activate, Reply
<1>24. CASE LinkDown(c)
  BY <1>24 DEF LinkDown, Reply
<1> QED
  BY <1>1, <1>2, <1>3, <1>4, <1>5, <1>6, <1>7, <1>8, <1>9, <1>10, <1>11, <1>12,
     <1>13, <1>14, <1>15, <1>16, <1>17, <1>18, <1>19, <1>20, <1>21, <1>22, <1>23,
     <1>24
  DEF Request, Serve

LEMMA NextControlInv == TypeOK /\ ControlInv /\ [Next]_vars => ControlInv'
<1> SUFFICES ASSUME TypeOK, ControlInv, [Next]_vars, NEW b \in Clients PROVE Control(b)'
  BY DEF ControlInv
<1>1. ASSUME NEW c \in Clients, Request(c) \/ Serve(c) PROVE Control(b)'
  <2>1. CASE b = c
    BY <1>1, <2>1, ThreadKeepsControl DEF ControlInv
  <2>2. CASE b # c
    BY <1>1, <2>2, OthersKeepLocals DEF ControlInv, Control
  <2> QED
    BY <2>1, <2>2
<1>2. CASE ~(\E c \in Clients : Request(c) \/ Serve(c))
  BY <1>2, OtherStepsAreQuiet DEF quietVars, clientVars, ControlInv, Control
<1> QED
  BY <1>1, <1>2

LEMMA InitControlInv == Init => ControlInv
  BY DEF Init, ControlInv, Control, Enabling, Stopping

-----------------------------------------------------------------------------

\* A thread that takes a step, when requests do not overlap, is the only one.
LEMMA MoverIsSole ==
    ASSUME Alone, SerialStep, NEW c \in Clients, Request(c) \/ Serve(c)
    PROVE  Sole(c)
<1>1. Request(c) => AtRest
  BY DEF SerialStep
<1>2. Serve(c) => pc[c] # "idle"
  BY DEF Serve, CgroupEnable, ScanProcesses, StartProcessMonitor, ReadIface, SetupBase,
     StartDnsLoop, StoreSettings, StopProcessMonitor, StopDnsLoop, Teardown,
     CgroupDisable, ClearRoutes, ClearIfaceAndRoutes, SetupFullOrNone, FlagDisabled,
     SetIface, ReadSettings, SetupFullVpn, Activate, LinkDown, Step, Goto
<1> QED
  BY <1>1, <1>2 DEF Alone, AtRest, Sole

LEMMA NextAlone == TypeOK /\ Alone /\ [Next]_vars /\ [SerialStep]_vars => Alone'
<1> SUFFICES ASSUME TypeOK, Alone, [Next]_vars, [SerialStep]_vars PROVE Alone'
  OBVIOUS
<1>1. ASSUME NEW c \in Clients, Request(c) \/ Serve(c), SerialStep PROVE Alone'
  BY <1>1, MoverIsSole, OthersKeepLocals DEF Alone, Sole
<1>2. CASE ~(\E c \in Clients : Request(c) \/ Serve(c)) \/ UNCHANGED vars
  BY <1>2, OtherStepsAreQuiet DEF quietVars, clientVars, Alone
<1> QED
  BY <1>1, <1>2

\* What a step is to a thread that is the only one after it.
LEMMA SerialCases ==
    ASSUME TypeOK, Alone, ControlInv, ControlInv', [Next]_vars, [SerialStep]_vars,
           NEW c \in Clients, Sole(c)'
    PROVE  \/ \E b \in Clients :
                 /\ Request(b) \/ Serve(b)
                 /\ Sole(b)
                 /\ \/ b = c
                    \/ /\ pc'[b] = "idle" /\ op'[b] = "none"
                       /\ pc'[c] = "idle" /\ op'[c] = "none"
           \/ /\ Sole(c)
              /\ ~(\E b \in Clients : Request(b) \/ Serve(b)) \/ UNCHANGED vars
<1>1. ASSUME NEW b \in Clients, Request(b) \/ Serve(b), SerialStep, b # c
      PROVE  /\ pc'[b] = "idle" /\ op'[b] = "none"
             /\ pc'[c] = "idle" /\ op'[c] = "none"
  <2>1. pc'[b] = "idle" /\ pc'[c] = "idle"
    BY <1>1, MoverIsSole, OthersKeepLocals DEF Sole
  <2> QED
    BY <2>1 DEF ControlInv, Control
<1>2. CASE ~(\E b \in Clients : Request(b) \/ Serve(b)) \/ UNCHANGED vars
  BY <1>2, OtherStepsAreQuiet DEF quietVars, clientVars, Sole
<1> QED
  BY <1>1, <1>2, MoverIsSole

-----------------------------------------------------------------------------

\* The induction step of HandlesInv, for the thread that takes the step.
LEMMA ThreadKeepsHandles ==
    ASSUME TypeOK, NEW c \in Clients, Control(c), Handles(c), Request(c) \/ Serve(c)
    PROVE  Handles(c)'
<1> USE ConstantsAssumption
    DEF TypeOK, Control, Handles, Off, Releasing, Enabling, Stopping, Settings, clientVars, slotVars,
        cgVars
<1>1. ASSUME NEW s \in Requests, SetSplitTunneling(c, s) PROVE Handles(c)'
  BY <1>1 DEF SetSplitTunneling, Goto
<1>2. ASSUME NEW i \in Ifaces, ConnectTunnel(c, i) PROVE Handles(c)'
  BY <1>2 DEF ConnectTunnel, Goto
<1>3. ASSUME NEW i \in Ifaces, ConnectFails(c, i) PROVE Handles(c)'
  BY <1>3 DEF ConnectFails
<1>4. CASE DisconnectTunnel(c)
  BY <1>4 DEF DisconnectTunnel, Goto
<1>5. CASE CgroupEnable(c)
  <2>1. /\ pc[c] = "enable" /\ UNCHANGED <<settings, procHandle, dnsHandle>>
        /\ \/ pc'[c] = "scan" /\ UNCHANGED <<op, cfg, iface>>
           \/ ApplyReturns(c) /\ UNCHANGED cgEnabled
    BY <1>5 DEF CgroupEnable
  <2>2. CASE pc'[c] = "scan" /\ UNCHANGED <<op, cfg, iface>>
    BY <2>1, <2>2
  <2>3. CASE ApplyReturns(c) /\ UNCHANGED cgEnabled
    BY <2>1, <2>3, ApplyReturnsTo
  <2> QED
    BY <2>1, <2>2, <2>3
<1>6. CASE ScanProcesses(c)
  BY <1>6 DEF ScanProcesses, Step, Goto
<1>7. CASE StartProcessMonitor(c)
  BY <1>7 DEF StartProcessMonitor, Step, Goto
<1>8. CASE ReadIface(c)
  <2>1. UNCHANGED <<settings, procHandle, dnsHandle, cgEnabled>>
    BY <1>8 DEF ReadIface
  <2>2. /\ pc[c] = "readIface" /\ UNCHANGED <<op, cfg, iface>>
        /\ pc'[c] = IF ~cfg[c].enabled THEN "setupFull"
                    ELSE IF vpnIface # NoIface THEN "setupBase" ELSE "startDns"
    BY <1>8, ReadIfaceTo
  <2>3. CASE ~cfg[c].enabled
    BY <2>1, <2>2, <2>3
  <2>4. CASE cfg[c].enabled
    BY <2>1, <2>2, <2>4
  <2> QED
    BY <2>3, <2>4
<1>9. CASE SetupBase(c)
  BY <1>9 DEF SetupBase, Step, Goto
<1>10. CASE StartDnsLoop(c)
  BY <1>10 DEF StartDnsLoop, Step, Goto
<1>11. CASE StoreSettings(c)
  <2>1. /\ pc[c] = "store" /\ ApplyReturns(c) /\ settings' = cfg[c]
        /\ UNCHANGED <<procHandle, dnsHandle, cgEnabled>>
    BY <1>11 DEF StoreSettings
  <2>2. CASE op[c] = "connect" /\ pc'[c] = "activate" /\ UNCHANGED <<op, cfg, iface, seen>>
    BY <2>1, <2>2
  <2>3. CASE op[c] # "connect" /\ pc'[c] = "idle" /\ op'[c] = "none"
    BY <2>1, <2>3
  <2> QED
    BY <2>1, <2>2, <2>3, ApplyReturnsTo
<1>12. CASE StopProcessMonitor(c)
  BY <1>12 DEF StopProcessMonitor, Step, Goto
<1>13. CASE StopDnsLoop(c)
  BY <1>13 DEF StopDnsLoop, Step, Goto
<1>14. CASE Teardown(c)
  BY <1>14 DEF Teardown, Step, Goto
<1>15. CASE CgroupDisable(c)
  BY <1>15 DEF CgroupDisable, Step, Goto
<1>16. CASE ClearRoutes(c)
  BY <1>16 DEF ClearRoutes, Step, Goto
<1>17. CASE ClearIfaceAndRoutes(c)
  BY <1>17 DEF ClearIfaceAndRoutes, Step, Goto
<1>18. CASE SetupFullOrNone(c)
  BY <1>18 DEF SetupFullOrNone, Step, Goto
<1>19. CASE FlagDisabled(c)
  BY <1>19 DEF FlagDisabled, Step, Goto
<1>20. CASE SetIface(c)
  BY <1>20 DEF SetIface, Step, Goto
<1>21. CASE ReadSettings(c)
  BY <1>21 DEF ReadSettings, Goto
<1>22. CASE SetupFullVpn(c)
  BY <1>22 DEF SetupFullVpn, Step, Goto
<1>23. CASE Activate(c)
  BY <1>23 DEF Activate, Reply
<1>24. CASE LinkDown(c)
  BY <1>24 DEF LinkDown, Reply
<1> QED
  BY <1>1, <1>2, <1>3, <1>4, <1>5, <1>6, <1>7, <1>8, <1>9, <1>10, <1>11, <1>12,
     <1>13, <1>14, <1>15, <1>16, <1>17, <1>18, <1>19, <1>20, <1>21, <1>22, <1>23,
     <1>24
  DEF Request, Serve

LEMMA NextHandlesInv ==
    ASSUME TypeOK, Alone, ControlInv, ControlInv', HandlesInv, [Next]_vars, [SerialStep]_vars
    PROVE  HandlesInv'
<1> SUFFICES ASSUME NEW c \in Clients, Sole(c)' PROVE Handles(c)'
  BY DEF HandlesInv
<1>1. ASSUME NEW b \in Clients, Request(b) \/ Serve(b), Sole(b) PROVE Handles(b)'
  BY <1>1, ThreadKeepsHandles DEF ControlInv, HandlesInv
<1>2. ASSUME NEW b \in Clients, Handles(b)', pc'[b] = "idle", op'[b] = "none",
             pc'[c] = "idle", op'[c] = "none"
      PROVE  Handles(c)'
  BY <1>2 DEF Handles, Off, Releasing, Enabling
<1>3. CASE Sole(c) /\ (~(\E b \in Clients : Request(b) \/ Serve(b)) \/ UNCHANGED vars)
  BY <1>3, OtherStepsAreQuiet
  DEF quietVars, clientVars, HandlesInv, Handles, Off, Releasing
<1> QED
  BY <1>1, <1>2, <1>3, SerialCases

LEMMA InitHandlesInv == Init => HandlesInv
  BY DEF Init, HandlesInv, Handles, Off, Releasing, Enabling

LEMMA ControlAlways == Spec => []ControlInv
  BY InitControlInv, NextControlInv, TypeCorrect, PTL DEF Spec

LEMMA SerialAlone == Spec /\ OneAtATime => []Alone
<1>1. Init => Alone
  BY DEF Init, Alone
<1> QED
  BY <1>1, NextAlone, TypeCorrect, PTL DEF Spec, OneAtATime

\* With one request at a time no handle and no cgroup outlives the request that
\* disables (the order of the releases in disable and on_tunnel_disconnected).
LEMMA SerialHandles == Spec /\ OneAtATime => []HandlesInv
<1>1. TypeOK /\ Alone /\ ControlInv /\ ControlInv' /\ HandlesInv /\ [Next]_vars
          /\ [SerialStep]_vars => HandlesInv'
  BY NextHandlesInv
<1> QED
  BY <1>1, InitHandlesInv, ControlAlways, SerialAlone, TypeCorrect, PTL
  DEF Spec, OneAtATime

\* A single client sends one request at a time: the runs with one client are
\* instances of what follows.
LEMMA OneClientIsSerial == ASSUME \A b, c \in Clients : b = c PROVE Spec => OneAtATime
<1>1. SerialStep
  BY DEF SerialStep, Request, SetSplitTunneling, ConnectTunnel, ConnectFails,
     DisconnectTunnel, Goto, AtRest
<1> QED
  BY <1>1, PTL DEF OneAtATime

\* What StoppedScanAddsNothing says of one step.
AddsNothing ==
    AtRest /\ ~settings.enabled => \A p \in cgProcs' \ cgProcs : exe'[p] # exe[p]

LEMMA NextAddsNothing ==
    ASSUME Clients # {}, TypeOK, HandlesInv, [Next]_vars
    PROVE  AddsNothing
<1> SUFFICES ASSUME AtRest, ~settings.enabled, NEW p \in cgProcs' \ cgProcs
             PROVE  exe'[p] # exe[p]
  BY DEF AddsNothing
<1> USE DEF cgVars
<1>1. ~cgEnabled
  <2> PICK c \in Clients : TRUE
    OBVIOUS
  <2>1. pc[c] = "idle" /\ Handles(c)
    BY DEF AtRest, HandlesInv, Sole
  <2> QED
    BY <2>1 DEF Handles, Enabling
<1>2. ASSUME NEW c \in Clients, Request(c) PROVE FALSE
  BY <1>2 DEF Request, SetSplitTunneling, ConnectTunnel, ConnectFails, DisconnectTunnel
<1>3. ASSUME NEW c \in Clients, Serve(c) PROVE FALSE
  BY <1>3 DEF AtRest, Serve, CgroupEnable, ScanProcesses, StartProcessMonitor, ReadIface,
     SetupBase, StartDnsLoop, StoreSettings, StopProcessMonitor, StopDnsLoop, Teardown,
     CgroupDisable, ClearRoutes, ClearIfaceAndRoutes, SetupFullOrNone, FlagDisabled,
     SetIface, ReadSettings, SetupFullVpn, Activate, LinkDown, Step, Goto
<1>4. ASSUME NEW l \in ProcLoops, ProcLoop(l) PROVE FALSE
  BY <1>1, <1>4 DEF ProcLoop, ProcTick, ProcIsWatched, ProcMatch, ProcAdd, ProcRecord
<1>5. ASSUME NEW l \in DnsLoops, DnsLoop(l) PROVE FALSE
  BY <1>5 DEF DnsLoop, DnsResolveVpn, DnsResolveDirect, DnsUpdateRoutes, DnsWake
<1>6. ASSUME NEW q \in Pids, (\E a \in Apps : ProcessRuns(q, a)) \/ ProcessExits(q)
      PROVE  exe'[p] # exe[p]
  BY <1>6, ConstantsAssumption DEF ProcessRuns, ProcessExits, TypeOK
<1>7. CASE LinkLost \/ UNCHANGED vars
  BY <1>7 DEF LinkLost, vars
<1> QED
  BY <1>2, <1>3, <1>4, <1>5, <1>6, <1>7 DEF Next, Environment

\* With one request at a time a scan that was under way when the monitor was
\* stopped moves no process into the cgroup once the request is answered: add_pid
\* asks is_enabled under the cgroup lock (process_monitor.rs), whatever fails.
THEOREM StoppedScanNeverAdds ==
    ASSUME Clients # {} PROVE Spec /\ OneAtATime => StoppedScanAddsNothing
<1>1. TypeOK /\ HandlesInv /\ [Next]_vars => [AddsNothing]_vars
  BY NextAddsNothing
<1> QED
  BY <1>1, SerialHandles, TypeCorrect, PTL DEF Spec, StoppedScanAddsNothing, AddsNothing

-----------------------------------------------------------------------------

\* Not both an interface somebody else deletes and one that cannot be deleted.
LinkXorWg == ~({"link", "wg"} \subseteq Faults)

\* The induction step of SessionInv, for the thread that takes the step.
LEMMA ThreadKeepsSession ==
    ASSUME LinkXorWg, TypeOK, NEW c \in Clients, Control(c), Session(c),
           Request(c) \/ Serve(c)
    PROVE  Session(c)'
<1> USE ConstantsAssumption
    DEF TypeOK, LinkXorWg, Control, Session, Meant, Enabling, Stopping, clientVars,
        sessionVars, hostVars
<1>1. ASSUME NEW s \in Requests, SetSplitTunneling(c, s) PROVE Session(c)'
  BY <1>1 DEF SetSplitTunneling, Goto
<1>2. ASSUME NEW i \in Ifaces, ConnectTunnel(c, i) PROVE Session(c)'
  BY <1>2 DEF ConnectTunnel, Goto
<1>3. ASSUME NEW i \in Ifaces, ConnectFails(c, i) PROVE Session(c)'
  BY <1>3 DEF ConnectFails
<1>4. CASE DisconnectTunnel(c)
  BY <1>4 DEF DisconnectTunnel, Goto
<1>5. CASE CgroupEnable(c)
  <2>1. /\ pc[c] = "enable" /\ UNCHANGED <<active, tunnel, vpnIface>>
        /\ \/ pc'[c] = "scan" /\ UNCHANGED <<op, iface>>
           \/ ApplyReturns(c)
    BY <1>5 DEF CgroupEnable
  <2> QED
    BY <2>1, ApplyReturnsTo
<1>6. CASE ScanProcesses(c)
  BY <1>6 DEF ScanProcesses, Step, Goto
<1>7. CASE StartProcessMonitor(c)
  BY <1>7 DEF StartProcessMonitor, Step, Goto
<1>8. CASE ReadIface(c)
  <2>1. UNCHANGED <<active, tunnel, vpnIface>>
    BY <1>8 DEF ReadIface
  <2> QED
    BY <1>8, <2>1, ReadIfaceTo
<1>9. CASE SetupBase(c)
  BY <1>9 DEF SetupBase, Step, Goto
<1>10. CASE StartDnsLoop(c)
  BY <1>10 DEF StartDnsLoop, Step, Goto
<1>11. CASE StoreSettings(c)
  <2>1. pc[c] = "store" /\ ApplyReturns(c) /\ UNCHANGED <<active, tunnel, vpnIface>>
    BY <1>11 DEF StoreSettings
  <2> QED
    BY <2>1, ApplyReturnsTo
<1>12. CASE StopProcessMonitor(c)
  BY <1>12 DEF StopProcessMonitor, Step, Goto
<1>13. CASE StopDnsLoop(c)
  BY <1>13 DEF StopDnsLoop, Step, Goto
<1>14. CASE Teardown(c)
  BY <1>14 DEF Teardown, Step, Goto
<1>15. CASE CgroupDisable(c)
  BY <1>15 DEF CgroupDisable, Step, Goto
<1>16. CASE ClearRoutes(c)
  BY <1>16 DEF ClearRoutes, Step, Goto
<1>17. CASE ClearIfaceAndRoutes(c)
  BY <1>17 DEF ClearIfaceAndRoutes, Step, Goto
<1>18. CASE SetupFullOrNone(c)
  BY <1>18 DEF SetupFullOrNone, Step, Goto
<1>19. CASE FlagDisabled(c)
  BY <1>19 DEF FlagDisabled, Step, Goto
<1>20. CASE SetIface(c)
  BY <1>20 DEF SetIface, Step, Goto
<1>21. CASE ReadSettings(c)
  BY <1>21 DEF ReadSettings, Goto
<1>22. CASE SetupFullVpn(c)
  BY <1>22 DEF SetupFullVpn, Step, Goto
<1>23. CASE Activate(c)
  BY <1>23 DEF Activate, Reply
<1>24. CASE LinkDown(c)
  BY <1>24 DEF LinkDown, Reply
<1> QED
  BY <1>1, <1>2, <1>3, <1>4, <1>5, <1>6, <1>7, <1>8, <1>9, <1>10, <1>11, <1>12,
     <1>13, <1>14, <1>15, <1>16, <1>17, <1>18, <1>19, <1>20, <1>21, <1>22, <1>23,
     <1>24
  DEF Request, Serve

LEMMA NextSessionInv ==
    ASSUME LinkXorWg, TypeOK, Alone, ControlInv, ControlInv', SessionInv, [Next]_vars,
           [SerialStep]_vars
    PROVE  SessionInv'
<1> SUFFICES ASSUME NEW c \in Clients, Sole(c)' PROVE Session(c)'
  BY DEF SessionInv
<1>1. ASSUME NEW b \in Clients, Request(b) \/ Serve(b), Sole(b) PROVE Session(b)'
  BY <1>1, ThreadKeepsSession DEF ControlInv, SessionInv
<1>2. ASSUME NEW b \in Clients, Session(b)', pc'[b] = "idle", op'[b] = "none",
             pc'[c] = "idle", op'[c] = "none"
      PROVE  Session(c)'
  BY <1>2 DEF Session, Meant
<1>3. CASE Sole(c) /\ (~(\E b \in Clients : Request(b) \/ Serve(b)) \/ UNCHANGED vars)
  BY <1>3, OtherStepsAreQuiet DEF quietVars, clientVars, SessionInv, Session, Meant
<1> QED
  BY <1>1, <1>2, <1>3, SerialCases

LEMMA InitSessionInv == Init => SessionInv
  BY DEF Init, SessionInv, Session, Meant

LEMMA SerialSession ==
    ASSUME LinkXorWg PROVE Spec /\ OneAtATime => []SessionInv
<1>1. TypeOK /\ Alone /\ ControlInv /\ ControlInv' /\ SessionInv /\ [Next]_vars
          /\ [SerialStep]_vars => SessionInv'
  BY NextSessionInv
<1> QED
  BY <1>1, InitSessionInv, ControlAlways, SerialAlone, TypeCorrect, PTL
  DEF Spec, OneAtATime

\* With one request at a time, and no failure of an interface, the interface that
\* is up, the one the manager routes for and the active tunnel are the same
\* between requests (wg_manager, set_vpn_interface, AppState.active_tunnel).
THEOREM InterfaceAgreesAtRest ==
    ASSUME Clients # {}, Faults \intersect {"link", "wg"} = {}
    PROVE  Spec /\ OneAtATime => []RestInterface
<1>1. LinkXorWg
  BY DEF LinkXorWg
<1>2. ControlInv /\ SessionInv => RestInterface
  <2> SUFFICES ASSUME ControlInv, SessionInv, AtRest
               PROVE  active = tunnel /\ vpnIface = tunnel
    BY DEF RestInterface
  <2> PICK c \in Clients : TRUE
    OBVIOUS
  <2>1. pc[c] = "idle" /\ Control(c) /\ Session(c)
    BY DEF AtRest, ControlInv, SessionInv, Sole
  <2> QED
    BY <2>1 DEF Control, Session, Meant
<1> QED
  BY <1>1, <1>2, ControlAlways, SerialSession, PTL

-----------------------------------------------------------------------------

\* The induction step of DisabledInv, for the thread that takes the step.
LEMMA ThreadKeepsDisabled ==
    ASSUME Faults \intersect {"nft", "wg"} = {}, TypeOK, NEW c \in Clients, Control(c),
           Handles(c), Session(c), DisabledTable(c), Request(c) \/ Serve(c)
    PROVE  DisabledTable(c)'
<1> USE ConstantsAssumption
    DEF TypeOK, Control, Handles, Session, Meant, DisabledTable, WholeTunnel, Enabling,
        Stopping, Settings, clientVars, sessionVars, hostVars
<1>1. ASSUME NEW s \in Requests, SetSplitTunneling(c, s) PROVE DisabledTable(c)'
  BY <1>1 DEF SetSplitTunneling, Goto
<1>2. ASSUME NEW i \in Ifaces, ConnectTunnel(c, i) PROVE DisabledTable(c)'
  BY <1>2 DEF ConnectTunnel, Goto
<1>3. ASSUME NEW i \in Ifaces, ConnectFails(c, i) PROVE DisabledTable(c)'
  BY <1>3 DEF ConnectFails
<1>4. CASE DisconnectTunnel(c)
  BY <1>4 DEF DisconnectTunnel, Goto
<1>5. CASE CgroupEnable(c)
  <2>1. /\ pc[c] = "enable" /\ UNCHANGED <<active, nft, settings, vpnIface>>
        /\ \/ pc'[c] = "scan" /\ UNCHANGED <<op, cfg, iface>>
           \/ ApplyReturns(c)
    BY <1>5 DEF CgroupEnable
  <2>2. CASE pc'[c] = "scan" /\ UNCHANGED <<op, cfg, iface>>
    BY <2>1, <2>2
  <2>3. CASE ApplyReturns(c)
    BY <2>1, <2>3, ApplyReturnsTo
  <2> QED
    BY <2>1, <2>2, <2>3
<1>6. CASE ScanProcesses(c)
  BY <1>6 DEF ScanProcesses, Step, Goto
<1>7. CASE StartProcessMonitor(c)
  BY <1>7 DEF StartProcessMonitor, Step, Goto
<1>8. CASE ReadIface(c)
  <2>1. UNCHANGED <<active, nft, settings, vpnIface>>
    BY <1>8 DEF ReadIface
  <2> QED
    BY <1>8, <2>1, ReadIfaceTo
<1>9. CASE SetupBase(c)
  BY <1>9 DEF SetupBase, Step, Goto
<1>10. CASE StartDnsLoop(c)
  BY <1>10 DEF StartDnsLoop, Step, Goto
<1>11. CASE StoreSettings(c)
  <2>1. /\ pc[c] = "store" /\ ApplyReturns(c) /\ settings' = cfg[c]
        /\ UNCHANGED <<active, nft, vpnIface>>
    BY <1>11 DEF StoreSettings
  <2>2. CASE op[c] = "connect" /\ pc'[c] = "activate" /\ UNCHANGED <<op, cfg, iface, seen>>
    BY <2>1, <2>2
  <2>3. CASE op[c] # "connect" /\ pc'[c] = "idle" /\ op'[c] = "none"
    BY <2>1, <2>3
  <2> QED
    BY <2>1, <2>2, <2>3, ApplyReturnsTo
<1>12. CASE StopProcessMonitor(c)
  BY <1>12 DEF StopProcessMonitor, Step, Goto
<1>13. CASE StopDnsLoop(c)
  BY <1>13 DEF StopDnsLoop, Step, Goto
<1>14. CASE Teardown(c)
  BY <1>14 DEF Teardown, Step, Goto
<1>15. CASE CgroupDisable(c)
  BY <1>15 DEF CgroupDisable, Step, Goto
<1>16. CASE ClearRoutes(c)
  BY <1>16 DEF ClearRoutes, Step, Goto
<1>17. CASE ClearIfaceAndRoutes(c)
  BY <1>17 DEF ClearIfaceAndRoutes, Step, Goto
<1>18. CASE SetupFullOrNone(c)
  BY <1>18 DEF SetupFullOrNone, Step, Goto
<1>19. CASE FlagDisabled(c)
  BY <1>19 DEF FlagDisabled, Step, Goto
<1>20. CASE SetIface(c)
  BY <1>20 DEF SetIface, Step, Goto
<1>21. CASE ReadSettings(c)
  BY <1>21 DEF ReadSettings, Goto
<1>22. CASE SetupFullVpn(c)
  BY <1>22 DEF SetupFullVpn, Step, Goto
<1>23. CASE Activate(c)
  BY <1>23 DEF Activate, Reply
<1>24. CASE LinkDown(c)
  BY <1>24 DEF LinkDown, Reply
<1> QED
  BY <1>1, <1>2, <1>3, <1>4, <1>5, <1>6, <1>7, <1>8, <1>9, <1>10, <1>11, <1>12,
     <1>13, <1>14, <1>15, <1>16, <1>17, <1>18, <1>19, <1>20, <1>21, <1>22, <1>23,
     <1>24
  DEF Request, Serve

LEMMA NextDisabledInv ==
    ASSUME Faults \intersect {"nft", "wg"} = {}, TypeOK, Alone, ControlInv, ControlInv',
           HandlesInv, SessionInv, DisabledInv, [Next]_vars, [SerialStep]_vars
    PROVE  DisabledInv'
<1> SUFFICES ASSUME NEW c \in Clients, Sole(c)' PROVE DisabledTable(c)'
  BY DEF DisabledInv
<1>1. ASSUME NEW b \in Clients, Request(b) \/ Serve(b), Sole(b) PROVE DisabledTable(b)'
  BY <1>1, ThreadKeepsDisabled DEF ControlInv, HandlesInv, SessionInv, DisabledInv
<1>2. ASSUME NEW b \in Clients, DisabledTable(b)', pc'[b] = "idle", op'[b] = "none",
             pc'[c] = "idle", op'[c] = "none"
      PROVE  DisabledTable(c)'
  BY <1>2 DEF DisabledTable, WholeTunnel
<1>3. CASE Sole(c) /\ (~(\E b \in Clients : Request(b) \/ Serve(b)) \/ UNCHANGED vars)
  BY <1>3, OtherStepsAreQuiet
  DEF quietVars, clientVars, DisabledInv, DisabledTable, WholeTunnel
<1> QED
  BY <1>1, <1>2, <1>3, SerialCases

LEMMA InitDisabledInv == Init => DisabledInv
  BY DEF Init, DisabledInv, DisabledTable, WholeTunnel

\* With one request at a time, as long as nft and ip link do not fail, a disabled
\* manager holds no thread and no cgroup and routes everything into the tunnel if
\* there is one (disable, on_tunnel_connected, on_tunnel_disconnected).
THEOREM DisabledAtRest ==
    ASSUME Clients # {}, Faults \intersect {"nft", "wg"} = {}
    PROVE  Spec /\ OneAtATime => []RestDisabled
<1>1. LinkXorWg
  BY DEF LinkXorWg
<1>2. TypeOK /\ Alone /\ ControlInv /\ ControlInv' /\ HandlesInv /\ SessionInv
          /\ DisabledInv /\ [Next]_vars /\ [SerialStep]_vars => DisabledInv'
  BY NextDisabledInv
<1>3. ControlInv /\ HandlesInv /\ DisabledInv => RestDisabled
  <2> SUFFICES ASSUME ControlInv, HandlesInv, DisabledInv, AtRest, ~settings.enabled
               PROVE  /\ procHandle = NoLoop /\ dnsHandle = NoLoop /\ ~cgEnabled
                      /\ nft = WholeTunnel(active)
    BY DEF RestDisabled, WholeTunnel
  <2> PICK c \in Clients : TRUE
    OBVIOUS
  <2>1. pc[c] = "idle" /\ Control(c) /\ Handles(c) /\ DisabledTable(c)
    BY DEF AtRest, ControlInv, HandlesInv, DisabledInv, Sole
  <2> QED
    BY <2>1 DEF Control, Handles, DisabledTable, Enabling
<1> QED
  BY <1>1, <1>2, <1>3, InitDisabledInv, ControlAlways, SerialAlone, SerialHandles,
     SerialSession, TypeCorrect, PTL
  DEF Spec, OneAtATime

-----------------------------------------------------------------------------

\* The induction step of EnabledInv, for the thread that takes the step.
LEMMA ThreadKeepsEnabled ==
    ASSUME Faults \intersect {"cgroup", "nft", "wg"} = {}, TypeOK, NEW c \in Clients,
           Control(c), Handles(c), Session(c), EnabledSoFar(c), Request(c) \/ Serve(c)
    PROVE  EnabledSoFar(c)'
<1> USE ConstantsAssumption
    DEF TypeOK, Control, Handles, Session, Meant, EnabledSoFar, Resolving, Monitoring,
        Enabling, Stopping, Settings, clientVars, sessionVars, hostVars, slotVars, cgVars,
        monVars, dnsVars
<1>1. ASSUME NEW s \in Requests, SetSplitTunneling(c, s) PROVE EnabledSoFar(c)'
  BY <1>1 DEF SetSplitTunneling, Goto
<1>2. ASSUME NEW i \in Ifaces, ConnectTunnel(c, i) PROVE EnabledSoFar(c)'
  BY <1>2 DEF ConnectTunnel, Goto
<1>3. ASSUME NEW i \in Ifaces, ConnectFails(c, i) PROVE EnabledSoFar(c)'
  BY <1>3 DEF ConnectFails
<1>4. CASE DisconnectTunnel(c)
  BY <1>4 DEF DisconnectTunnel, Goto
<1>5. CASE CgroupEnable(c)
  <2>1. /\ pc[c] = "enable" /\ pc'[c] = "scan" /\ cgEnabled' /\ cgDir'
        /\ UNCHANGED <<op, cfg, iface, seen, active, nft, settings>>
    BY <1>5 DEF CgroupEnable
  <2> QED
    BY <2>1
<1>6. CASE ScanProcesses(c)
  BY <1>6 DEF ScanProcesses, Step, Goto
<1>7. CASE StartProcessMonitor(c)
  BY <1>7 DEF StartProcessMonitor, Step, Goto
<1>8. CASE ReadIface(c)
  <2>1. UNCHANGED <<active, nft, settings, vpnIface, cgEnabled, cgDir, procHandle,
                    dnsHandle, appPaths, dnsJob>>
    BY <1>8 DEF ReadIface
  <2> QED
    BY <1>8, <2>1, ReadIfaceTo
<1>9. CASE SetupBase(c)
  BY <1>9 DEF SetupBase, Step, Goto
<1>10. CASE StartDnsLoop(c)
  BY <1>10 DEF StartDnsLoop, Step, Goto
<1>11. CASE StoreSettings(c)
  <2>1. /\ pc[c] = "store" /\ ApplyReturns(c) /\ settings' = cfg[c]
        /\ UNCHANGED <<active, nft, vpnIface, cgEnabled, cgDir, procHandle, dnsHandle,
                       appPaths, dnsJob>>
    BY <1>11 DEF StoreSettings
  <2>2. CASE op[c] = "connect" /\ pc'[c] = "activate" /\ UNCHANGED <<op, cfg, iface, seen>>
    BY <2>1, <2>2
  <2>3. CASE op[c] # "connect" /\ pc'[c] = "idle" /\ op'[c] = "none"
    BY <2>1, <2>3
  <2> QED
    BY <2>1, <2>2, <2>3, ApplyReturnsTo
<1>12. CASE StopProcessMonitor(c)
  BY <1>12 DEF StopProcessMonitor, Step, Goto
<1>13. CASE StopDnsLoop(c)
  BY <1>13 DEF StopDnsLoop, Step, Goto
<1>14. CASE Teardown(c)
  BY <1>14 DEF Teardown, Step, Goto
<1>15. CASE CgroupDisable(c)
  BY <1>15 DEF CgroupDisable, Step, Goto
<1>16. CASE ClearRoutes(c)
  BY <1>16 DEF ClearRoutes, Step, Goto
<1>17. CASE ClearIfaceAndRoutes(c)
  BY <1>17 DEF ClearIfaceAndRoutes, Step, Goto
<1>18. CASE SetupFullOrNone(c)
  BY <1>18 DEF SetupFullOrNone, Step, Goto
<1>19. CASE FlagDisabled(c)
  BY <1>19 DEF FlagDisabled, Step, Goto
<1>20. CASE SetIface(c)
  BY <1>20 DEF SetIface, Step, Goto
<1>21. CASE ReadSettings(c)
  BY <1>21 DEF ReadSettings, Goto
<1>22. CASE SetupFullVpn(c)
  BY <1>22 DEF SetupFullVpn, Step, Goto
<1>23. CASE Activate(c)
  BY <1>23 DEF Activate, Reply
<1>24. CASE LinkDown(c)
  BY <1>24 DEF LinkDown, Reply
<1> QED
  BY <1>1, <1>2, <1>3, <1>4, <1>5, <1>6, <1>7, <1>8, <1>9, <1>10, <1>11, <1>12,
     <1>13, <1>14, <1>15, <1>16, <1>17, <1>18, <1>19, <1>20, <1>21, <1>22, <1>23,
     <1>24
  DEF Request, Serve

\* The names of the thread in the slot change only when the slot does.
LEMMA OtherStepsKeepJob ==
    ASSUME TypeOK, LoopsOwned, [Next]_vars, dnsHandle # NoLoop,
           ~(\E c \in Clients : Request(c) \/ Serve(c)) \/ UNCHANGED vars
    PROVE  dnsJob'[dnsHandle] = dnsJob[dnsHandle]
<1>1. dnsHandle \in DnsLoops /\ dnsHandle \notin cancelled
  BY ConstantsAssumption DEF TypeOK, LoopsOwned, RunningProc, RunningDns
<1>2. ASSUME NEW l \in ProcLoops, ProcLoop(l) PROVE UNCHANGED dnsJob
  BY <1>2 DEF ProcLoop, ProcTick, ProcIsWatched, ProcMatch, ProcAdd, ProcRecord, dnsVars
<1>3. ASSUME NEW l \in DnsLoops, DnsLoop(l) PROVE dnsJob'[dnsHandle] = dnsJob[dnsHandle]
  BY <1>1, <1>3
  DEF DnsLoop, DnsResolveVpn, DnsResolveDirect, DnsUpdateRoutes, DnsWake, DnsEnd, TypeOK
<1>4. ASSUME NEW p \in Pids, (\E a \in Apps : ProcessRuns(p, a)) \/ ProcessExits(p)
      PROVE  UNCHANGED dnsJob
  BY <1>4 DEF ProcessRuns, ProcessExits, dnsVars
<1>5. CASE LinkLost \/ UNCHANGED vars
  BY <1>5 DEF LinkLost, vars, dnsVars
<1> QED
  BY <1>2, <1>3, <1>4, <1>5 DEF Next, Environment

LEMMA NextEnabledInv ==
    ASSUME Faults \intersect {"cgroup", "nft", "wg"} = {}, TypeOK, LoopsOwned, Alone,
           ControlInv, ControlInv', HandlesInv, SessionInv, EnabledInv, [Next]_vars,
           [SerialStep]_vars
    PROVE  EnabledInv'
<1> SUFFICES ASSUME NEW c \in Clients, Sole(c)' PROVE EnabledSoFar(c)'
  BY DEF EnabledInv
<1>1. ASSUME NEW b \in Clients, Request(b) \/ Serve(b), Sole(b) PROVE EnabledSoFar(b)'
  BY <1>1, ThreadKeepsEnabled DEF ControlInv, HandlesInv, SessionInv, EnabledInv
<1>2. ASSUME NEW b \in Clients, EnabledSoFar(b)', pc'[b] = "idle", op'[b] = "none",
             pc'[c] = "idle", op'[c] = "none"
      PROVE  EnabledSoFar(c)'
  BY <1>2 DEF EnabledSoFar, Monitoring, Resolving, Enabling
<1>3. CASE Sole(c) /\ (~(\E b \in Clients : Request(b) \/ Serve(b)) \/ UNCHANGED vars)
  <2>1. EnabledSoFar(c)
    BY <1>3 DEF EnabledInv
  <2> QED
    BY <1>3, <2>1, OtherStepsAreQuiet, OtherStepsKeepJob
    DEF quietVars, clientVars, EnabledSoFar, Monitoring, Resolving
<1> QED
  BY <1>1, <1>2, <1>3, SerialCases

LEMMA InitEnabledInv == Init => EnabledInv
  BY DEF Init, EnabledInv, EnabledSoFar, Enabling

\* With one request at a time, as long as the cgroup, nft and ip link do not fail,
\* an enabled manager with a tunnel runs the monitor with the list in force,
\* resolves the names in force and marks only the cgroup (apply_settings).
THEOREM EnabledAtRest ==
    ASSUME Clients # {}, Faults \intersect {"cgroup", "nft", "wg"} = {}
    PROVE  Spec /\ OneAtATime => []RestEnabled
<1>1. LinkXorWg
  BY DEF LinkXorWg
<1>2. TypeOK /\ LoopsOwned /\ Alone /\ ControlInv /\ ControlInv' /\ HandlesInv
          /\ SessionInv /\ EnabledInv /\ [Next]_vars /\ [SerialStep]_vars => EnabledInv'
  BY NextEnabledInv
<1>3. ControlInv /\ EnabledInv => RestEnabled
  <2> SUFFICES ASSUME ControlInv, EnabledInv, AtRest, settings.enabled, active # NoIface
               PROVE  Monitoring(settings) /\ Resolving(settings) /\ nft = Base(active)
    BY DEF RestEnabled, Monitoring, Resolving
  <2> PICK c \in Clients : TRUE
    OBVIOUS
  <2>1. pc[c] = "idle" /\ EnabledSoFar(c)
    BY DEF AtRest, EnabledInv, Sole
  <2> QED
    BY <2>1 DEF EnabledSoFar
<1> QED
  BY <1>1, <1>2, <1>3, InitEnabledInv, EveryLoopOwned, ControlAlways, SerialAlone,
     SerialHandles, SerialSession, TypeCorrect, PTL
  DEF Spec, OneAtATime

-----------------------------------------------------------------------------

LEMMA NothingAnswered == \A job \in Jobs : Answered(job, Nothing)
  BY DEF Answered, Nothing

\* resolve_all keeps to the list it was given, and to what its names can yield.
LEMMA ResolveAnswers ==
    ASSUME TypeOK, NEW l \in DnsLoops, NEW dir \in Dirs, Resolve(l, dir),
           Answered(dnsJob[l], dnsFound[l])
    PROVE  /\ Answered(dnsJob[l], dnsFound'[l])
           /\ \A m \in DnsLoops \ {l} : dnsFound'[m] = dnsFound[m]
<1>1. PICK ans \in [dnsJob[l][dir] -> SUBSET Ips] :
        /\ \A d \in dnsJob[l][dir] : ans[d] \in Answers[d]
        /\ dnsFound' = [dnsFound EXCEPT ![l] =
               [k \in Dirs \X Domains |->
                  IF k[1] = dir /\ k[2] \in dnsJob[l][dir]
                  THEN ans[k[2]] ELSE dnsFound[l][k]]]
  BY DEF Resolve
<1>2. SUFFICES ASSUME NEW k \in Dirs, NEW d \in Domains, dnsFound'[l][<<k, d>>] # {}
               PROVE  d \in dnsJob[l][k] /\ dnsFound'[l][<<k, d>>] \subseteq UNION Answers[d]
  BY <1>1 DEF Answered, TypeOK
<1>3. CASE k = dir /\ d \in dnsJob[l][dir]
  <2>1. dnsFound'[l][<<k, d>>] = ans[d]
    BY <1>1, <1>3 DEF TypeOK
  <2> QED
    BY <1>1, <1>3, <2>1
<1>4. CASE ~(k = dir /\ d \in dnsJob[l][dir])
  <2>1. dnsFound'[l][<<k, d>>] = dnsFound[l][<<k, d>>]
    BY <1>1, <1>4 DEF TypeOK
  <2> QED
    BY <1>2, <2>1 DEF Answered
<1> QED
  BY <1>3, <1>4

\* The induction step of FoundInv.
LEMMA NextFoundInv == TypeOK /\ FoundInv /\ [Next]_vars => FoundInv'
<1> SUFFICES ASSUME TypeOK, FoundInv, [Next]_vars, NEW m \in DnsLoops
             PROVE  /\ dnsPc'[m] = "free" => dnsFound'[m] = Nothing
                    /\ dnsPc'[m] = "update" => Complete(dnsJob'[m], dnsFound'[m])
                    /\ Answered(dnsJob'[m], dnsFound'[m])
  BY DEF FoundInv
<1> DEFINE Goal == /\ dnsPc'[m] = "free" => dnsFound'[m] = Nothing
                   /\ dnsPc'[m] = "update" => Complete(dnsJob'[m], dnsFound'[m])
                   /\ Answered(dnsJob'[m], dnsFound'[m])
<1> USE DEF TypeOK
<1>0. Answered(NoJob, Nothing) /\ Answered(dnsJob[m], Nothing)
  BY NothingAnswered, Values
<1>1. ASSUME dnsPc'[m] = dnsPc[m], dnsJob'[m] = dnsJob[m], dnsFound'[m] = dnsFound[m]
      PROVE  Goal
  BY <1>1 DEF FoundInv
<1>2. ASSUME NEW l \in DnsLoops, DnsEnd(l) PROVE Goal
  <2>1. CASE m = l
    BY <1>0, <1>2, <2>1 DEF DnsEnd
  <2>2. CASE m # l
    BY <1>1, <1>2, <2>2 DEF DnsEnd
  <2> QED
    BY <2>1, <2>2
<1>3. ASSUME NEW l \in DnsLoops, DnsResolveVpn(l) PROVE Goal
  <2>1. CASE l \notin cancelled
    <3>1. /\ Resolve(l, "vpn") /\ dnsPc' = [dnsPc EXCEPT ![l] = "direct"]
          /\ dnsJob' = dnsJob
      BY <1>3, <2>1 DEF DnsResolveVpn
    <3>2. /\ Answered(dnsJob[l], dnsFound'[l])
          /\ \A n \in DnsLoops \ {l} : dnsFound'[n] = dnsFound[n]
      BY <3>1, ResolveAnswers DEF FoundInv, Dirs
    <3> QED
      BY <1>1, <3>1, <3>2
  <2> QED
    BY <1>2, <1>3, <2>1 DEF DnsResolveVpn
<1>4. ASSUME NEW l \in DnsLoops, DnsResolveDirect(l) PROVE Goal
  <2>1. CASE l \notin cancelled
    <3>1. /\ Resolve(l, "direct") /\ dnsJob' = dnsJob
          /\ dnsPc' = [dnsPc EXCEPT ![l] =
                 IF Complete(dnsJob[l], dnsFound'[l]) THEN "update" ELSE "sleep"]
      BY <1>4, <2>1 DEF DnsResolveDirect
    <3>2. /\ Answered(dnsJob[l], dnsFound'[l])
          /\ \A n \in DnsLoops \ {l} : dnsFound'[n] = dnsFound[n]
      BY <3>1, ResolveAnswers DEF FoundInv, Dirs
    <3> QED
      BY <1>1, <3>1, <3>2
  <2> QED
    BY <1>2, <1>4, <2>1 DEF DnsResolveDirect
<1>5. ASSUME NEW l \in DnsLoops, DnsUpdateRoutes(l) PROVE Goal
  BY <1>5 DEF DnsUpdateRoutes, FoundInv
<1>6. ASSUME NEW l \in DnsLoops, DnsWake(l) PROVE Goal
  <2>1. CASE l \notin cancelled
    BY <1>0, <1>1, <1>6, <2>1 DEF DnsWake
  <2> QED
    BY <1>2, <1>6, <2>1 DEF DnsWake
<1>7. ASSUME NEW c \in Clients, StartDnsLoop(c) PROVE Goal
  <2>1. CASE dnsPc[m] = "free" /\ dnsPc'[m] = "vpn"
    <3>1. dnsFound'[m] = Nothing /\ dnsJob'[m] \in Jobs
      <4>1. dnsFound' = dnsFound /\ cfg[c].domains \in Jobs
        BY <1>7, Values DEF StartDnsLoop
      <4>2. \E l \in DnsLoops : dnsJob' = [dnsJob EXCEPT ![l] = cfg[c].domains]
        BY <1>7, <2>1 DEF StartDnsLoop
      <4> QED
        BY <2>1, <4>1, <4>2 DEF FoundInv
    <3> QED
      BY <2>1, <3>1, NothingAnswered
  <2>2. CASE ~(dnsPc[m] = "free" /\ dnsPc'[m] = "vpn")
    BY <1>1, <1>7, <2>2 DEF StartDnsLoop
  <2> QED
    BY <2>1, <2>2
<1>8. ASSUME UNCHANGED dnsVars PROVE Goal
  BY <1>1, <1>8 DEF dnsVars
<1>9. ASSUME NEW c \in Clients, Request(c) \/ Serve(c), ~StartDnsLoop(c)
      PROVE  UNCHANGED dnsVars
  BY <1>9 DEF Request, Serve, SetSplitTunneling, ConnectTunnel, ConnectFails,
     DisconnectTunnel, CgroupEnable, ScanProcesses, StartProcessMonitor, ReadIface,
     SetupBase, StoreSettings, StopProcessMonitor, StopDnsLoop, Teardown, CgroupDisable,
     ClearRoutes, ClearIfaceAndRoutes, SetupFullOrNone, FlagDisabled, SetIface,
     ReadSettings, SetupFullVpn, Activate, LinkDown
<1>10. ASSUME NEW l \in ProcLoops, ProcLoop(l) PROVE UNCHANGED dnsVars
  BY <1>10 DEF ProcLoop, ProcTick, ProcIsWatched, ProcMatch, ProcAdd, ProcRecord
<1>11. ASSUME Environment \/ UNCHANGED vars PROVE UNCHANGED dnsVars
  BY <1>11 DEF Environment, ProcessRuns, ProcessExits, LinkLost, vars
<1> QED
  BY <1>3, <1>4, <1>5, <1>6, <1>7, <1>8, <1>9, <1>10, <1>11 DEF Next, DnsLoop

LEMMA InitFoundInv == Init => FoundInv
  BY NothingAnswered, Values DEF Init, FoundInv

\* What the DNS threads have found, however requests overlap and whatever fails.
LEMMA FoundAlways == Spec => []FoundInv
  BY NextFoundInv, InitFoundInv, TypeCorrect, PTL DEF Spec

-----------------------------------------------------------------------------

\* update_routes gives an address a label together with a route.
LEMMA UpdateTracks ==
    ASSUME TypeOK, TrackedIsRouted, NEW found, UpdateRoutes(found), UNCHANGED vpnIface
    PROVE  TrackedIsRouted'
<1> SUFFICES ASSUME NEW ip \in Ips, current'[ip] # "none"
             PROVE  kroute'[ip] \in {"direct"} \union (Ifaces \intersect {vpnIface})
  BY DEF TrackedIsRouted
<1>1. Updated(ip, found)
  BY UpdatesEach
<1>2. CASE current[ip] = "none"
  <2>1. Usable(current'[ip]) /\ current'[ip] \in {"vpn", "direct"}
    BY <1>1, <1>2 DEF Updated, Labels, Dirs
  <2> QED
    BY <1>1, <1>2, <2>1 DEF Updated, Usable, Via, TypeOK
<1>3. CASE current[ip] # "none"
  BY <1>1, <1>3 DEF Updated, TrackedIsRouted
<1> QED
  BY <1>2, <1>3

\* The induction step of TrackedAlwaysRouted.
LEMMA NextTracked ==
    ASSUME "link" \notin Faults, TypeOK, Alone, SessionInv, ControlInv,
           TrackedIsRouted, [Next]_vars, SerialStep
    PROVE  TrackedIsRouted'
<1> USE ConstantsAssumption DEF TypeOK, TrackedIsRouted, hostVars
<1>1. ASSUME NEW c \in Clients, NEW i \in Ifaces,
             ConnectTunnel(c, i) \/ ConnectFails(c, i)
      PROVE  TrackedIsRouted'
  <2>1. pc[c] = "idle" /\ (active = NoIface \/ tunnel # active)
    BY <1>1 DEF ConnectTunnel, ConnectFails, Goto
  <2>2. vpnIface = NoIface
    BY <1>1, <2>1, MoverIsSole
    DEF Request, SessionInv, Session, ControlInv, Control, Meant
  <2>3. Flush(i) /\ UNCHANGED <<current, vpnIface>>
    BY <1>1 DEF ConnectTunnel, ConnectFails
  <2> QED
    BY <2>2, <2>3 DEF Flush
<1>2. ASSUME NEW c \in Clients, SetIface(c) PROVE TrackedIsRouted'
  <2>1. vpnIface = NoIface /\ UNCHANGED <<current, kroute>>
    BY <1>2, MoverIsSole DEF Serve, SetIface, Step, Goto, SessionInv, Session
  <2> QED
    BY <2>1
<1>3. ASSUME NEW c \in Clients, ClearRoutes(c) \/ ClearIfaceAndRoutes(c)
      PROVE  TrackedIsRouted'
  BY <1>3 DEF ClearRoutes, ClearIfaceAndRoutes, ClearAllRoutes
<1>4. ASSUME NEW c \in Clients, LinkDown(c) PROVE TrackedIsRouted'
  <2>1. vpnIface = NoIface /\ iface[c] \in Ifaces
    BY <1>4, MoverIsSole DEF Serve, LinkDown, SessionInv, Session, ControlInv, Control
  <2>2. (Flush(iface[c]) \/ UNCHANGED kroute) /\ UNCHANGED <<current, vpnIface>>
    BY <1>4 DEF LinkDown
  <2> QED
    BY <2>1, <2>2 DEF Flush
<1>5. ASSUME NEW l \in DnsLoops, DnsUpdateRoutes(l) PROVE TrackedIsRouted'
  BY <1>5, UpdateTracks DEF DnsUpdateRoutes
<1>6. ASSUME UNCHANGED hostVars PROVE TrackedIsRouted'
  BY <1>6
<1>7. ASSUME NEW l \in DnsLoops, DnsLoop(l), ~DnsUpdateRoutes(l) PROVE UNCHANGED hostVars
  BY <1>7 DEF DnsLoop, DnsResolveVpn, DnsResolveDirect, DnsWake
<1>8. ASSUME NEW l \in ProcLoops, ProcLoop(l) PROVE UNCHANGED hostVars
  BY <1>8 DEF ProcLoop, ProcTick, ProcIsWatched, ProcMatch, ProcAdd, ProcRecord
<1>9. ASSUME NEW c \in Clients,
             DisconnectTunnel(c) \/ \E r \in Requests : SetSplitTunneling(c, r)
      PROVE  UNCHANGED hostVars
  BY <1>9 DEF DisconnectTunnel, SetSplitTunneling
<1>10. ASSUME NEW c \in Clients, Serve(c),
              ~(\/ SetIface(c) \/ ClearRoutes(c) \/ ClearIfaceAndRoutes(c)
                \/ LinkDown(c))
       PROVE  UNCHANGED hostVars
  BY <1>10 DEF Serve, CgroupEnable, ScanProcesses, StartProcessMonitor, ReadIface,
     SetupBase, StartDnsLoop, StoreSettings, StopProcessMonitor, StopDnsLoop, Teardown,
     CgroupDisable, SetupFullOrNone, FlagDisabled, ReadSettings, SetupFullVpn, Activate
<1>11. ASSUME Environment \/ UNCHANGED vars PROVE UNCHANGED hostVars
  BY <1>11 DEF Environment, ProcessRuns, ProcessExits, LinkLost, vars
<1> QED
  BY <1>1, <1>2, <1>3, <1>4, <1>5, <1>6, <1>7, <1>8, <1>9, <1>10, <1>11
  DEF Next, Request, Serve

\* With one request at a time and unless an interface is deleted behind the daemon's
\* back, every address update_routes tracks has a route, at rest and in between,
\* whatever else fails and whatever list its name moves to (update_routes,
\* clear_all_routes, set_vpn_interface).
THEOREM TrackedAlwaysRouted ==
    ASSUME "link" \notin Faults PROVE Spec /\ OneAtATime => []TrackedIsRouted
<1>1. LinkXorWg
  BY DEF LinkXorWg
<1>2. TypeOK /\ Alone /\ SessionInv /\ ControlInv /\ TrackedIsRouted
          /\ [Next]_vars /\ [SerialStep]_vars => TrackedIsRouted'
  <2>1. UNCHANGED vars /\ TrackedIsRouted => TrackedIsRouted'
    BY DEF vars, hostVars, TrackedIsRouted
  <2> QED
    BY <2>1, NextTracked
<1>3. Init => TrackedIsRouted
  BY DEF Init, TrackedIsRouted
<1> QED
  BY <1>1, <1>2, <1>3, ControlAlways, SerialAlone, SerialSession, TypeCorrect, PTL
  DEF Spec, OneAtATime

-----------------------------------------------------------------------------

\* However requests overlap, a route into an interface is one into the tunnel.
RoutesIntoTunnel == \A ip \in Ips : kroute[ip] \in Ifaces => kroute[ip] = tunnel

\* What RoutesKept says of one step.
KeepsRoutes ==
    \A ip \in Ips : kroute[ip] # "none" /\ kroute'[ip] = "none" => RouteNeedsReason(ip)

\* update_routes routes into the tunnel only, and takes a route from an address
\* only if every name was resolved and none to that address.
LEMMA UpdateHasReason ==
    ASSUME TypeOK, FoundInv, RoutesIntoTunnel, NEW l \in DnsLoops, DnsUpdateRoutes(l)
    PROVE  KeepsRoutes /\ RoutesIntoTunnel'
<1>1. \A ip \in Ips : Updated(ip, dnsFound[l])
  BY UpdatesEach DEF DnsUpdateRoutes
<1>2. UNCHANGED <<tunnel, dnsJob, dnsFound>> /\ dnsPc[l] = "update" /\ dnsPc'[l] = "sleep"
  BY DEF DnsUpdateRoutes, TypeOK, sessionVars
<1> SUFFICES ASSUME NEW ip \in Ips
             PROVE  /\ kroute[ip] # "none" /\ kroute'[ip] = "none" => RouteNeedsReason(ip)
                    /\ kroute'[ip] \in Ifaces => kroute'[ip] = tunnel
  BY <1>2 DEF KeepsRoutes, RoutesIntoTunnel
<1>3. CASE current'[ip] # "none" /\ current[ip] = "none"
  <2>1. Usable(current'[ip]) /\ current'[ip] \in {"vpn", "direct"}
    BY <1>1, <1>3 DEF Updated, Labels, Dirs
  <2> QED
    BY <1>1, <1>3, <2>1, ConstantsAssumption DEF Updated, Usable, Via, TypeOK
<1>4. CASE current'[ip] = "none" /\ current[ip] # "none" /\ kroute'[ip] = "none"
  <2>2. DirsOf(ip, dnsFound[l]) = {}
    BY <1>1, <1>4 DEF Updated, Labels, DirsOf, Dirs
  <2>3. ASSUME NEW k \in Dirs, NEW d \in dnsJob[l][k]
        PROVE  dnsFound[l][<<k, d>>] # {} /\ ip \notin dnsFound[l][<<k, d>>]
    <3>1. d \in Domains
      BY DEF TypeOK, Jobs
    <3> QED
      BY <1>2, <2>2, <3>1 DEF FoundInv, Complete, DirsOf
  <2>4. RouteNeedsReason(ip)
    BY <1>2, <2>3 DEF RouteNeedsReason
  <2> QED
    BY <1>4, <2>4, ConstantsAssumption
<1>5. CASE kroute'[ip] = kroute[ip]
  BY <1>2, <1>5 DEF RoutesIntoTunnel
<1> QED
  BY <1>1, <1>3, <1>4, <1>5 DEF Updated

\* Each step keeps to RoutesKept: the induction step of RoutesAlwaysKept.
LEMMA NextKeepsRoutes ==
    ASSUME TypeOK, FoundInv, RoutesIntoTunnel, [Next]_vars
    PROVE  KeepsRoutes /\ RoutesIntoTunnel'
<1> USE ConstantsAssumption DEF TypeOK, RoutesIntoTunnel, hostVars, sessionVars
<1>1. ASSUME NEW c \in Clients, NEW i \in Ifaces, ConnectTunnel(c, i)
      PROVE  KeepsRoutes /\ RoutesIntoTunnel'
  <2>1. pc[c] = "idle" /\ pc'[c] = "setIface"
    BY <1>1 DEF ConnectTunnel, Goto
  <2>2. RoutesIntoTunnel'
    BY <1>1 DEF ConnectTunnel, Flush
  <2> QED
    BY <2>1, <2>2 DEF KeepsRoutes, RouteNeedsReason
<1>2. ASSUME NEW c \in Clients, NEW i \in Ifaces, ConnectFails(c, i)
      PROVE  KeepsRoutes /\ RoutesIntoTunnel'
  <2>1. Flush(i) /\ tunnel' = IF tunnel = i THEN NoIface ELSE tunnel
    BY <1>2 DEF ConnectFails
  <2>2. RoutesIntoTunnel'
    BY <2>1 DEF Flush
  <2>3. ASSUME NEW ip \in Ips, kroute[ip] # "none", kroute'[ip] = "none"
        PROVE  tunnel' # tunnel
    BY <2>1, <2>3 DEF Flush
  <2> QED
    BY <2>2, <2>3 DEF KeepsRoutes, RouteNeedsReason
<1>3. ASSUME NEW c \in Clients, LinkDown(c)
      PROVE  KeepsRoutes /\ RoutesIntoTunnel'
  <2>1. pc[c] = "linkDown" /\ pc'[c] = "idle"
    BY <1>3 DEF LinkDown, Reply
  <2>2. RoutesIntoTunnel'
    BY <1>3 DEF LinkDown, Flush
  <2> QED
    BY <2>1, <2>2 DEF KeepsRoutes, RouteNeedsReason
<1>4. ASSUME NEW c \in Clients, ClearRoutes(c) \/ ClearIfaceAndRoutes(c)
      PROVE  KeepsRoutes /\ RoutesIntoTunnel'
  <2>1. pc[c] \in {"clearRoutes", "clearIface"} /\ pc'[c] # pc[c]
    BY <1>4 DEF ClearRoutes, ClearIfaceAndRoutes, Step, Goto
  <2>2. RoutesIntoTunnel'
    BY <1>4, ClearsEach DEF ClearRoutes, ClearIfaceAndRoutes, Cleared
  <2> QED
    BY <2>1, <2>2 DEF KeepsRoutes, RouteNeedsReason
<1>5. CASE LinkLost
  <2>1. tunnel' # tunnel /\ RoutesIntoTunnel'
    BY <1>5 DEF LinkLost, Flush
  <2> QED
    BY <2>1 DEF KeepsRoutes, RouteNeedsReason
<1>6. ASSUME NEW l \in DnsLoops, DnsUpdateRoutes(l) PROVE KeepsRoutes /\ RoutesIntoTunnel'
  BY <1>6, UpdateHasReason
<1>7. ASSUME UNCHANGED <<kroute, tunnel>> PROVE KeepsRoutes /\ RoutesIntoTunnel'
  BY <1>7 DEF KeepsRoutes
<1>8. ASSUME NEW l \in DnsLoops, DnsLoop(l), ~DnsUpdateRoutes(l)
      PROVE  UNCHANGED <<kroute, tunnel>>
  BY <1>8 DEF DnsLoop, DnsResolveVpn, DnsResolveDirect, DnsWake
<1>9. ASSUME NEW l \in ProcLoops, ProcLoop(l) PROVE UNCHANGED <<kroute, tunnel>>
  BY <1>9 DEF ProcLoop, ProcTick, ProcIsWatched, ProcMatch, ProcAdd, ProcRecord
<1>10. ASSUME NEW c \in Clients,
              DisconnectTunnel(c) \/ \E r \in Requests : SetSplitTunneling(c, r)
       PROVE  UNCHANGED <<kroute, tunnel>>
  BY <1>10 DEF DisconnectTunnel, SetSplitTunneling
<1>11. ASSUME NEW c \in Clients, Serve(c),
              ~(ClearRoutes(c) \/ ClearIfaceAndRoutes(c) \/ LinkDown(c))
       PROVE  UNCHANGED <<kroute, tunnel>>
  BY <1>11 DEF Serve, CgroupEnable, ScanProcesses, StartProcessMonitor, ReadIface,
     SetupBase, StartDnsLoop, StoreSettings, StopProcessMonitor, StopDnsLoop, Teardown,
     CgroupDisable, SetupFullOrNone, FlagDisabled, SetIface, ReadSettings, SetupFullVpn,
     Activate
<1>12. ASSUME NEW p \in Pids, (\E a \in Apps : ProcessRuns(p, a)) \/ ProcessExits(p)
       PROVE  UNCHANGED <<kroute, tunnel>>
  BY <1>12 DEF ProcessRuns, ProcessExits
<1>13. CASE UNCHANGED vars
  BY <1>7, <1>13 DEF vars
<1> QED
  BY <1>1, <1>2, <1>3, <1>4, <1>5, <1>6, <1>7, <1>8, <1>9, <1>10, <1>11, <1>12, <1>13
  DEF Next, Request, Serve, Environment

\* However requests overlap and whatever fails, an address loses its route only to
\* a request that clears them all, to the loss of its interface, or to an update in
\* which every name was resolved (all_ok in start_dns_loop, update_routes).
THEOREM RoutesAlwaysKept == Spec => RoutesKept
<1>1. Init => RoutesIntoTunnel
  BY ConstantsAssumption DEF Init, RoutesIntoTunnel
<1>2. TypeOK /\ FoundInv /\ RoutesIntoTunnel /\ [Next]_vars =>
          [KeepsRoutes]_vars /\ RoutesIntoTunnel'
  BY NextKeepsRoutes
<1> QED
  BY <1>1, <1>2, TypeCorrect, FoundAlways, PTL DEF Spec, RoutesKept, KeepsRoutes

-----------------------------------------------------------------------------

\* Why VpnRoutesUseCurrentInterface is kept: a route into an interface is one
\* the manager tracks, or one it failed to delete, and the interface is the one
\* that is up, and a request about to set the interface is not overtaken by
\* another tunnel.
RoutesFollowTunnel ==
    \A ip \in Ips \ left : kroute[ip] \in Ifaces =>
        kroute[ip] = vpnIface /\ kroute[ip] = tunnel /\ current[ip] # "none"

ConnectHoldsTunnel ==
    \A c \in Clients : pc[c] = "setIface" => tunnel \in {NoIface, iface[c]}

\* The manager does not track an address it failed to delete.
LeftUntracked == \A ip \in left : current[ip] = "none"

RoutesInv == RoutesFollowTunnel /\ LeftUntracked /\ ConnectHoldsTunnel

\* update_routes installs a VPN route only into the interface that is up.
LEMMA UpdateKeepsRoutes ==
    ASSUME TypeOK, RoutesFollowTunnel, LeftUntracked, NEW found, UpdateRoutes(found),
           UNCHANGED <<vpnIface, tunnel>>
    PROVE  RoutesFollowTunnel' /\ LeftUntracked'
<1>1. \A ip \in Ips : Updated(ip, found)
  BY UpdatesEach
<1>6. LeftUntracked'
  BY UpdatesEach DEF LeftUntracked
<1>2. SUFFICES ASSUME NEW ip \in Ips \ left', kroute'[ip] \in Ifaces
               PROVE  kroute'[ip] = vpnIface /\ kroute'[ip] = tunnel /\ current'[ip] # "none"
  BY <1>6 DEF RoutesFollowTunnel
<1>3. CASE current'[ip] # "none" /\ current[ip] = "none"
  <2>1. Usable(current'[ip]) /\ current'[ip] \in {"vpn", "direct"}
    BY <1>1, <1>3 DEF Updated, Labels, Dirs
  <2> QED
    BY <1>1, <1>2, <1>3, <2>1, ConstantsAssumption DEF Updated, Usable, Via
<1>4. CASE kroute'[ip] = kroute[ip] /\ ip \notin left
  <2>1. kroute[ip] = vpnIface /\ kroute[ip] = tunnel /\ current[ip] # "none"
    BY <1>2, <1>4 DEF RoutesFollowTunnel
  <2> QED
    BY <1>1, <1>2, <1>4, <2>1, ConstantsAssumption DEF Updated
<1>5. CASE /\ kroute'[ip] = kroute[ip] /\ ip \in left
           /\ ~(current'[ip] # "none" /\ current[ip] = "none")
  BY <1>1, <1>2, <1>5, ConstantsAssumption DEF Updated, RoutesFollowTunnel, LeftUntracked
<1> QED
  BY <1>1, <1>2, <1>3, <1>4, <1>5, ConstantsAssumption DEF Updated

\* The induction step of RoutesUseCurrentInterface.
LEMMA NextRoutesInv ==
    ASSUME TypeOK, Alone, RoutesInv, [Next]_vars, SerialStep
    PROVE  RoutesInv'
<1> USE ConstantsAssumption DEF RoutesInv, RoutesFollowTunnel, LeftUntracked, ConnectHoldsTunnel,
        hostVars, sessionVars, clientVars
<1>1. ASSUME NEW c \in Clients, NEW i \in Ifaces,
             ConnectTunnel(c, i) \/ ConnectFails(c, i)
      PROVE  RoutesInv'
  <2>1. Sole(c)
    BY <1>1, MoverIsSole DEF Request
  <2> QED
    BY <1>1, <2>1 DEF ConnectTunnel, ConnectFails, Goto, Flush, TypeOK, Sole
<1>2. ASSUME NEW c \in Clients, SetIface(c) PROVE RoutesInv'
  BY <1>2 DEF SetIface, Step, Goto, TypeOK
<1>3. ASSUME NEW c \in Clients, ClearRoutes(c) \/ ClearIfaceAndRoutes(c)
      PROVE  RoutesInv'
  <2>1. ClearAllRoutes /\ UNCHANGED <<tunnel, iface>> /\ vpnIface' \in {vpnIface, NoIface}
    BY <1>3 DEF ClearRoutes, ClearIfaceAndRoutes, Step
  <2>2. \A ip \in Ips : Cleared(ip)
    BY <2>1, ClearsEach
  <2>3. left \subseteq left' /\ left' \subseteq Ips
    BY <2>1, ClearsEach
  <2>4. LeftUntracked'
    BY <2>2, <2>3 DEF Cleared
  <2>5. ASSUME NEW ip \in Ips \ left', kroute'[ip] \in Ifaces PROVE FALSE
    BY <2>2, <2>3, <2>5 DEF Cleared, TypeOK
  <2>6. ConnectHoldsTunnel'
    BY <1>3, <2>1 DEF ClearRoutes, ClearIfaceAndRoutes, Step, Goto, TypeOK
  <2> QED
    BY <2>4, <2>5, <2>6
<1>4. ASSUME NEW c \in Clients, LinkDown(c) PROVE RoutesInv'
  <2>1. Sole(c)
    BY <1>4, MoverIsSole DEF Serve
  <2> QED
    BY <1>4, <2>1 DEF LinkDown, Reply, Flush, TypeOK, Sole
<1>5. ASSUME LinkLost PROVE RoutesInv'
  BY <1>5 DEF LinkLost, Flush, TypeOK
<1>6. ASSUME NEW l \in DnsLoops, DnsUpdateRoutes(l) PROVE RoutesInv'
  <2>1. RoutesFollowTunnel' /\ LeftUntracked'
    BY <1>6, UpdateKeepsRoutes DEF DnsUpdateRoutes
  <2> QED
    BY <1>6, <2>1 DEF DnsUpdateRoutes
<1>7. ASSUME NEW l \in DnsLoops, DnsLoop(l), ~DnsUpdateRoutes(l) PROVE RoutesInv'
  BY <1>7 DEF DnsLoop, DnsResolveVpn, DnsResolveDirect, DnsWake
<1>8. ASSUME NEW l \in ProcLoops, ProcLoop(l) PROVE RoutesInv'
  BY <1>8 DEF ProcLoop, ProcTick, ProcIsWatched, ProcMatch, ProcAdd, ProcRecord
<1>9. ASSUME NEW c \in Clients,
             \/ DisconnectTunnel(c)
             \/ \E s \in Requests : SetSplitTunneling(c, s)
      PROVE  RoutesInv'
  BY <1>9 DEF DisconnectTunnel, SetSplitTunneling, Goto, TypeOK
<1>10. ASSUME NEW c \in Clients, Serve(c),
              ~(\/ SetIface(c) \/ ClearRoutes(c) \/ ClearIfaceAndRoutes(c)
                \/ LinkDown(c))
       PROVE  /\ UNCHANGED <<hostVars, tunnel>>
              /\ pc'[c] # "setIface"
              /\ \A b \in Clients \ {c} : pc'[b] = pc[b] /\ iface'[b] = iface[b]
  <2>1. \A b \in Clients \ {c} : pc'[b] = pc[b] /\ iface'[b] = iface[b]
    BY <1>10, OthersKeepLocals
  <2>2. UNCHANGED <<hostVars, tunnel>> /\ pc'[c] # "setIface"
    BY <1>10 DEF Serve, CgroupEnable, ScanProcesses, StartProcessMonitor, ReadIface,
              SetupBase, StartDnsLoop, StoreSettings, StopProcessMonitor,
              StopDnsLoop, Teardown, CgroupDisable, SetupFullOrNone, FlagDisabled,
              ReadSettings, SetupFullVpn, Activate, ApplyReturns, Reply, Step, Goto,
              TypeOK
  <2> QED
    BY <2>1, <2>2
<1>11. ASSUME NEW c \in Clients, Serve(c),
              ~(\/ SetIface(c) \/ ClearRoutes(c) \/ ClearIfaceAndRoutes(c)
                \/ LinkDown(c))
       PROVE  RoutesInv'
  BY <1>10, <1>11
<1>12. ASSUME NEW p \in Pids,
              (\E a \in Apps : ProcessRuns(p, a)) \/ ProcessExits(p)
       PROVE  RoutesInv'
  BY <1>12 DEF ProcessRuns, ProcessExits
<1>13. CASE UNCHANGED vars
  BY <1>13 DEF vars
<1> QED
  BY <1>1, <1>2, <1>3, <1>4, <1>5, <1>6, <1>7, <1>8, <1>9, <1>11, <1>12, <1>13
  DEF Next, Request, Serve, Environment

\* With one request at a time the kernel never routes a name into an interface
\* other than the one the manager routes for (set_vpn_interface, update_routes,
\* clear_all_routes), but one whose ip route del failed, whatever else fails and
\* however DNS threads overlap.
THEOREM RoutesUseCurrentInterface ==
    Spec /\ OneAtATime => []VpnRoutesUseCurrentInterface
<1>1. Init => RoutesInv
  BY ConstantsAssumption DEF Init, RoutesInv, RoutesFollowTunnel, LeftUntracked, ConnectHoldsTunnel
<1>2. TypeOK /\ Alone /\ RoutesInv /\ [Next]_vars /\ [SerialStep]_vars => RoutesInv'
  <2>1. UNCHANGED vars /\ RoutesInv => RoutesInv'
    BY DEF vars, hostVars, sessionVars, clientVars, RoutesInv, RoutesFollowTunnel, LeftUntracked,
       ConnectHoldsTunnel
  <2> QED
    BY <2>1, NextRoutesInv
<1>3. RoutesInv => VpnRoutesUseCurrentInterface
  BY DEF RoutesInv, RoutesFollowTunnel, VpnRoutesUseCurrentInterface
<1> QED
  BY <1>1, <1>2, <1>3, SerialAlone, TypeCorrect, PTL DEF Spec, OneAtATime

=============================================================================
