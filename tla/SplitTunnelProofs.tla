------------------------- MODULE SplitTunnelProofs -------------------------
(***************************************************************************)
(* Theorems about SplitTunnel for every number of clients, threads,        *)
(* interfaces, processes, names and addresses.                             *)
(***************************************************************************)
EXTENDS SplitTunnelProps, TLAPS

\* The values the code constructs are of the types the variables are given.
LEMMA Values ==
    /\ DefaultSettings \in Settings
    /\ NoTable \in Tables
    /\ \A i \in Ifaces \union {NoIface} : Base(i) \in Tables /\ Full(i) \in Tables
    /\ \A s \in Settings : /\ s.domains \in Jobs
                           /\ Listed(s) \subseteq Apps
                           /\ [s EXCEPT !.enabled = FALSE] \in Settings
    /\ NoJob \in Jobs
    /\ Nothing \in Found
  BY DEF DefaultSettings, Settings, Dirs, NoTable, Tables, Base, Full, Listed, NoJob, Jobs,
         Nothing, Found

\* SplitTunnelManager::new builds a well-typed state.
LEMMA InitTypeOK == Init => TypeOK
<1> SUFFICES ASSUME Init PROVE TypeOK
  OBVIOUS
<1>1. /\ pc \in [Clients -> ClientPcs]
      /\ op \in [Clients -> {"none", "set", "connect", "disconnect"}]
      /\ cfg \in [Clients -> Settings]
      /\ iface \in [Clients -> Ifaces \union {NoIface}]
      /\ seen \in [Clients -> Ifaces \union {NoIface}]
  BY Values DEF Init, ClientPcs
<1>2. /\ exe \in [Pids -> Apps \union {NoApp}]
      /\ current \in [Ips -> Dirs \union {"none"}]
      /\ kroute \in [Ips -> Ifaces \union {"direct", "none"}]
  BY DEF Init
<1>3. /\ procPc \in [ProcLoops -> {"free", "tick", "scan", "match", "add", "record"}]
      /\ procTodo \in [ProcLoops -> SUBSET Pids]
      /\ procPid \in [ProcLoops -> SUBSET Pids]
  BY DEF Init
<1>4. /\ dnsPc \in [DnsLoops -> {"free", "vpn", "direct", "update", "sleep"}]
      /\ dnsJob \in [DnsLoops -> Jobs]
      /\ dnsFound \in [DnsLoops -> Found]
  BY Values DEF Init
<1> QED
  BY <1>1, <1>2, <1>3, <1>4, Values DEF Init, TypeOK

\* The part of TypeOK about the locals of the IPC threads.
ThreadTypes ==
    /\ pc \in [Clients -> ClientPcs]
    /\ op \in [Clients -> {"none", "set", "connect", "disconnect"}]
    /\ cfg \in [Clients -> Settings]
    /\ iface \in [Clients -> Ifaces \union {NoIface}]
    /\ seen \in [Clients -> Ifaces \union {NoIface}]

\* A request that is answered leaves well-typed locals.
LEMMA ReplyTypes == ASSUME NEW c \in Clients, ThreadTypes, Reply(c) PROVE ThreadTypes'
  BY Values DEF ThreadTypes, Reply, ClientPcs

\* However apply_settings returns, the locals of the request stay well-typed.
LEMMA ApplyReturnsTypes ==
    ASSUME NEW c \in Clients, ThreadTypes, ApplyReturns(c) PROVE ThreadTypes'
<1>1. CASE op[c] = "connect"
  BY <1>1 DEF ApplyReturns, ThreadTypes, ClientPcs
<1>2. CASE op[c] # "connect"
  BY <1>2, ReplyTypes DEF ApplyReturns
<1> QED
  BY <1>1, <1>2

\* resolve_all yields a set of addresses for each name it was given.
LEMMA ResolveType ==
    ASSUME NEW l \in DnsLoops, NEW dir \in Dirs, TypeOK, Resolve(l, dir)
    PROVE  dnsFound' \in [DnsLoops -> Found]
<1>1. PICK ans \in [dnsJob[l][dir] -> SUBSET Ips] :
        dnsFound' = [dnsFound EXCEPT ![l] =
               [k \in Dirs \X Domains |->
                  IF k[1] = dir /\ k[2] \in dnsJob[l][dir]
                  THEN ans[k[2]] ELSE dnsFound[l][k]]]
  BY DEF Resolve
<1> DEFINE new == [k \in Dirs \X Domains |->
                  IF k[1] = dir /\ k[2] \in dnsJob[l][dir]
                  THEN ans[k[2]] ELSE dnsFound[l][k]]
<1>2. new \in Found
  <2>1. dnsFound[l] \in [Dirs \X Domains -> SUBSET Ips]
    BY DEF TypeOK, Found
  <2>2. ASSUME NEW k \in Dirs \X Domains
        PROVE (IF k[1] = dir /\ k[2] \in dnsJob[l][dir]
                  THEN ans[k[2]] ELSE dnsFound[l][k]) \in SUBSET Ips
    BY <2>1, <1>1
  <2> QED
    BY <2>2 DEF Found
<1>3. dnsFound' = [dnsFound EXCEPT ![l] = new]
  BY <1>1
<1> HIDE DEF new
<1> QED
  BY <1>2, <1>3 DEF TypeOK

\* A DNS thread that ends leaves well-typed locals.
LEMMA DnsEndTypes ==
    ASSUME NEW l \in DnsLoops, TypeOK, DnsEnd(l)
    PROVE  /\ dnsPc' \in [DnsLoops -> {"free", "vpn", "direct", "update", "sleep"}]
           /\ dnsJob' \in [DnsLoops -> Jobs]
           /\ dnsFound' \in [DnsLoops -> Found]
           /\ cancelled' \subseteq ProcLoops \union DnsLoops
  BY Values DEF DnsEnd, TypeOK

\* What update_routes does with one address: it gets a label, and with it a route
\* if it had no label; it loses the route only with the label, and if the command
\* that deletes it fails that is on record.
Updated(ip, found) ==
    /\ current'[ip] \in Dirs \union {"none"} /\ current'[ip] \in Labels(ip, found)
    /\ \/ current'[ip] # "none" /\ current[ip] = "none" /\ kroute'[ip] = Via(current'[ip])
       \/ /\ current'[ip] = "none" \/ current[ip] # "none"
          /\ \/ kroute'[ip] = kroute[ip]
             \/ /\ current'[ip] = "none" /\ current[ip] # "none"
                /\ vpnIface # NoIface /\ kroute'[ip] = "none"
    /\ \/ vpnIface = NoIface \/ current[ip] = "none" \/ current'[ip] # "none"
       \/ kroute'[ip] = "none" \/ ip \in left'
    /\ ip \in left /\ current'[ip] = "none" /\ kroute[ip] # "none" => ip \in left'

LEMMA UpdatesEach ==
    ASSUME TypeOK, NEW found, UpdateRoutes(found)
    PROVE  /\ \A ip \in Ips : Updated(ip, found)
           /\ left' \subseteq {ip \in Ips : current'[ip] = "none"}
           /\ \E f : current' = [ip \in Ips |-> f[ip]]
           /\ \E f : kroute' = [ip \in Ips |-> f[ip]]
<1> DEFINE Does(new, failed) ==
        /\ \A ip \in Ips : new[ip] \in Labels(ip, found)
        /\ current' = new
        /\ kroute' = [ip \in Ips |->
               CASE new[ip] # "none" /\ current[ip] = "none" -> Via(new[ip])
                 [] ip \in Stale(new) \ failed              -> "none"
                 [] OTHER                                    -> kroute[ip]]
        /\ left' = {ip \in left \union failed : new[ip] = "none" /\ kroute[ip] # "none"}
<1>0. PICK new \in [Ips -> Dirs \union {"none"}] :
        \E failed \in NotDeleted(Stale(new)) : Does(new, failed)
  BY DEF UpdateRoutes
<1>1. PICK failed \in NotDeleted(Stale(new)) : Does(new, failed)
  BY <1>0
<1>2. failed \subseteq Stale(new) /\ Stale(new) \subseteq Ips
  BY <1>1 DEF NotDeleted, Stale
<1>3. left' \subseteq {ip \in Ips : current'[ip] = "none"}
  BY <1>1, <1>2 DEF TypeOK
<1>4. ASSUME NEW ip \in Ips PROVE Updated(ip, found)
  <2>1. CASE new[ip] # "none" /\ current[ip] = "none"
    <3>1. kroute'[ip] = Via(new[ip])
      BY <1>1, <2>1 DEF Stale
    <3>2. current'[ip] = new[ip]
      BY <1>1
    <3>3. kroute'[ip] = Via(current'[ip])
      BY <3>1, <3>2
    <3> QED
      BY <1>1, <2>1, <3>2, <3>3 DEF Updated
  <2>2. CASE ip \in Stale(new) \ failed
    BY <1>1, <2>2 DEF Updated, Stale
  <2>3. CASE ~(new[ip] # "none" /\ current[ip] = "none") /\ ip \notin Stale(new) \ failed
    <3>1. kroute'[ip] = kroute[ip]
      BY <1>1, <2>3
    <3> QED
      BY <1>1, <2>3, <3>1 DEF Updated, Stale
  <2> QED
    BY <2>1, <2>2, <2>3
<1> QED
  BY <1>1, <1>3, <1>4

\* update_routes labels an address with a direction and routes it through an
\* interface that exists, or through none.
LEMMA UpdateRoutesTypes ==
    ASSUME TypeOK, NEW found, UpdateRoutes(found)
    PROVE  /\ current' \in [Ips -> Dirs \union {"none"}]
           /\ kroute' \in [Ips -> Ifaces \union {"direct", "none"}]
           /\ left' \subseteq Ips
<1>1. ASSUME NEW ip \in Ips
      PROVE  /\ current'[ip] \in Dirs \union {"none"}
             /\ kroute'[ip] \in Ifaces \union {"direct", "none"}
  <2>1. Updated(ip, found)
    BY UpdatesEach
  <2>2. CASE current'[ip] # "none" /\ current[ip] = "none"
    <3>1. Usable(current'[ip]) /\ current'[ip] \in {"vpn", "direct"}
      BY <2>1, <2>2 DEF Updated, Labels, Dirs
    <3> QED
      BY <2>1, <2>2, <3>1 DEF Updated, Usable, Via, TypeOK
  <2>3. CASE ~(current'[ip] # "none" /\ current[ip] = "none")
    BY <2>1, <2>3 DEF Updated, TypeOK
  <2> QED
    BY <2>2, <2>3
<1> QED
  BY <1>1, UpdatesEach

\* What clear_all_routes does with one address: no label, and no route if it had
\* a label, unless the command that deletes it fails and that is on record.
Cleared(ip) ==
    /\ current'[ip] = "none"
    /\ \/ kroute'[ip] = "none" /\ current[ip] # "none"
       \/ kroute'[ip] = kroute[ip] /\ (current[ip] = "none" \/ kroute[ip] = "none" \/ ip \in left')

LEMMA ClearsEach ==
    ASSUME TypeOK, ClearAllRoutes
    PROVE  /\ \A ip \in Ips : Cleared(ip)
           /\ left \subseteq left' /\ left' \subseteq Ips
           /\ current' \in [Ips -> Dirs \union {"none"}]
           /\ kroute' \in [Ips -> Ifaces \union {"direct", "none"}]
<1>1. PICK failed \in NotDeleted({ip \in Ips : current[ip] # "none"}) :
          /\ kroute' = [ip \in Ips |->
                          IF current[ip] # "none" /\ ip \notin failed
                          THEN "none" ELSE kroute[ip]]
          /\ left' = left \union {ip \in failed : kroute[ip] # "none"}
  BY DEF ClearAllRoutes
<1>2. current' = [ip \in Ips |-> "none"]
  BY DEF ClearAllRoutes
<1>3. failed \subseteq Ips
  BY <1>1 DEF NotDeleted
<1>4. ASSUME NEW ip \in Ips PROVE Cleared(ip)
  BY <1>1, <1>2 DEF Cleared
<1>5. /\ left \subseteq left' /\ left' \subseteq Ips
      /\ current' \in [Ips -> Dirs \union {"none"}]
      /\ kroute' \in [Ips -> Ifaces \union {"direct", "none"}]
  BY <1>1, <1>2, <1>3 DEF TypeOK
<1> QED
  BY <1>4, <1>5

\* Every step keeps the state well-typed: the induction step of TypeCorrect.
LEMMA NextTypeOK == TypeOK /\ [Next]_vars => TypeOK'
<1> SUFFICES ASSUME TypeOK, [Next]_vars PROVE TypeOK'
  OBVIOUS
<1> USE ConstantsAssumption, Values
    DEF TypeOK, ClientPcs, clientVars, sessionVars, slotVars, cgVars, monVars,
        hostVars, procVars, dnsVars
<1>1. ASSUME NEW c \in Clients, NEW s \in Requests, SetSplitTunneling(c, s) PROVE TypeOK'
  BY <1>1 DEF SetSplitTunneling, Goto
<1>2. ASSUME NEW c \in Clients, NEW i \in Ifaces, ConnectTunnel(c, i) PROVE TypeOK'
  BY <1>2 DEF ConnectTunnel, Goto, Flush
<1>3. ASSUME NEW c \in Clients, NEW i \in Ifaces, ConnectFails(c, i) PROVE TypeOK'
  BY <1>3 DEF ConnectFails, Flush
<1>4. ASSUME NEW c \in Clients, DisconnectTunnel(c) PROVE TypeOK'
  BY <1>4 DEF DisconnectTunnel, Goto
<1>5. ASSUME NEW c \in Clients, CgroupEnable(c) PROVE TypeOK'
  BY <1>5, ApplyReturnsTypes DEF CgroupEnable, ThreadTypes
<1>6. ASSUME NEW c \in Clients, ScanProcesses(c) PROVE TypeOK'
  BY <1>6 DEF ScanProcesses, Step, Goto
<1>7. ASSUME NEW c \in Clients, StartProcessMonitor(c) PROVE TypeOK'
  BY <1>7 DEF StartProcessMonitor, Step, Goto, CancelOld
<1>8. ASSUME NEW c \in Clients, ReadIface(c) PROVE TypeOK'
  BY <1>8 DEF ReadIface, Goto
<1>9. ASSUME NEW c \in Clients, SetupBase(c) PROVE TypeOK'
  BY <1>9 DEF SetupBase, Step, Goto
<1>10. ASSUME NEW c \in Clients, StartDnsLoop(c) PROVE TypeOK'
  <2>1. cfg[c].domains \in Jobs
    OBVIOUS
  <2> QED
    BY <1>10, <2>1 DEF StartDnsLoop, Step, Goto, CancelOld
<1>11. ASSUME NEW c \in Clients, StoreSettings(c) PROVE TypeOK'
  BY <1>11, ApplyReturnsTypes DEF StoreSettings, ThreadTypes
<1>12. ASSUME NEW c \in Clients, StopProcessMonitor(c) PROVE TypeOK'
  BY <1>12 DEF StopProcessMonitor, Step, Goto, CancelOld
<1>13. ASSUME NEW c \in Clients, StopDnsLoop(c) PROVE TypeOK'
  BY <1>13 DEF StopDnsLoop, Step, Goto, CancelOld
<1>14. ASSUME NEW c \in Clients, Teardown(c) PROVE TypeOK'
  BY <1>14 DEF Teardown, Step, Goto
<1>15. ASSUME NEW c \in Clients, CgroupDisable(c) PROVE TypeOK'
  BY <1>15 DEF CgroupDisable, Step, Goto
<1>16. ASSUME NEW c \in Clients, ClearRoutes(c) PROVE TypeOK'
  BY <1>16, ClearsEach DEF ClearRoutes, Step, Goto
<1>17. ASSUME NEW c \in Clients, ClearIfaceAndRoutes(c) PROVE TypeOK'
  BY <1>17, ClearsEach DEF ClearIfaceAndRoutes, Step, Goto
<1>18. ASSUME NEW c \in Clients, SetupFullOrNone(c) PROVE TypeOK'
  BY <1>18 DEF SetupFullOrNone, Step, Goto
<1>19. ASSUME NEW c \in Clients, FlagDisabled(c) PROVE TypeOK'
  BY <1>19 DEF FlagDisabled, Step, Goto
<1>20. ASSUME NEW c \in Clients, SetIface(c) PROVE TypeOK'
  BY <1>20 DEF SetIface, Step, Goto
<1>21. ASSUME NEW c \in Clients, ReadSettings(c) PROVE TypeOK'
  BY <1>21 DEF ReadSettings, Goto
<1>22. ASSUME NEW c \in Clients, SetupFullVpn(c) PROVE TypeOK'
  BY <1>22 DEF SetupFullVpn, Step, Goto
<1>23. ASSUME NEW c \in Clients, Activate(c) PROVE TypeOK'
  BY <1>23 DEF Activate, Reply
<1>24. ASSUME NEW c \in Clients, LinkDown(c) PROVE TypeOK'
  BY <1>24 DEF LinkDown, Reply, Flush
<1>25. ASSUME NEW l \in ProcLoops, ProcTick(l) PROVE TypeOK'
  BY <1>25 DEF ProcTick, NextEntry
<1>26. ASSUME NEW l \in ProcLoops, ProcIsWatched(l) PROVE TypeOK'
  BY <1>26 DEF ProcIsWatched, NextEntry
<1>27. ASSUME NEW l \in ProcLoops, ProcMatch(l) PROVE TypeOK'
  BY <1>27 DEF ProcMatch, NextEntry
<1>28. ASSUME NEW l \in ProcLoops, ProcAdd(l) PROVE TypeOK'
  BY <1>28 DEF ProcAdd, NextEntry
<1>29. ASSUME NEW l \in ProcLoops, ProcRecord(l) PROVE TypeOK'
  BY <1>29 DEF ProcRecord, NextEntry
<1>30. ASSUME NEW l \in DnsLoops, DnsResolveVpn(l) PROVE TypeOK'
  BY <1>30, ResolveType, DnsEndTypes DEF DnsResolveVpn, Dirs
<1>31. ASSUME NEW l \in DnsLoops, DnsResolveDirect(l) PROVE TypeOK'
  BY <1>31, ResolveType, DnsEndTypes DEF DnsResolveDirect, Dirs
<1>32. ASSUME NEW l \in DnsLoops, DnsUpdateRoutes(l) PROVE TypeOK'
  BY <1>32, UpdateRoutesTypes DEF DnsUpdateRoutes
<1>33. ASSUME NEW l \in DnsLoops, DnsWake(l) PROVE TypeOK'
  BY <1>33, DnsEndTypes DEF DnsWake
<1>34. ASSUME NEW p \in Pids, NEW a \in Apps, ProcessRuns(p, a) PROVE TypeOK'
  BY <1>34 DEF ProcessRuns
<1>35. ASSUME NEW p \in Pids, ProcessExits(p) PROVE TypeOK'
  BY <1>35 DEF ProcessExits
<1>36. ASSUME LinkLost PROVE TypeOK'
  BY <1>36 DEF LinkLost, Flush
<1>37. CASE UNCHANGED vars
  BY <1>37 DEF vars
<1> QED
  BY <1>1, <1>2, <1>3, <1>4, <1>5, <1>6, <1>7, <1>8, <1>9, <1>10, <1>11,
     <1>12, <1>13, <1>14, <1>15, <1>16, <1>17, <1>18, <1>19, <1>20, <1>21,
     <1>22, <1>23, <1>24, <1>25, <1>26, <1>27, <1>28, <1>29, <1>30, <1>31,
     <1>32, <1>33, <1>34, <1>35, <1>36, <1>37
  DEF Next, Request, Serve, ProcLoop, DnsLoop, Environment

\* Every reachable state is well-typed (AppState, SplitTunnelManager and the
\* kernel state they write).
THEOREM TypeCorrect == Spec => []TypeOK
<1>1. Init => TypeOK
  BY InitTypeOK
<1>2. TypeOK /\ [Next]_vars => TypeOK'
  BY NextTypeOK
<1> QED
  BY <1>1, <1>2, PTL DEF Spec

-----------------------------------------------------------------------------
\* What the ownership of the loops depends on.
loopVars == <<procPc, dnsPc, procHandle, dnsHandle, cancelled>>

\* Replacing the process monitor moves the ownership from the old thread to
\* the new one.
LEMMA StartProcessMonitorOwns ==
    ASSUME TypeOK, LoopsOwned, NEW c \in Clients, StartProcessMonitor(c)
    PROVE  LoopsOwned'
<1>1. PICK l \in ProcLoops :
        /\ procPc[l] = "free"
        /\ procPc' = [procPc EXCEPT ![l] = "tick"]
        /\ procHandle' = l
  BY DEF StartProcessMonitor
<1>2. RunningProc' = RunningProc \union {l} /\ l \notin RunningProc
  BY <1>1 DEF TypeOK, RunningProc
<1>3. /\ cancelled' = cancelled \union ({procHandle} \ {NoLoop})
      /\ UNCHANGED <<dnsPc, dnsHandle>>
  BY DEF StartProcessMonitor, CancelOld, dnsVars
<1>4. NoLoop \notin RunningProc /\ l \notin RunningDns
  BY ConstantsAssumption DEF RunningProc, RunningDns
<1>5. RunningDns' = RunningDns
  BY <1>3 DEF RunningDns
<1> QED
  BY <1>1, <1>2, <1>3, <1>4, <1>5 DEF LoopsOwned

\* start_dns_loop likewise, and it leaves everything alone if no name is listed.
LEMMA StartDnsLoopOwns ==
    ASSUME TypeOK, LoopsOwned, NEW c \in Clients, StartDnsLoop(c)
    PROVE  LoopsOwned'
<1>1. CASE HasDomains(cfg[c])
  <2>1. PICK l \in DnsLoops :
          /\ dnsPc[l] = "free"
          /\ dnsPc' = [dnsPc EXCEPT ![l] = "vpn"]
          /\ dnsHandle' = l
    BY <1>1 DEF StartDnsLoop
  <2>2. RunningDns' = RunningDns \union {l} /\ l \notin RunningDns
    BY <2>1 DEF TypeOK, RunningDns
  <2>3. /\ cancelled' = cancelled \union ({dnsHandle} \ {NoLoop})
        /\ UNCHANGED <<procPc, procHandle>>
    BY <1>1 DEF StartDnsLoop, CancelOld, procVars
  <2>4. NoLoop \notin RunningDns /\ l \notin RunningProc
    BY ConstantsAssumption DEF RunningProc, RunningDns
  <2>5. RunningProc' = RunningProc
    BY <2>3 DEF RunningProc
  <2> QED
    BY <2>1, <2>2, <2>3, <2>4, <2>5 DEF LoopsOwned
<1>2. CASE ~HasDomains(cfg[c])
  BY <1>2 DEF StartDnsLoop, LoopsOwned, RunningProc, RunningDns, procVars
<1> QED
  BY <1>1, <1>2

\* Emptying a slot cancels the thread that held it.
LEMMA StopLoopsOwns ==
    ASSUME TypeOK, LoopsOwned, NEW c \in Clients,
           StopProcessMonitor(c) \/ StopDnsLoop(c)
    PROVE  LoopsOwned'
<1>1. /\ RunningProc' = RunningProc /\ RunningDns' = RunningDns
      /\ RunningProc \intersect RunningDns = {}
      /\ NoLoop \notin RunningProc \union RunningDns
  BY ConstantsAssumption
  DEF StopProcessMonitor, StopDnsLoop, procVars, dnsVars, RunningProc, RunningDns
<1>2. CASE StopProcessMonitor(c)
  BY <1>1, <1>2 DEF LoopsOwned, StopProcessMonitor, CancelOld
<1>3. CASE StopDnsLoop(c)
  BY <1>1, <1>3 DEF LoopsOwned, StopDnsLoop, CancelOld
<1> QED
  BY <1>2, <1>3

\* A monitor thread goes on unless it has been cancelled, and then it ends.
LEMMA ProcLoopOwns ==
    ASSUME TypeOK, LoopsOwned, NEW l \in ProcLoops, ProcLoop(l)
    PROVE  LoopsOwned'
<1>1. UNCHANGED <<procHandle, dnsHandle, dnsPc>>
  BY DEF ProcLoop, ProcTick, ProcIsWatched, ProcMatch, ProcAdd, ProcRecord,
         slotVars, dnsVars
<1>2. l \in RunningProc /\ l \notin RunningDns /\ RunningDns' = RunningDns
  BY <1>1, ConstantsAssumption
  DEF ProcLoop, ProcTick, ProcIsWatched, ProcMatch, ProcAdd, ProcRecord,
      RunningProc, RunningDns
<1>3. CASE ProcTick(l) /\ l \in cancelled
  <2>1. /\ RunningProc' = RunningProc \ {l}
        /\ cancelled' = cancelled \ {l}
    BY <1>3 DEF ProcTick, TypeOK, RunningProc
  <2> QED
    BY <1>1, <1>2, <1>3, <2>1 DEF LoopsOwned
<1>4. CASE ~(ProcTick(l) /\ l \in cancelled)
  <2>1. RunningProc' = RunningProc /\ cancelled' = cancelled
    BY <1>4 DEF ProcLoop, ProcTick, ProcIsWatched, ProcMatch, ProcAdd, ProcRecord,
                NextEntry, TypeOK, RunningProc, slotVars
  <2> QED
    BY <1>1, <1>2, <2>1 DEF LoopsOwned
<1> QED
  BY <1>3, <1>4

\* So does a DNS thread.
LEMMA DnsLoopOwns ==
    ASSUME TypeOK, LoopsOwned, NEW l \in DnsLoops, DnsLoop(l)
    PROVE  LoopsOwned'
<1>1. UNCHANGED <<procHandle, dnsHandle, procPc>>
  BY DEF DnsLoop, DnsResolveVpn, DnsResolveDirect, DnsUpdateRoutes, DnsWake,
         slotVars, procVars
<1>2. l \in RunningDns /\ l \notin RunningProc /\ RunningProc' = RunningProc
  BY <1>1, ConstantsAssumption
  DEF DnsLoop, DnsResolveVpn, DnsResolveDirect, DnsUpdateRoutes, DnsWake,
      RunningProc, RunningDns
<1>3. CASE l \in cancelled /\ ~DnsUpdateRoutes(l)
  <2>1. /\ RunningDns' = RunningDns \ {l}
        /\ cancelled' = cancelled \ {l}
    BY <1>3 DEF DnsLoop, DnsResolveVpn, DnsResolveDirect, DnsWake, DnsEnd, TypeOK,
                RunningDns
  <2> QED
    BY <1>1, <1>2, <1>3, <2>1 DEF LoopsOwned
<1>4. CASE l \notin cancelled \/ DnsUpdateRoutes(l)
  <2>1. RunningDns' = RunningDns /\ cancelled' = cancelled
    BY <1>4 DEF DnsLoop, DnsResolveVpn, DnsResolveDirect, DnsUpdateRoutes, DnsWake,
                TypeOK, RunningDns, slotVars
  <2> QED
    BY <1>1, <1>2, <2>1 DEF LoopsOwned
<1> QED
  BY <1>3, <1>4

\* Every other step leaves the loops alone.
LEMMA OtherStepsLeaveLoops ==
    ASSUME [Next]_vars,
           ~(\E c \in Clients : \/ StartProcessMonitor(c) \/ StartDnsLoop(c)
                                \/ StopProcessMonitor(c) \/ StopDnsLoop(c)),
           ~(\E l \in ProcLoops : ProcLoop(l)),
           ~(\E l \in DnsLoops : DnsLoop(l))
    PROVE  UNCHANGED loopVars
<1> USE DEF loopVars, slotVars, procVars, dnsVars
<1>1. ASSUME NEW c \in Clients, Request(c) PROVE UNCHANGED loopVars
  BY <1>1 DEF Request, SetSplitTunneling, ConnectTunnel, ConnectFails,
              DisconnectTunnel
<1>2. ASSUME NEW c \in Clients, Serve(c) PROVE UNCHANGED loopVars
  BY <1>2 DEF Serve, CgroupEnable, ScanProcesses, ReadIface, SetupBase,
              StoreSettings, Teardown, CgroupDisable, ClearRoutes,
              ClearIfaceAndRoutes, SetupFullOrNone, FlagDisabled, SetIface,
              ReadSettings, SetupFullVpn, Activate, LinkDown
<1>3. ASSUME Environment PROVE UNCHANGED loopVars
  BY <1>3 DEF Environment, ProcessRuns, ProcessExits, LinkLost
<1> QED
  BY <1>1, <1>2, <1>3 DEF Next, vars

\* The induction step of EveryLoopOwned.
LEMMA NextLoopsOwned == TypeOK /\ LoopsOwned /\ [Next]_vars => LoopsOwned'
<1> SUFFICES ASSUME TypeOK, LoopsOwned, [Next]_vars PROVE LoopsOwned'
  OBVIOUS
<1>1. CASE UNCHANGED loopVars
  BY <1>1 DEF loopVars, LoopsOwned, RunningProc, RunningDns
<1> QED
  BY <1>1, StartProcessMonitorOwns, StartDnsLoopOwns, StopLoopsOwns, ProcLoopOwns,
     DnsLoopOwns, OtherStepsLeaveLoops

\* Whatever requests overlap, a LoopHandle names a running, uncancelled thread
\* and every other running thread has been cancelled (the handles of
\* apply_settings, start_dns_loop, disable and on_tunnel_disconnected).
THEOREM EveryLoopOwned == Spec => []LoopsOwned
<1>1. Init => LoopsOwned
  BY DEF Init, LoopsOwned, RunningProc, RunningDns
<1>2. TypeOK /\ LoopsOwned /\ [Next]_vars => LoopsOwned'
  BY NextLoopsOwned
<1> QED
  BY <1>1, <1>2, TypeCorrect, PTL DEF Spec

-----------------------------------------------------------------------------

\* Each step of the manager is a step of the monitor's LoopSlot or leaves it
\* alone: the induction step of MonitorIsLoopSlot.
LEMMA ProcSlotStep ==
    TypeOK /\ LoopsOwned /\ [Next]_vars => [ProcSlot!Next]_(ProcSlot!vars)
<1> SUFFICES ASSUME TypeOK, LoopsOwned, [Next]_vars
             PROVE  ProcSlot!Next \/ UNCHANGED <<procHandle, RunningProc>>
  BY DEF ProcSlot!vars
<1>1. ASSUME NEW c \in Clients, StartProcessMonitor(c) PROVE ProcSlot!Next
  <2>1. PICK l \in ProcLoops :
          /\ procPc[l] = "free"
          /\ procPc' = [procPc EXCEPT ![l] = "tick"]
          /\ procHandle' = l
    BY <1>1 DEF StartProcessMonitor
  <2>2. RunningProc' = RunningProc \union {l} /\ l \notin RunningProc
    BY <2>1 DEF TypeOK, RunningProc
  <2>3. ProcSlot!Launch(l)
    BY <2>1, <2>2 DEF ProcSlot!Launch
  <2> QED
    BY <2>3 DEF ProcSlot!Next
<1>2. ASSUME NEW c \in Clients, StopProcessMonitor(c) PROVE ProcSlot!Next
  BY <1>2 DEF StopProcessMonitor, procVars, RunningProc, ProcSlot!Next,
              ProcSlot!Release
<1>3. ASSUME NEW c \in Clients, StartDnsLoop(c) \/ StopDnsLoop(c)
      PROVE  UNCHANGED <<procHandle, RunningProc>>
  BY <1>3 DEF StartDnsLoop, StopDnsLoop, procVars, RunningProc
<1>4. ASSUME NEW l \in DnsLoops, DnsLoop(l)
      PROVE  UNCHANGED <<procHandle, RunningProc>>
  BY <1>4 DEF DnsLoop, DnsResolveVpn, DnsResolveDirect, DnsUpdateRoutes, DnsWake,
              slotVars, procVars, RunningProc
<1>5. ASSUME NEW l \in ProcLoops, ProcLoop(l)
      PROVE  ProcSlot!Next \/ UNCHANGED <<procHandle, RunningProc>>
  <2>1. UNCHANGED procHandle /\ l \in RunningProc
    BY <1>5 DEF ProcLoop, ProcTick, ProcIsWatched, ProcMatch, ProcAdd, ProcRecord,
                slotVars, RunningProc
  <2>2. CASE ProcTick(l) /\ l \in cancelled
    <3>1. RunningProc' = RunningProc \ {l}
      BY <2>2 DEF ProcTick, TypeOK, RunningProc
    <3>2. l # procHandle
      BY <2>2, ConstantsAssumption DEF LoopsOwned, RunningProc, RunningDns
    <3> QED
      BY <2>1, <3>1, <3>2 DEF ProcSlot!Next, ProcSlot!Return
  <2>3. CASE ~(ProcTick(l) /\ l \in cancelled)
    <3>1. RunningProc' = RunningProc
      BY <1>5, <2>3 DEF ProcLoop, ProcTick, ProcIsWatched, ProcMatch, ProcAdd,
                        ProcRecord, NextEntry, TypeOK, RunningProc
    <3> QED
      BY <2>1, <3>1
  <2> QED
    BY <2>2, <2>3
<1>6. UNCHANGED loopVars => UNCHANGED <<procHandle, RunningProc>>
  BY DEF loopVars, RunningProc
<1> QED
  BY <1>1, <1>2, <1>3, <1>4, <1>5, <1>6, OtherStepsLeaveLoops

\* process_monitor_handle keeps the promise of a LoopSlot, its liveness aside.
THEOREM MonitorIsLoopSlot == Spec => ProcSlot!Safety
<1>1. Init => ProcSlot!Init
  BY DEF Init, ProcSlot!Init, RunningProc
<1> QED
  BY <1>1, ProcSlotStep, TypeCorrect, EveryLoopOwned, PTL DEF Spec, ProcSlot!Safety

\* The same step for the slot of the DNS loop.
LEMMA DnsSlotStep ==
    TypeOK /\ LoopsOwned /\ [Next]_vars => [DnsSlot!Next]_(DnsSlot!vars)
<1> SUFFICES ASSUME TypeOK, LoopsOwned, [Next]_vars
             PROVE  DnsSlot!Next \/ UNCHANGED <<dnsHandle, RunningDns>>
  BY DEF DnsSlot!vars
<1>1. ASSUME NEW c \in Clients, StartDnsLoop(c)
      PROVE  DnsSlot!Next \/ UNCHANGED <<dnsHandle, RunningDns>>
  <2>1. CASE HasDomains(cfg[c])
    <3>1. PICK l \in DnsLoops :
            /\ dnsPc[l] = "free"
            /\ dnsPc' = [dnsPc EXCEPT ![l] = "vpn"]
            /\ dnsHandle' = l
      BY <1>1, <2>1 DEF StartDnsLoop
    <3>2. RunningDns' = RunningDns \union {l} /\ l \notin RunningDns
      BY <3>1 DEF TypeOK, RunningDns
    <3> QED
      BY <3>1, <3>2 DEF DnsSlot!Next, DnsSlot!Launch
  <2>2. CASE ~HasDomains(cfg[c])
    BY <1>1, <2>2 DEF StartDnsLoop, RunningDns
  <2> QED
    BY <2>1, <2>2
<1>2. ASSUME NEW c \in Clients, StopDnsLoop(c) PROVE DnsSlot!Next
  BY <1>2 DEF StopDnsLoop, dnsVars, RunningDns, DnsSlot!Next, DnsSlot!Release
<1>3. ASSUME NEW c \in Clients, StartProcessMonitor(c) \/ StopProcessMonitor(c)
      PROVE  UNCHANGED <<dnsHandle, RunningDns>>
  BY <1>3 DEF StartProcessMonitor, StopProcessMonitor, dnsVars, RunningDns
<1>4. ASSUME NEW l \in ProcLoops, ProcLoop(l)
      PROVE  UNCHANGED <<dnsHandle, RunningDns>>
  BY <1>4 DEF ProcLoop, ProcTick, ProcIsWatched, ProcMatch, ProcAdd, ProcRecord,
              slotVars, dnsVars, RunningDns
<1>5. ASSUME NEW l \in DnsLoops, DnsLoop(l)
      PROVE  DnsSlot!Next \/ UNCHANGED <<dnsHandle, RunningDns>>
  <2>1. UNCHANGED dnsHandle /\ l \in RunningDns
    BY <1>5 DEF DnsLoop, DnsResolveVpn, DnsResolveDirect, DnsUpdateRoutes, DnsWake,
                slotVars, RunningDns
  <2>2. CASE l \in cancelled /\ ~DnsUpdateRoutes(l)
    <3>1. RunningDns' = RunningDns \ {l}
      BY <1>5, <2>2 DEF DnsLoop, DnsResolveVpn, DnsResolveDirect, DnsWake, DnsEnd,
                        TypeOK, RunningDns
    <3>2. l # dnsHandle
      BY <2>2, ConstantsAssumption DEF LoopsOwned, RunningProc, RunningDns
    <3> QED
      BY <2>1, <3>1, <3>2 DEF DnsSlot!Next, DnsSlot!Return
  <2>3. CASE l \notin cancelled \/ DnsUpdateRoutes(l)
    <3>1. RunningDns' = RunningDns
      BY <1>5, <2>3 DEF DnsLoop, DnsResolveVpn, DnsResolveDirect, DnsUpdateRoutes,
                        DnsWake, TypeOK, RunningDns
    <3> QED
      BY <2>1, <3>1
  <2> QED
    BY <2>2, <2>3
<1>6. UNCHANGED loopVars => UNCHANGED <<dnsHandle, RunningDns>>
  BY DEF loopVars, RunningDns
<1> QED
  BY <1>1, <1>2, <1>3, <1>4, <1>5, <1>6, OtherStepsLeaveLoops

\* dns_loop_handle likewise.
THEOREM ResolverIsLoopSlot == Spec => DnsSlot!Safety
<1>1. Init => DnsSlot!Init
  BY DEF Init, DnsSlot!Init, RunningDns
<1> QED
  BY <1>1, DnsSlotStep, TypeCorrect, EveryLoopOwned, PTL DEF Spec, DnsSlot!Safety

-----------------------------------------------------------------------------

\* A DNS thread that lost its slot reaches the routing table at most once more
\* and resolves nothing (the cancelled() checks of start_dns_loop).
THEOREM LateUpdateAtMostOnce == Spec => CancelledDnsWindsDown
<1>1. ASSUME TypeOK, LoopsOwned, [Next]_vars, NEW l \in DnsLoops,
             l \in cancelled, dnsPc'[l] # dnsPc[l]
      PROVE  <<dnsPc[l], dnsPc'[l]>> \in Winding
  <2>1. l \in RunningDns
    BY <1>1, ConstantsAssumption DEF LoopsOwned, RunningProc, RunningDns
  <2>2. ASSUME NEW c \in Clients, StartDnsLoop(c) PROVE FALSE
    BY <1>1, <2>1, <2>2 DEF StartDnsLoop, TypeOK, RunningDns
  <2>3. ASSUME NEW c \in Clients,
               StartProcessMonitor(c) \/ StopProcessMonitor(c) \/ StopDnsLoop(c)
        PROVE  FALSE
    BY <1>1, <2>3 DEF StartProcessMonitor, StopProcessMonitor, StopDnsLoop, dnsVars
  <2>4. ASSUME NEW k \in ProcLoops, ProcLoop(k) PROVE FALSE
    BY <1>1, <2>4 DEF ProcLoop, ProcTick, ProcIsWatched, ProcMatch, ProcAdd,
                      ProcRecord, dnsVars
  <2>5. ASSUME UNCHANGED loopVars PROVE FALSE
    BY <1>1, <2>5 DEF loopVars
  <2>6. PICK k \in DnsLoops : DnsLoop(k)
    BY <1>1, <2>2, <2>3, <2>4, <2>5, OtherStepsLeaveLoops
  <2>7. k = l
    BY <1>1, <2>6 DEF DnsLoop, DnsResolveVpn, DnsResolveDirect, DnsUpdateRoutes,
                      DnsWake, DnsEnd, TypeOK
  <2>8. CASE DnsUpdateRoutes(l)
    BY <1>1, <2>8 DEF DnsUpdateRoutes, TypeOK, Winding
  <2>9. CASE ~DnsUpdateRoutes(l)
    BY <1>1, <2>6, <2>7, <2>9 DEF DnsLoop, DnsResolveVpn, DnsResolveDirect, DnsWake,
                                  DnsEnd, TypeOK, Winding
  <2> QED
    BY <2>8, <2>9
<1>2. TypeOK /\ LoopsOwned /\ [Next]_vars
        => [\A l \in DnsLoops :
              l \in cancelled /\ dnsPc'[l] # dnsPc[l] =>
                  <<dnsPc[l], dnsPc'[l]>> \in Winding]_vars
  BY <1>1
<1> QED
  BY <1>2, TypeCorrect, EveryLoopOwned, PTL DEF Spec, CancelledDnsWindsDown

=============================================================================
