-------------------------- MODULE SplitTunnelProps --------------------------
(***************************************************************************)
(* What the split-tunnel manager must do, beyond the type and the loop     *)
(* ownership stated beside the model.                                      *)
(***************************************************************************)
EXTENDS SplitTunnel

\* No request is being served.
AtRest == \A c \in Clients : pc[c] = "idle"

-----------------------------------------------------------------------------

\* process_monitor_handle and dns_loop_handle each behave as a LoopSlot.
ProcSlot == INSTANCE LoopSlot WITH
    Loops <- ProcLoops, slot <- procHandle, alive <- RunningProc
DnsSlot == INSTANCE LoopSlot WITH
    Loops <- DnsLoops, slot <- dnsHandle, alive <- RunningDns

\* The monitor loop: one owner, nothing leaks, a loop that was replaced or
\* stopped ends even if it was in the middle of scanning /proc.
ProcSlotSpec == ProcSlot!Spec

\* The DNS loop likewise, wherever in its resolution it was.
DnsSlotSpec == DnsSlot!Spec

-----------------------------------------------------------------------------

\* "resolution incomplete, keeping existing routes" (split_tunnel.rs:296): a
\* tracked address loses its route only to a request that clears them all, to
\* the loss of its interface, or to an update in which every listed name, of
\* both lists, has been resolved.
RouteNeedsReason(ip) ==
    \/ \E c \in Clients : pc[c] \in {"clearRoutes", "clearIface"} /\ pc'[c] # pc[c]
    \/ tunnel' # tunnel \/ \E c \in Clients : pc[c] = "idle" /\ pc'[c] = "setIface"
    \/ \E c \in Clients : pc[c] = "linkDown" /\ pc'[c] = "idle"
    \/ \E l \in DnsLoops :
          /\ dnsPc[l] = "update" /\ dnsPc'[l] = "sleep"
          /\ \A k \in Dirs : \A d \in dnsJob[l][k] : dnsFound[l][<<k, d>>] # {}
          /\ \A k \in Dirs : \A d \in dnsJob[l][k] : ip \notin dnsFound[l][<<k, d>>]

RoutesKept ==
    [][\A ip \in Ips :
          kroute[ip] # "none" /\ kroute'[ip] = "none" => RouteNeedsReason(ip)]_vars

\* A DNS thread that has lost its slot may finish the update it is at, or was
\* about to reach, and touches the routes no more: it never starts another
\* resolution, so a stale list can reach the routing table at most once.
Winding == {<<"vpn", "free">>, <<"direct", "free">>, <<"update", "sleep">>,
            <<"sleep", "free">>}

CancelledDnsWindsDown ==
    [][\A l \in DnsLoops :
          l \in cancelled /\ dnsPc'[l] # dnsPc[l] => <<dnsPc[l], dnsPc'[l]>> \in Winding]_vars

\* The kernel's host routes lead into no interface other than the one the
\* manager routes for: no address stays routed into an earlier tunnel, except
\* one whose ip route del failed, which the manager does not learn.
VpnRoutesUseCurrentInterface ==
    \A ip \in Ips \ left : kroute[ip] \in Ifaces => kroute[ip] = vpnIface

\* update_routes issues no route command for an address it has in
\* current_routes (host_routes.rs:41), so one that had no route there would
\* never get it back.  As long as no link is lost each of them has a route,
\* out of the tunnel or into the one that is up, whatever list its name was
\* on when it was added and whatever its label has become since.
TrackedIsRouted ==
    \A ip \in Ips : current[ip] # "none" =>
        kroute[ip] \in {"direct"} \union (Ifaces \intersect {vpnIface})

\* Disabled and between requests: no thread is owned, no process can be added
\* to the cgroup, and everything is routed into the tunnel if there is one.
RestDisabled ==
    AtRest /\ ~settings.enabled =>
        /\ procHandle = NoLoop /\ dnsHandle = NoLoop /\ ~cgEnabled
        /\ nft = IF active = NoIface THEN NoTable ELSE Full(active)

\* Enabled, connected and between requests: the monitor runs with the list of
\* the settings in force, the cgroup exists, the names of the settings in
\* force are the ones resolved, and only the cgroup is marked.
RestEnabled ==
    AtRest /\ settings.enabled /\ active # NoIface =>
        /\ procHandle # NoLoop /\ appPaths = Listed(settings)
        /\ cgEnabled /\ cgDir
        /\ HasDomains(settings) => dnsHandle # NoLoop /\ dnsJob[dnsHandle] = settings.domains
        /\ nft = Base(active)

\* The three records of the tunnel agree whenever no request is served.
RestInterface == AtRest => active = tunnel /\ vpnIface = tunnel

-----------------------------------------------------------------------------

Fresh(p) == p \notin watched \union UNION {procPid[l] : l \in ProcLoops}

\* A listed executable that starts, or is listed, while the monitor runs, in a
\* pid the monitor has not recorded before and is not about to, ends up in the
\* cgroup, unless it exits or is taken off the list first: no process is lost
\* to a loop that is replaced in the middle of its scan.
FreshProcessCaptured ==
    \A p \in Pids : \A a \in Apps :
        (exe[p] = a /\ a \in appPaths /\ procHandle # NoLoop /\ Fresh(p))
            ~> \/ p \in cgProcs
               \/ exe[p] # a \/ a \notin appPaths \/ procHandle = NoLoop

\* Disabled and between requests, a scan that was under way when the monitor
\* was stopped moves no process into the cgroup; only a fork still can.
StoppedScanAddsNothing ==
    [][AtRest /\ ~settings.enabled =>
          \A p \in cgProcs' \ cgProcs : exe'[p] # exe[p]]_vars

\* Once requests cease with the tunnel up, every name being resolved for the
\* VPN keeps a route into it, whenever the tunnel came up and however the
\* answers change.  That needs every listed name to resolve, and addresses
\* that no name listed for the direct route shares.
Routed(d) == \E ip \in UNION Answers[d] : kroute[ip] = active

AllResolve(job) == \A k \in Dirs : \A d \in job[k] : {} \notin Answers[d]

NeverDirect(d) ==
    \A s \in Requests : \A e \in s.domains["direct"] :
        UNION Answers[d] \intersect UNION Answers[e] = {}

NamesRouted ==
    <>[]AtRest =>
        <>[](/\ dnsHandle # NoLoop /\ active # NoIface /\ tunnel = active
             /\ AllResolve(dnsJob[dnsHandle])
             => \A d \in dnsJob[dnsHandle]["vpn"] : NeverDirect(d) => Routed(d))

=============================================================================
