----------------------------- MODULE WgSession -----------------------------
(***************************************************************************)
(* A tunnel's life: the ConnectTunnel, DisconnectTunnel, UpdateTunnel,     *)
(* DeleteTunnel and AddTunnel requests (ipc.rs), WireGuardManager command  *)
(* by command (wireguard.rs), the interfaces, table routes and policy      *)
(* rules those commands leave in the kernel, and the clean-up of stale     *)
(* interfaces when the daemon comes back after a crash.                    *)
(*                                                                         *)
(* An action is one external command, or one block under one lock.         *)
(* WireGuardManager takes no lock: the threads of two connections run      *)
(* their commands in any order.                                            *)
(*                                                                         *)
(* A definition named X_Something is X with a mistake in it; the runs      *)
(* check that each property notices the mistake it is paired with.         *)
(***************************************************************************)
EXTENDS Naturals, Sequences

CONSTANTS
    Clients,        \* IPC connection threads
    Main,           \* the thread that runs main
    Tunnels,        \* tunnel names; the interface of t is wg-t
    Configs,        \* contents a stored tunnel can have
    Hosts,          \* addresses of peers
    Endpoints,      \* of a content: the endpoints given as addresses, not names
    Absent,         \* no stored tunnel, no configuration
    NoTunnel,
    Stuck,          \* the routes and rules that ip may fail to delete
    Faults          \* the other failures considered, of FaultKinds

FaultKinds ==
    { "setup",      \* any command of connect_inner may fail
      "show",       \* ip link show may fail, which counts as no interface
      "del",        \* ip link set down or ip link del may fail
      "lost",       \* an interface is deleted behind the daemon's back
      "crash" }     \* the daemon dies, at any point, and systemd restarts it

Threads  == Clients \union {Main}
Families == {"v4", "v6"}
Kinds    == {"wg", "fw", "sup"}
AllRules == Families \X Kinds

\* The commands of setup_routing, in order; cleanup_routing undoes them in the
\* same order.
RoutingCmds ==
    << <<"v4", "route">>, <<"v6", "route">>, <<"v4", "wg">>, <<"v6", "wg">>,
       <<"v4", "fw">>, <<"v6", "fw">>, <<"v4", "sup">>, <<"v6", "sup">> >>

ASSUME WgConstants ==
    /\ Main \notin Clients
    /\ Absent \notin Configs
    /\ NoTunnel \notin Tunnels
    /\ Stuck \subseteq Families \X (Kinds \union {"route"})
    /\ Endpoints \in [Configs -> SUBSET Hosts]
    /\ Faults \subseteq FaultKinds

VARIABLES
    \* the threads: where they are, the tunnel and the configuration they work
    \* on, the next routing command, what disconnect returns to, and the
    \* endpoints setup_routing has yet to reach
    pc, tun, conf, step, after, left,
    stale,          \* interfaces cleanup_stale has yet to remove
    serving,        \* the IPC server accepts requests
    active,         \* AppState.active_tunnel
    stored,         \* the .conf files
    \* the kernel: interfaces and what they were configured with, the default
    \* routes of the VPN table, the policy rules, the host routes to endpoints
    links, linkConf, table, rules, hostRoutes,
    \* history: the rules that an ip rule del was to remove and did not, and
    \* whether an interface was kept or lost against the daemon's will
    unremoved, harm

locals == <<pc, tun, conf, step, after, left>>
routing == <<table, rules, hostRoutes, unremoved>>
kernel == <<links, linkConf, routing, harm>>
vars == <<locals, stale, serving, active, stored, kernel>>

Init ==
    /\ pc = [c \in Threads |-> IF c = Main THEN "boot" ELSE "idle"]
    /\ tun = [c \in Threads |-> NoTunnel]
    /\ conf = [c \in Threads |-> Absent]
    /\ step = [c \in Threads |-> 0]
    /\ after = [c \in Threads |-> "none"]
    /\ left = [c \in Threads |-> {}]
    /\ stale = {} /\ serving = FALSE
    /\ active = NoTunnel
    /\ stored \in [Tunnels -> Configs \union {Absent}]
    /\ links = [t \in Tunnels |-> "none"]
    /\ linkConf = [t \in Tunnels |-> Absent]
    /\ table = [f \in Families |-> NoTunnel]
    /\ rules = {} /\ hostRoutes = {}
    /\ unremoved = {} /\ harm = {}

-----------------------------------------------------------------------------

Exists(t) == links[t] # "none"

\* A failure of this kind leaves an interface that should have been removed.
Leaves(kind) ==
    /\ kind \in Faults
    /\ harm' = harm \union {"kept"}

\* interface_exists says that t is there, or not.
Sees(t, there) ==
    \/ there = Exists(t) /\ UNCHANGED harm
    \/ ~there /\ Exists(t) /\ Leaves("show")

Goto(c, to) ==
    /\ pc' = [pc EXCEPT ![c] = to]
    /\ UNCHANGED <<tun, conf, step, after, left>>

Reply(c) ==
    /\ pc' = [pc EXCEPT ![c] = "idle"]
    /\ tun' = [tun EXCEPT ![c] = NoTunnel]
    /\ conf' = [conf EXCEPT ![c] = Absent]
    /\ step' = [step EXCEPT ![c] = 0]
    /\ after' = [after EXCEPT ![c] = "none"]
    /\ left' = [left EXCEPT ![c] = {}]

\* wg_manager.disconnect begins; from says what it returns to.
CallDisconnect(c, from) ==
    /\ pc' = [pc EXCEPT ![c] = "find"]
    /\ after' = [after EXCEPT ![c] = from]
    /\ UNCHANGED <<tun, conf, step, left>>

Begin(c, t, v, at) ==
    /\ serving
    /\ pc[c] = "idle"
    /\ pc' = [pc EXCEPT ![c] = at]
    /\ tun' = [tun EXCEPT ![c] = t]
    /\ conf' = [conf EXCEPT ![c] = v]
    /\ UNCHANGED <<step, after, left>>

(***************************************************************************)
(* The requests.  One that is refused at once changes nothing.             *)
(***************************************************************************)
ConnectTunnel(c, t) ==
    /\ stored[t] # Absent
    /\ Begin(c, t, stored[t], "check")
    /\ UNCHANGED <<stale, serving, active, stored, kernel>>

DisconnectTunnel(c) ==
    /\ active # NoTunnel
    /\ serving /\ pc[c] = "idle"
    /\ pc' = [pc EXCEPT ![c] = "find"]
    /\ tun' = [tun EXCEPT ![c] = active]
    /\ after' = [after EXCEPT ![c] = "request"]
    /\ UNCHANGED <<conf, step, left, stale, serving, active, stored, kernel>>

UpdateTunnel_Unchecked(c, t, v) ==
    /\ Begin(c, t, v, "update")
    /\ UNCHANGED <<stale, serving, active, stored, kernel>>

\* The active tunnel is read here; the store is written in a later step.
UpdateTunnel(c, t, v) ==
    /\ active # t
    /\ Begin(c, t, v, "update")
    /\ UNCHANGED <<stale, serving, active, stored, kernel>>

DeleteTunnel(c, t) ==
    /\ active # t
    /\ Begin(c, t, Absent, "delete")
    /\ UNCHANGED <<stale, serving, active, stored, kernel>>

AddTunnel(c, t, v) ==
    /\ serving /\ pc[c] = "idle"
    /\ stored[t] = Absent
    /\ stored' = [stored EXCEPT ![t] = v]
    /\ UNCHANGED <<locals, stale, serving, active, kernel>>

\* tunnel_store.update and delete, which refuse a tunnel that does not exist.
WriteStore(c) ==
    /\ pc[c] \in {"update", "delete"}
    /\ stored' = [stored EXCEPT ![tun[c]] = IF @ = Absent THEN @ ELSE conf[c]]
    /\ Reply(c)
    /\ UNCHANGED <<stale, serving, active, kernel>>

\* Under the write lock of active_tunnel: refused while the active tunnel has
\* its interface, forgotten when it has lost it.
CheckActive(c) ==
    /\ pc[c] = "check"
    /\ \E there \in BOOLEAN :
          /\ IF active = NoTunnel THEN ~there /\ UNCHANGED harm ELSE Sees(active, there)
          /\ IF there THEN Reply(c) /\ UNCHANGED active
                      ELSE Goto(c, "exists") /\ active' = NoTunnel
    /\ UNCHANGED <<stale, serving, stored, links, linkConf, routing>>

(***************************************************************************)
(* WireGuardManager::connect.  Whatever fails in connect_inner is followed *)
(* by disconnect, whose result is ignored.                                 *)
(***************************************************************************)
CheckExisting(c) ==
    /\ pc[c] = "exists"
    /\ \E there \in BOOLEAN :
          /\ Sees(tun[c], there)
          /\ IF there THEN CallDisconnect(c, "add") ELSE Goto(c, "add")
    /\ UNCHANGED <<stale, serving, active, stored, links, linkConf, routing>>

Command_NotUndone(c, can, Do) ==
    /\ \/ can /\ Do
       \/ /\ ~can \/ "setup" \in Faults
          /\ Reply(c)
          /\ UNCHANGED kernel
    /\ UNCHANGED <<stale, serving, active, stored>>

\* A command of connect_inner: it succeeds with effect Do, or the connect fails.
Command(c, can, Do) ==
    /\ \/ can /\ Do
       \/ /\ ~can \/ "setup" \in Faults
          /\ CallDisconnect(c, "fail")
          /\ UNCHANGED kernel
    /\ UNCHANGED <<stale, serving, active, stored>>

AddLink(c) ==
    /\ pc[c] = "add"
    /\ Command(c, ~Exists(tun[c]),
               /\ links' = [links EXCEPT ![tun[c]] = "down"]
               /\ Goto(c, "configure")
               /\ UNCHANGED <<linkConf, routing, harm>>)

\* The key, the addresses and the MTU.
ConfigureLink(c) ==
    /\ pc[c] = "configure"
    /\ Command(c, Exists(tun[c]),
               /\ linkConf' = [linkConf EXCEPT ![tun[c]] = conf[c]]
               /\ Goto(c, "up")
               /\ UNCHANGED <<links, routing, harm>>)

LinkUp(c) ==
    /\ pc[c] = "up"
    /\ Command(c, Exists(tun[c]),
               /\ links' = [links EXCEPT ![tun[c]] = "up"]
               /\ Goto(c, "peers")
               /\ UNCHANGED <<linkConf, routing, harm>>)

SetPeers(c) ==
    /\ pc[c] = "peers"
    /\ Command(c, Exists(tun[c]),
               /\ pc' = [pc EXCEPT ![c] = "setup"]
               /\ step' = [step EXCEPT ![c] = 1]
               /\ UNCHANGED <<tun, conf, after, left, kernel>>)

\* ip route add and ip rule add refuse what is already there.
CanAdd_Replaces(f, what, t) ==
    IF what = "route" THEN links[t] = "up" ELSE <<f, what>> \notin rules
CanAdd(f, what, t) ==
    IF what = "route" THEN links[t] = "up" /\ table[f] = NoTunnel
                      ELSE <<f, what>> \notin rules

AddRouting(f, what, t) ==
    IF what = "route"
    THEN table' = [table EXCEPT ![f] = t] /\ UNCHANGED rules
    ELSE rules' = rules \union {<<f, what>>} /\ UNCHANGED table

\* Where setup_routing goes on when these endpoints are left.
Reach(c, hosts) ==
    /\ pc' = [pc EXCEPT ![c] = IF hosts = {} THEN "activate" ELSE "endpoint"]
    /\ left' = [left EXCEPT ![c] = hosts]

SetupRouting(c) ==
    LET f == RoutingCmds[step[c]][1]  what == RoutingCmds[step[c]][2] IN
    /\ pc[c] = "setup"
    /\ Command(c, CanAdd(f, what, tun[c]),
               /\ AddRouting(f, what, tun[c])
               /\ IF step[c] < Len(RoutingCmds)
                  THEN /\ step' = [step EXCEPT ![c] = @ + 1]
                       /\ UNCHANGED <<pc, left>>
                  ELSE /\ step' = [step EXCEPT ![c] = 0]
                       /\ Reach(c, Endpoints[conf[c]])
               /\ UNCHANGED <<tun, conf, after, links, linkConf, hostRoutes,
                              unremoved, harm>>)

\* add_endpoint_route, once for every endpoint: the default gateway is looked
\* up, an earlier host route removed, which may fail, and the new one added.
NextEndpoint(c) == CHOOSE e \in left[c] : TRUE

DelEndpointRoute(c) ==
    /\ pc[c] = "endpoint"
    /\ Command(c, TRUE,
               /\ \/ hostRoutes' = hostRoutes \ {NextEndpoint(c)}
                  \/ "setup" \in Faults /\ UNCHANGED hostRoutes
               /\ Goto(c, "addEndpoint")
               /\ UNCHANGED <<links, linkConf, table, rules, unremoved, harm>>)

AddEndpointRoute(c) ==
    /\ pc[c] = "addEndpoint"
    /\ Command(c, NextEndpoint(c) \notin hostRoutes,
               /\ Reach(c, left[c] \ {NextEndpoint(c)})
               /\ hostRoutes' = hostRoutes \union {NextEndpoint(c)}
               /\ UNCHANGED <<tun, conf, step, after, links, linkConf, table,
                              rules, unremoved, harm>>)

\* After on_tunnel_connected and dns.apply.
Activate(c) ==
    /\ pc[c] = "activate"
    /\ active' = tun[c]
    /\ Reply(c)
    /\ UNCHANGED <<stale, serving, stored, kernel>>

(***************************************************************************)
(* WireGuardManager::disconnect.                                           *)
(***************************************************************************)
Returns(c, ok) ==
    CASE after[c] = "add"     -> /\ pc' = [pc EXCEPT ![c] = "add"]
                                 /\ after' = [after EXCEPT ![c] = "none"]
                                 /\ UNCHANGED <<tun, conf, step, left>>
      [] after[c] = "fail"    -> Reply(c)
      [] after[c] = "request" -> IF ok THEN Goto(c, "inactive") ELSE Reply(c)
      [] after[c] = "stale"   -> /\ pc' = [pc EXCEPT ![c] = "stale"]
                                 /\ after' = [after EXCEPT ![c] = "none"]
                                 /\ tun' = [tun EXCEPT ![c] = NoTunnel]
                                 /\ UNCHANGED <<conf, step, left>>

FindLink(c) ==
    /\ pc[c] = "find"
    /\ \E there \in BOOLEAN :
          /\ Sees(tun[c], there)
          /\ IF there
             THEN /\ pc' = [pc EXCEPT ![c] = "cleanup"]
                  /\ step' = [step EXCEPT ![c] = 1]
                  /\ UNCHANGED <<tun, conf, after, left>>
             ELSE Returns(c, TRUE)
    /\ UNCHANGED <<stale, serving, active, stored, links, linkConf, routing>>

\* Where disconnect goes on after a command of cleanup_routing.
NextCleanup_NoEnd(c) ==
    /\ pc' = [pc EXCEPT ![c] = IF step[c] = Len(RoutingCmds) THEN "down" ELSE @]
    /\ step' = [step EXCEPT ![c] = @ + 1]
    /\ UNCHANGED <<tun, conf, after, left>>
NextCleanup(c) ==
    /\ pc' = [pc EXCEPT ![c] = IF step[c] = Len(RoutingCmds) THEN "down" ELSE @]
    /\ step' = [step EXCEPT ![c] = IF step[c] = Len(RoutingCmds) THEN 0 ELSE @ + 1]
    /\ UNCHANGED <<tun, conf, after, left>>

\* Errors are ignored; the rules are nobody's in particular.
CleanupRouting_RoutesOnly(c) ==
    LET f == RoutingCmds[step[c]][1]  what == RoutingCmds[step[c]][2] IN
    /\ pc[c] = "cleanup"
    /\ table' = [table EXCEPT ![f] = IF what = "route" /\ @ = tun[c] THEN NoTunnel ELSE @]
    /\ NextCleanup(c)
    /\ UNCHANGED <<rules, unremoved, hostRoutes, links, linkConf, harm, stale,
                   serving, active, stored>>

CleanupRouting(c) ==
    LET f == RoutingCmds[step[c]][1]  what == RoutingCmds[step[c]][2] IN
    /\ pc[c] = "cleanup"
    /\ \/ /\ table' = [table EXCEPT ![f] = IF what = "route" /\ @ = tun[c]
                                           THEN NoTunnel ELSE @]
          /\ rules' = rules \ {<<f, what>>}
          /\ unremoved' = unremoved \ {<<f, what>>}
       \/ /\ <<f, what>> \in Stuck
          /\ unremoved' = unremoved \union ({<<f, what>>} \intersect rules)
          /\ UNCHANGED <<table, rules>>
    /\ NextCleanup(c)
    /\ UNCHANGED <<hostRoutes, links, linkConf, harm, stale, serving, active, stored>>

\* The kernel drops the routes through an interface that goes down.
WithoutRoutes(t) == [f \in Families |-> IF table[f] = t THEN NoTunnel ELSE table[f]]

\* ip link set down or ip link del fails.
CannotRemove(t) ==
    IF Exists(t) THEN Leaves("del") ELSE UNCHANGED harm

LinkDown(c) ==
    /\ pc[c] = "down"
    /\ \/ /\ Exists(tun[c])
          /\ links' = [links EXCEPT ![tun[c]] = "down"]
          /\ table' = WithoutRoutes(tun[c])
          /\ Goto(c, "del")
          /\ UNCHANGED harm
       \/ /\ CannotRemove(tun[c])
          /\ Returns(c, FALSE)
          /\ UNCHANGED <<links, table>>
    /\ UNCHANGED <<linkConf, rules, hostRoutes, unremoved, stale, serving, active,
                   stored>>

LinkDel(c) ==
    /\ pc[c] = "del"
    /\ \/ /\ Exists(tun[c])
          /\ links' = [links EXCEPT ![tun[c]] = "none"]
          /\ linkConf' = [linkConf EXCEPT ![tun[c]] = Absent]
          /\ table' = WithoutRoutes(tun[c])
          /\ Returns(c, TRUE)
          /\ UNCHANGED harm
       \/ /\ CannotRemove(tun[c])
          /\ Returns(c, FALSE)
          /\ UNCHANGED <<links, linkConf, table>>
    /\ UNCHANGED <<rules, hostRoutes, unremoved, stale, serving, active, stored>>

\* DisconnectTunnel, after a disconnect that succeeded.
Deactivate(c) ==
    /\ pc[c] = "inactive"
    /\ active' = NoTunnel
    /\ Reply(c)
    /\ UNCHANGED <<stale, serving, stored, kernel>>

(***************************************************************************)
(* run_with_state: cleanup_stale, then the server.                         *)
(***************************************************************************)
ListStale(c) ==
    /\ pc[c] = "boot"
    /\ \/ stale' = {t \in Tunnels : Exists(t)} /\ UNCHANGED harm
       \/ stale' = {} /\ (\E t \in Tunnels : Exists(t)) /\ Leaves("show")
    /\ Goto(c, "stale")
    /\ UNCHANGED <<serving, active, stored, links, linkConf, routing>>

CleanupStale(c) ==
    /\ pc[c] = "stale"
    /\ \/ /\ stale = {}
          /\ serving' = TRUE
          /\ Reply(c)
          /\ UNCHANGED stale
       \/ \E t \in stale :
             /\ stale' = stale \ {t}
             /\ tun' = [tun EXCEPT ![c] = t]
             /\ pc' = [pc EXCEPT ![c] = "find"]
             /\ after' = [after EXCEPT ![c] = "stale"]
             /\ UNCHANGED <<conf, step, left, serving>>
    /\ UNCHANGED <<active, stored, kernel>>

\* The daemon dies and is started again; kernel and files stay as they are.
Crash ==
    /\ "crash" \in Faults
    /\ pc' = [c \in Threads |-> IF c = Main THEN "boot" ELSE "idle"]
    /\ tun' = [c \in Threads |-> NoTunnel]
    /\ conf' = [c \in Threads |-> Absent]
    /\ step' = [c \in Threads |-> 0]
    /\ after' = [c \in Threads |-> "none"]
    /\ left' = [c \in Threads |-> {}]
    /\ stale' = {} /\ serving' = FALSE
    /\ active' = NoTunnel
    /\ UNCHANGED <<stored, kernel>>

LinkLost(t) ==
    /\ "lost" \in Faults
    /\ Exists(t)
    /\ links' = [links EXCEPT ![t] = "none"]
    /\ linkConf' = [linkConf EXCEPT ![t] = Absent]
    /\ table' = WithoutRoutes(t)
    /\ harm' = harm \union {"lost"}
    /\ UNCHANGED <<locals, stale, serving, active, stored, rules, hostRoutes,
                   unremoved>>

-----------------------------------------------------------------------------

Request(c) ==
    \/ \E t \in Tunnels : ConnectTunnel(c, t) \/ DeleteTunnel(c, t)
    \/ \E t \in Tunnels, v \in Configs : UpdateTunnel(c, t, v) \/ AddTunnel(c, t, v)
    \/ DisconnectTunnel(c)

Work(c) ==
    \/ WriteStore(c) \/ CheckActive(c) \/ CheckExisting(c) \/ AddLink(c)
    \/ ConfigureLink(c) \/ LinkUp(c) \/ SetPeers(c) \/ SetupRouting(c)
    \/ DelEndpointRoute(c) \/ AddEndpointRoute(c) \/ Activate(c)
    \/ FindLink(c) \/ CleanupRouting(c) \/ LinkDown(c) \/ LinkDel(c) \/ Deactivate(c)
    \/ ListStale(c) \/ CleanupStale(c)

Next ==
    \/ \E c \in Clients : Request(c)
    \/ \E c \in Threads : Work(c)
    \/ Crash
    \/ \E t \in Tunnels : LinkLost(t)

Spec == Init /\ [][Next]_vars

-----------------------------------------------------------------------------

\* The type of the state.
TypeOK ==
    /\ pc \in [Threads -> {"idle", "check", "exists", "add", "configure", "up",
                           "peers", "setup", "endpoint", "addEndpoint",
                           "activate", "find", "cleanup", "down", "del",
                           "inactive", "update", "delete", "boot", "stale"}]
    /\ tun \in [Threads -> Tunnels \union {NoTunnel}]
    /\ conf \in [Threads -> Configs \union {Absent}]
    /\ step \in [Threads -> 0..Len(RoutingCmds)]
    /\ after \in [Threads -> {"none", "add", "fail", "request", "stale"}]
    /\ left \in [Threads -> SUBSET Hosts]
    /\ stale \subseteq Tunnels
    /\ serving \in BOOLEAN
    /\ active \in Tunnels \union {NoTunnel}
    /\ stored \in [Tunnels -> Configs \union {Absent}]
    /\ links \in [Tunnels -> {"none", "down", "up"}]
    /\ linkConf \in [Tunnels -> Configs \union {Absent}]
    /\ table \in [Families -> Tunnels \union {NoTunnel}]
    /\ unremoved \subseteq rules /\ rules \subseteq AllRules
    /\ hostRoutes \subseteq Hosts
    /\ harm \subseteq {"kept", "lost"}

AtRest == serving /\ \A c \in Threads : pc[c] = "idle"

\* Without any wg- interface there are no policy rules but those that an ip
\* rule del failed to remove, unless somebody else deleted the interface.
\* cleanup_stale finds what a crash left behind by its interfaces alone, so this
\* is what makes a crash at any point of connect, disconnect or cleanup_stale
\* recoverable.
RulesNeedLink ==
    "lost" \notin harm /\ (\A t \in Tunnels : ~Exists(t)) => rules \subseteq unremoved

\* Between requests a tunnel's interface, table and rules are there entirely or
\* not at all, whatever command of connect failed and wherever the daemon
\* crashed, but for the rules that could not be removed; and a connected tunnel
\* has the host routes to its endpoints, which nothing ever removes.
RestCommitted ==
    AtRest /\ harm = {} =>
        /\ \A t \in Tunnels : links[t] = IF t = active THEN "up" ELSE "none"
        /\ \A f \in Families : table[f] = active
        /\ IF active = NoTunnel
           THEN rules \subseteq unremoved
           ELSE rules = AllRules /\ Endpoints[linkConf[active]] \subseteq hostRoutes

\* "Cannot update a connected tunnel. Disconnect first." (ipc.rs:116): what a
\* connected interface was configured with is what is stored.
ConnectedAsStored ==
    AtRest /\ active # NoTunnel /\ Exists(active) => linkConf[active] = stored[active]

\* No connect takes the VPN table away from a tunnel that holds it: a default
\* route disappears with its interface, or in a disconnect of that tunnel.  Another
\* connect gets as far when the first is not recorded yet, or ip link show fails.
TableKept ==
    [][\A f \in Families :
          table[f] # NoTunnel /\ table'[f] # table[f] =>
              \/ links'[table[f]] # "up"
              \/ \E c \in Threads : pc[c] = "cleanup" /\ tun[c] = table[f]]_vars

\* "Already connected to '{}'. Disconnect first." (ipc.rs:146): a tunnel that is
\* connected keeps its rules and routes until it is disconnected.
ConnectedIsRouted ==
    AtRest /\ active # NoTunnel /\ Exists(active) =>
        rules = AllRules /\ \A f \in Families : table[f] = active

=============================================================================
