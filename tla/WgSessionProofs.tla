-------------------------- MODULE WgSessionProofs --------------------------
(***************************************************************************)
(* Theorems about WgSession for every set of clients, tunnels and stored   *)
(* configurations.                                                         *)
(***************************************************************************)
EXTENDS WgSession, TLAPS

(***************************************************************************)
(* What the program counter of a thread says of its locals.  TypeOK is not *)
(* inductive without it: setup_routing and cleanup_routing index the list  *)
(* of commands, disconnect returns to whoever called it, and only main     *)
(* runs cleanup_stale, before the server accepts a request.                *)
(***************************************************************************)
Control(c) ==
    /\ pc[c] \in {"setup", "cleanup"} => step[c] \in 1..Len(RoutingCmds)
    /\ pc[c] \in {"endpoint", "addEndpoint"} => left[c] # {}
    /\ pc[c] \in {"check", "exists", "add", "configure", "up", "peers", "setup",
                  "endpoint", "addEndpoint", "activate"} \/ after[c] = "add"
          => conf[c] \in Configs
    /\ pc[c] \notin {"idle", "boot", "stale"} => tun[c] \in Tunnels
    /\ pc[c] \in {"find", "cleanup", "down", "del"} => after[c] # "none"
    /\ pc[c] = "idle" => after[c] = "none"
    /\ pc[c] \in {"boot", "stale"} \/ after[c] = "stale" => c = Main
    /\ pc[c] # "idle" => (serving <=> c # Main)

ControlInv == \A c \in Threads : Control(c)

TypeInv == TypeOK /\ ControlInv

(***************************************************************************)
(* Why RulesNeedLink is kept if requests do not overlap: the thread at     *)
(* work is alone, its interface exists for as long as it adds or removes   *)
(* rules unless somebody else deletes it, and cleanup_routing has removed  *)
(* the rules it has gone past, or failed to, so no other is left when it   *)
(* deletes the interface.                                                  *)
(***************************************************************************)
OneAtWork == \A b, c \in Threads : pc[b] # "idle" /\ pc[c] # "idle" => b = c

HoldsLink(c) ==
    "lost" \notin harm
    /\ pc[c] \in {"configure", "up", "peers", "setup", "endpoint", "addEndpoint",
                  "activate", "cleanup", "down", "del"} => Exists(tun[c])

CleanedUp(c) ==
    /\ pc[c] = "cleanup" =>
           \A k \in 1..(step[c] - 1) : RoutingCmds[k] \in rules => RoutingCmds[k] \in unremoved
    /\ pc[c] \in {"down", "del"} => rules \subseteq unremoved

RulesInv ==
    /\ OneAtWork
    /\ \A c \in Threads : HoldsLink(c) /\ CleanedUp(c)
    /\ RulesNeedLink

-----------------------------------------------------------------------------

\* The eight commands: two routes, and every rule once.
LEMMA Commands ==
    /\ Len(RoutingCmds) = 8
    /\ \A k \in 1..8 :
          /\ RoutingCmds[k][1] \in Families
          /\ RoutingCmds[k][2] # "route" =>
                <<RoutingCmds[k][1], RoutingCmds[k][2]>> \in AllRules
          /\ RoutingCmds[k] = <<RoutingCmds[k][1], RoutingCmds[k][2]>>
    /\ \A r \in AllRules : \E k \in 1..8 : r = RoutingCmds[k]
<1> DEFINE R == RoutingCmds
<1>1. /\ Len(R) = 8
      /\ R[1] = <<"v4", "route">> /\ R[2] = <<"v6", "route">>
      /\ R[3] = <<"v4", "wg">> /\ R[4] = <<"v6", "wg">>
      /\ R[5] = <<"v4", "fw">> /\ R[6] = <<"v6", "fw">>
      /\ R[7] = <<"v4", "sup">> /\ R[8] = <<"v6", "sup">>
  BY DEF RoutingCmds
<1>2. \A k \in 1..8 : k = 1 \/ k = 2 \/ k = 3 \/ k = 4 \/ k = 5 \/ k = 6 \/ k = 7 \/ k = 8
  OBVIOUS
<1>3. \A k \in 1..8 :
          /\ R[k][1] \in Families
          /\ R[k][2] # "route" => R[k][2] \in Kinds
          /\ R[k] = <<R[k][1], R[k][2]>>
  BY <1>1, <1>2 DEF Families, Kinds
<1>4. \A r \in AllRules : \E k \in 1..8 : r = R[k]
  BY <1>1 DEF AllRules, Families, Kinds
<1> QED
  BY <1>1, <1>3, <1>4 DEF AllRules

\* The daemon starts with no thread at work but main.
LEMMA InitTypeInv == Init => TypeInv
<1> SUFFICES ASSUME Init PROVE TypeInv
  OBVIOUS
<1>1. \A c \in Threads :
          pc[c] = (IF c = Main THEN "boot" ELSE "idle") /\ after[c] = "none"
  BY DEF Init
<1>2. ControlInv
  BY <1>1, WgConstants DEF Init, ControlInv, Control, Threads
<1>3. pc \in [Threads -> {"idle", "boot"}]
  BY DEF Init
<1>4. 0 \in 0..Len(RoutingCmds)
  BY Commands
<1> QED
  BY <1>2, <1>3, <1>4 DEF Init, TypeInv, TypeOK

\* The part of TypeOK about the locals of the threads.
ThreadTypes ==
    /\ pc \in [Threads -> {"idle", "check", "exists", "add", "configure", "up",
                           "peers", "setup", "endpoint", "addEndpoint",
                           "activate", "find", "cleanup", "down", "del",
                           "inactive", "update", "delete", "boot", "stale"}]
    /\ tun \in [Threads -> Tunnels \union {NoTunnel}]
    /\ conf \in [Threads -> Configs \union {Absent}]
    /\ step \in [Threads -> 0..Len(RoutingCmds)]
    /\ after \in [Threads -> {"none", "add", "fail", "request", "stale"}]
    /\ left \in [Threads -> SUBSET Hosts]

\* A request that is answered leaves its thread idle and its locals empty.
LEMMA ReplyTypes ==
    ASSUME TypeInv, NEW c \in Threads, Reply(c), UNCHANGED serving
    PROVE  ThreadTypes' /\ ControlInv'
  BY Commands DEF TypeInv, TypeOK, ThreadTypes, ControlInv, Control, Reply

\* disconnect returns to one of its four callers.
LEMMA ReturnsTypes ==
    ASSUME TypeInv, NEW c \in Threads, NEW ok \in BOOLEAN, Returns(c, ok),
           pc[c] \in {"find", "down", "del"}, UNCHANGED serving
    PROVE  ThreadTypes' /\ ControlInv'
<1> USE DEF TypeInv, TypeOK, ThreadTypes, ControlInv, Control
<1>1. after[c] \in {"add", "fail", "request", "stale"}
  OBVIOUS
<1>2. CASE after[c] = "add"
  <2>1. /\ pc' = [pc EXCEPT ![c] = "add"]
        /\ after' = [after EXCEPT ![c] = "none"]
        /\ UNCHANGED <<tun, conf, step, left>>
    BY <1>2 DEF Returns
  <2> QED
    BY <1>2, <2>1
<1>3. CASE after[c] = "fail"
  <2>1. Reply(c)
    BY <1>3 DEF Returns
  <2> QED
    BY <2>1, ReplyTypes
<1>4. CASE after[c] = "request"
  <2>1. Goto(c, "inactive") \/ Reply(c)
    BY <1>4 DEF Returns
  <2>2. CASE Goto(c, "inactive")
    <3>1. ThreadTypes'
      BY <2>2 DEF Goto
    <3>2. ControlInv'
      BY <1>4, <2>2 DEF Goto
    <3> QED
      BY <3>1, <3>2
  <2> QED
    BY <2>1, <2>2, ReplyTypes
<1>5. CASE after[c] = "stale"
  <2>1. /\ pc' = [pc EXCEPT ![c] = "stale"]
        /\ after' = [after EXCEPT ![c] = "none"]
        /\ tun' = [tun EXCEPT ![c] = NoTunnel]
        /\ UNCHANGED <<conf, step, left>>
    BY <1>5 DEF Returns
  <2> QED
    BY <1>5, <2>1
<1> QED
  BY <1>1, <1>2, <1>3, <1>4, <1>5

\* Where a caller of disconnect goes on.
LEMMA ReturnsWhere ==
    ASSUME TypeInv, NEW c \in Threads, NEW ok \in BOOLEAN, Returns(c, ok),
           after[c] # "none"
    PROVE  pc'[c] \in {"add", "idle", "inactive", "stale"}
<1>1. after[c] \in {"add", "fail", "request", "stale"} /\ DOMAIN pc = Threads
  BY DEF TypeInv, TypeOK
<1>2. \E to \in {"add", "idle", "inactive", "stale"} : pc' = [pc EXCEPT ![c] = to]
  BY <1>1 DEF Returns, Reply, Goto
<1> QED
  BY <1>1, <1>2

\* A routing table stays one when an interface loses its routes.
LEMMA WithoutRoutesType ==
    ASSUME TypeOK, NEW t
    PROVE  WithoutRoutes(t) \in [Families -> Tunnels \union {NoTunnel}]
  BY DEF TypeOK, WithoutRoutes

\* A failure to remove an interface is one of those considered.
LEMMA CannotRemoveType ==
    ASSUME TypeOK, NEW t, CannotRemove(t)
    PROVE  harm' \subseteq {"kept", "lost"}
  BY DEF TypeOK, CannotRemove, Leaves

\* What interface_exists says, and what that does to harm.
LEMMA SeesType ==
    ASSUME TypeOK, NEW t, NEW there \in BOOLEAN, Sees(t, there)
    PROVE  harm' \subseteq {"kept", "lost"}
  BY DEF TypeOK, Sees, Leaves

\* The endpoint that comes next is one that is left.
LEMMA NextIsLeft ==
    ASSUME NEW c, left[c] # {}
    PROVE  NextEndpoint(c) \in left[c]
  BY DEF NextEndpoint

\* The part of TypeOK about everything else.
SharedTypes ==
    /\ stale \subseteq Tunnels
    /\ serving \in BOOLEAN
    /\ active \in Tunnels \union {NoTunnel}
    /\ stored \in [Tunnels -> Configs \union {Absent}]
    /\ links \in [Tunnels -> {"none", "down", "up"}]
    /\ linkConf \in [Tunnels -> Configs \union {Absent}]
    /\ table \in [Families -> Tunnels \union {NoTunnel}]
    /\ unremoved \subseteq rules /\ rules \subseteq AllRules
    /\ hostRoutes \subseteq Hosts
    /\ harm \subseteq {"kept", "lost"}

\* A step changes the locals of one thread.
OnlyLocals(c) ==
    \A b \in Threads \ {c} :
        /\ pc'[b] = pc[b] /\ tun'[b] = tun[b] /\ conf'[b] = conf[b]
        /\ step'[b] = step[b] /\ after'[b] = after[b] /\ left'[b] = left[b]

LEMMA ThreadStepTypes ==
    ASSUME TypeInv, NEW c \in Threads, OnlyLocals(c), UNCHANGED serving,
           ThreadTypes', Control(c)', SharedTypes'
    PROVE  TypeInv'
<1>1. ControlInv'
  BY DEF TypeInv, ControlInv, Control, OnlyLocals
<1>2. TypeOK'
  BY DEF TypeOK, ThreadTypes, SharedTypes
<1> QED
  BY <1>1, <1>2 DEF TypeInv

\* A thread that goes on to another step of the same request.
LEMMA GotoTypes ==
    ASSUME TypeInv, NEW c \in Threads, NEW to, Goto(c, to),
           to \in {"exists", "add", "configure", "up", "peers", "addEndpoint", "inactive"},
           pc[c] \in {"check", "exists", "add", "configure", "up", "endpoint"},
           to = "addEndpoint" => pc[c] = "endpoint",
           UNCHANGED serving
    PROVE  OnlyLocals(c) /\ ThreadTypes' /\ Control(c)'
<1> USE DEF TypeInv, TypeOK, ControlInv, Goto
<1>1. OnlyLocals(c) /\ ThreadTypes'
  BY DEF OnlyLocals, ThreadTypes
<1>2. Control(c)'
  BY DEF Control
<1> QED
  BY <1>1, <1>2

\* A command of connect_inner that fails.
LEMMA FailTypes ==
    ASSUME TypeInv, NEW c \in Threads, NEW from \in {"add", "fail"}, CallDisconnect(c, from),
           pc[c] \in {"exists", "add", "configure", "up", "peers", "setup", "endpoint",
                      "addEndpoint"},
           UNCHANGED serving
    PROVE  OnlyLocals(c) /\ ThreadTypes' /\ Control(c)'
<1> USE DEF TypeInv, TypeOK, ControlInv, CallDisconnect
<1>1. OnlyLocals(c) /\ ThreadTypes'
  BY DEF OnlyLocals, ThreadTypes
<1>2. Control(c)'
  BY DEF Control
<1> QED
  BY <1>1, <1>2

\* Every step keeps the type of the state and the control of its thread.
LEMMA NextTypeInv == TypeInv /\ [Next]_vars => TypeInv'
<1> SUFFICES ASSUME TypeInv, [Next]_vars PROVE TypeInv'
  OBVIOUS
<1> USE WgConstants, Commands
    DEF TypeInv, TypeOK, ControlInv, Control, Threads, locals, kernel, routing
<1>1. ASSUME NEW c \in Clients, NEW t \in Tunnels, ConnectTunnel(c, t) PROVE TypeInv'
  BY <1>1 DEF ConnectTunnel, Begin
<1>2. ASSUME NEW c \in Clients, DisconnectTunnel(c) PROVE TypeInv'
  BY <1>2 DEF DisconnectTunnel
<1>3. ASSUME NEW c \in Clients, NEW t \in Tunnels, NEW v \in Configs, UpdateTunnel(c, t, v)
      PROVE  TypeInv'
  BY <1>3 DEF UpdateTunnel, Begin
<1>4. ASSUME NEW c \in Clients, NEW t \in Tunnels, DeleteTunnel(c, t) PROVE TypeInv'
  <2>1. OnlyLocals(c) /\ ThreadTypes'
    BY <1>4 DEF DeleteTunnel, Begin, OnlyLocals, ThreadTypes
  <2>2. Control(c)'
    BY <1>4 DEF DeleteTunnel, Begin
  <2>3. SharedTypes' /\ UNCHANGED serving
    BY <1>4 DEF DeleteTunnel, SharedTypes
  <2> QED
    BY <2>1, <2>2, <2>3, ThreadStepTypes
<1>5. ASSUME NEW c \in Clients, NEW t \in Tunnels, NEW v \in Configs, AddTunnel(c, t, v)
      PROVE  TypeInv'
  BY <1>5 DEF AddTunnel
<1>6. ASSUME NEW c \in Threads, WriteStore(c) PROVE TypeInv'
  BY <1>6 DEF WriteStore, Reply
<1>7. ASSUME NEW c \in Threads, CheckActive(c) PROVE TypeInv'
  <2>a. pc[c] = "check" /\ UNCHANGED <<stale, serving, stored, links, linkConf, routing>>
    BY <1>7 DEF CheckActive
  <2>b. active' = active \/ active' = NoTunnel
    BY <1>7 DEF CheckActive
  <2>c. harm' \subseteq {"kept", "lost"}
    BY <1>7 DEF CheckActive, Sees, Leaves
  <2>1. pc[c] = "check" /\ SharedTypes' /\ UNCHANGED serving
    BY <2>a, <2>b, <2>c DEF SharedTypes
  <2>2. CASE Goto(c, "exists")
    BY <2>1, <2>2, GotoTypes, ThreadStepTypes
  <2>3. CASE Reply(c)
    BY <2>1, <2>3, ReplyTypes DEF ThreadTypes, SharedTypes
  <2> QED
    BY <1>7, <2>2, <2>3 DEF CheckActive
<1>8. ASSUME NEW c \in Threads, CheckExisting(c) PROVE TypeInv'
  <2>1. pc[c] = "exists" /\ SharedTypes' /\ UNCHANGED serving
    BY <1>8, SeesType DEF CheckExisting, SharedTypes
  <2>2. OnlyLocals(c) /\ ThreadTypes' /\ Control(c)'
    BY <1>8, <2>1, GotoTypes, FailTypes DEF CheckExisting
  <2> QED
    BY <2>1, <2>2, ThreadStepTypes
<1>9. ASSUME NEW c \in Threads, AddLink(c) PROVE TypeInv'
  <2>1. pc[c] = "add" /\ SharedTypes' /\ UNCHANGED serving
    BY <1>9 DEF AddLink, Command, SharedTypes
  <2>2. Goto(c, "configure") \/ CallDisconnect(c, "fail")
    BY <1>9 DEF AddLink, Command
  <2> QED
    BY <2>1, <2>2, GotoTypes, FailTypes, ThreadStepTypes
<1>10. ASSUME NEW c \in Threads, ConfigureLink(c) PROVE TypeInv'
  <2>1. pc[c] = "configure" /\ SharedTypes' /\ UNCHANGED serving
    BY <1>10 DEF ConfigureLink, Command, SharedTypes
  <2>2. Goto(c, "up") \/ CallDisconnect(c, "fail")
    BY <1>10 DEF ConfigureLink, Command
  <2> QED
    BY <2>1, <2>2, GotoTypes, FailTypes, ThreadStepTypes
<1>11. ASSUME NEW c \in Threads, LinkUp(c) PROVE TypeInv'
  <2>1. pc[c] = "up" /\ SharedTypes' /\ UNCHANGED serving
    BY <1>11 DEF LinkUp, Command, SharedTypes
  <2>2. Goto(c, "peers") \/ CallDisconnect(c, "fail")
    BY <1>11 DEF LinkUp, Command
  <2> QED
    BY <2>1, <2>2, GotoTypes, FailTypes, ThreadStepTypes
<1>12. ASSUME NEW c \in Threads, SetPeers(c) PROVE TypeInv'
  <2>1. pc[c] = "peers" /\ SharedTypes' /\ UNCHANGED serving
    BY <1>12 DEF SetPeers, Command, SharedTypes
  <2>2. CASE /\ pc' = [pc EXCEPT ![c] = "setup"] /\ step' = [step EXCEPT ![c] = 1]
             /\ UNCHANGED <<tun, conf, after, left>>
    <3>1. OnlyLocals(c) /\ ThreadTypes'
      BY <2>2 DEF OnlyLocals, ThreadTypes
    <3>2. Control(c)'
      BY <2>1, <2>2
    <3> QED
      BY <2>1, <3>1, <3>2, ThreadStepTypes
  <2>3. CASE CallDisconnect(c, "fail")
    BY <2>1, <2>3, FailTypes, ThreadStepTypes
  <2> QED
    BY <1>12, <2>2, <2>3 DEF SetPeers, Command
<1>13. ASSUME NEW c \in Threads, SetupRouting(c) PROVE TypeInv'
  <2>1. /\ pc[c] = "setup" /\ UNCHANGED serving /\ step[c] \in 1..8
        /\ Endpoints[conf[c]] \in SUBSET Hosts
    BY <1>13 DEF SetupRouting, Command
  <2>2. CASE CallDisconnect(c, "fail") /\ UNCHANGED kernel
    <3>1. SharedTypes'
      BY <1>13, <2>2 DEF SetupRouting, Command, SharedTypes
    <3> QED
      BY <2>1, <2>2, <3>1, FailTypes, ThreadStepTypes
  <2>3. CASE /\ AddRouting(RoutingCmds[step[c]][1], RoutingCmds[step[c]][2], tun[c])
             /\ IF step[c] < 8
                THEN /\ step' = [step EXCEPT ![c] = @ + 1]
                     /\ UNCHANGED <<pc, left>>
                ELSE /\ step' = [step EXCEPT ![c] = 0]
                     /\ Reach(c, Endpoints[conf[c]])
             /\ UNCHANGED <<tun, conf, after, links, linkConf, hostRoutes, unremoved, harm>>
    <3>1. SharedTypes'
      BY <1>13, <2>1, <2>3 DEF SetupRouting, Command, AddRouting, SharedTypes
    <3>2. OnlyLocals(c) /\ ThreadTypes'
      BY <2>1, <2>3 DEF Reach, OnlyLocals, ThreadTypes
    <3>3. Control(c)'
      BY <2>1, <2>3 DEF Reach
    <3> QED
      BY <2>1, <3>1, <3>2, <3>3, ThreadStepTypes
  <2> QED
    BY <1>13, <2>2, <2>3 DEF SetupRouting, Command
<1>14. ASSUME NEW c \in Threads, DelEndpointRoute(c) PROVE TypeInv'
  <2>1. pc[c] = "endpoint" /\ SharedTypes' /\ UNCHANGED serving
    BY <1>14 DEF DelEndpointRoute, Command, SharedTypes
  <2>2. Goto(c, "addEndpoint") \/ CallDisconnect(c, "fail")
    BY <1>14 DEF DelEndpointRoute, Command
  <2> QED
    BY <2>1, <2>2, GotoTypes, FailTypes, ThreadStepTypes
<1>14a. ASSUME NEW c \in Threads, AddEndpointRoute(c) PROVE TypeInv'
  <2>1. pc[c] = "addEndpoint" /\ NextEndpoint(c) \in Hosts /\ UNCHANGED serving
    BY <1>14a, NextIsLeft DEF AddEndpointRoute, Command
  <2>2. SharedTypes'
    BY <1>14a, <2>1 DEF AddEndpointRoute, Command, SharedTypes
  <2>3. CASE Reach(c, left[c] \ {NextEndpoint(c)}) /\ UNCHANGED <<tun, conf, step, after>>
    <3>1. OnlyLocals(c) /\ ThreadTypes'
      BY <2>3 DEF Reach, OnlyLocals, ThreadTypes
    <3>2. Control(c)'
      BY <2>1, <2>3 DEF Reach
    <3> QED
      BY <2>1, <2>2, <3>1, <3>2, ThreadStepTypes
  <2>4. CASE CallDisconnect(c, "fail")
    BY <2>1, <2>2, <2>4, FailTypes, ThreadStepTypes
  <2> QED
    BY <1>14a, <2>3, <2>4 DEF AddEndpointRoute, Command
<1>15. ASSUME NEW c \in Threads, Activate(c) PROVE TypeInv'
  BY <1>15 DEF Activate, Reply
<1>16. ASSUME NEW c \in Threads, FindLink(c) PROVE TypeInv'
  <2>1. harm' \subseteq {"kept", "lost"}
    BY <1>16, SeesType DEF FindLink
  <2>2. CASE /\ pc' = [pc EXCEPT ![c] = "cleanup"]
             /\ step' = [step EXCEPT ![c] = 1]
             /\ UNCHANGED <<tun, conf, after, left>>
    BY <1>16, <2>1, <2>2 DEF FindLink
  <2>3. CASE Returns(c, TRUE)
    BY <1>16, <2>1, <2>3, ReturnsTypes DEF FindLink, ThreadTypes
  <2> QED
    BY <1>16, <2>2, <2>3 DEF FindLink
<1>17. ASSUME NEW c \in Threads, CleanupRouting(c) PROVE TypeInv'
  BY <1>17 DEF CleanupRouting, NextCleanup
<1>18. ASSUME NEW c \in Threads, LinkDown(c) PROVE TypeInv'
  <2>1. /\ links' = [links EXCEPT ![tun[c]] = "down"] \/ UNCHANGED links
        /\ table' = WithoutRoutes(tun[c]) \/ UNCHANGED table
        /\ UNCHANGED <<linkConf, rules, hostRoutes, unremoved, stale, serving,
                       active, stored>>
    BY <1>18 DEF LinkDown
  <2>2. harm' \subseteq {"kept", "lost"}
    <3>1. harm' = harm \/ CannotRemove(tun[c])
      BY <1>18 DEF LinkDown
    <3> QED
      BY <3>1, CannotRemoveType
  <2>3. Goto(c, "del") \/ Returns(c, FALSE)
    BY <1>18 DEF LinkDown
  <2>4. pc[c] = "down"
    BY <1>18 DEF LinkDown
  <2>5. CASE Goto(c, "del")
    <3>1. ThreadTypes' /\ ControlInv'
      BY <2>1, <2>4, <2>5 DEF Goto, ThreadTypes
    <3> QED
      BY <2>1, <2>2, <3>1, WithoutRoutesType DEF ThreadTypes
  <2>6. CASE Returns(c, FALSE)
    <3>1. ThreadTypes' /\ ControlInv'
      BY <2>1, <2>4, <2>6, ReturnsTypes
    <3> QED
      BY <2>1, <2>2, <3>1, WithoutRoutesType DEF ThreadTypes
  <2> QED
    BY <2>3, <2>5, <2>6
<1>19. ASSUME NEW c \in Threads, LinkDel(c) PROVE TypeInv'
  <2>1. /\ links' = [links EXCEPT ![tun[c]] = "none"] \/ UNCHANGED links
        /\ linkConf' = [linkConf EXCEPT ![tun[c]] = Absent] \/ UNCHANGED linkConf
        /\ table' = WithoutRoutes(tun[c]) \/ UNCHANGED table
        /\ UNCHANGED <<rules, hostRoutes, unremoved, stale, serving, active, stored>>
    BY <1>19 DEF LinkDel
  <2>2. harm' \subseteq {"kept", "lost"}
    <3>1. harm' = harm \/ CannotRemove(tun[c])
      BY <1>19 DEF LinkDel
    <3> QED
      BY <3>1, CannotRemoveType
  <2>3. pc[c] = "del" /\ \E ok \in BOOLEAN : Returns(c, ok)
    BY <1>19 DEF LinkDel
  <2>4. ThreadTypes' /\ ControlInv'
    BY <2>1, <2>3, ReturnsTypes
  <2> QED
    BY <2>1, <2>2, <2>4, WithoutRoutesType DEF ThreadTypes
<1>20. ASSUME NEW c \in Threads, Deactivate(c) PROVE TypeInv'
  BY <1>20 DEF Deactivate, Reply
<1>21. ASSUME NEW c \in Threads, ListStale(c) PROVE TypeInv'
  BY <1>21 DEF ListStale, Goto, Leaves
<1>22. ASSUME NEW c \in Threads, CleanupStale(c) PROVE TypeInv'
  <2>1. c = Main /\ ~serving
    BY <1>22 DEF CleanupStale
  <2>2. CASE stale = {} /\ serving' = TRUE /\ Reply(c) /\ UNCHANGED stale
    BY <1>22, <2>1, <2>2 DEF CleanupStale, Reply
  <2>3. CASE \E t \in stale :
               /\ stale' = stale \ {t}
               /\ tun' = [tun EXCEPT ![c] = t]
               /\ pc' = [pc EXCEPT ![c] = "find"]
               /\ after' = [after EXCEPT ![c] = "stale"]
               /\ UNCHANGED <<conf, step, left, serving>>
    BY <1>22, <2>1, <2>3 DEF CleanupStale
  <2> QED
    BY <1>22, <2>2, <2>3 DEF CleanupStale
<1>23. ASSUME Crash PROVE TypeInv'
  <2>1. /\ \A c \in Threads :
               pc'[c] = (IF c = Main THEN "boot" ELSE "idle") /\ after'[c] = "none"
        /\ ~serving'
    BY <1>23 DEF Crash
  <2>2. ControlInv'
    BY <2>1
  <2>3. ThreadTypes'
    BY <1>23 DEF Crash, ThreadTypes
  <2> QED
    BY <1>23, <2>2, <2>3 DEF Crash, ThreadTypes
<1>24. ASSUME NEW t \in Tunnels, LinkLost(t) PROVE TypeInv'
  BY <1>24 DEF LinkLost, WithoutRoutes
<1>25. CASE UNCHANGED vars
  BY <1>25 DEF vars
<1> QED
  BY <1>1, <1>2, <1>3, <1>4, <1>5, <1>6, <1>7, <1>8, <1>9, <1>10, <1>11, <1>12,
     <1>13, <1>14, <1>14a, <1>15, <1>16, <1>17, <1>18, <1>19, <1>20, <1>21, <1>22, <1>23,
     <1>24, <1>25
  DEF Next, Request, Work

\* Every reachable state is well-typed, and in every one of them the commands
\* of connect, disconnect and cleanup_stale have the interface, the index and
\* the caller they rely on.
THEOREM TypeCorrect == Spec => []TypeOK
<1>1. Init => TypeInv
  BY InitTypeInv
<1>2. TypeInv /\ [Next]_vars => TypeInv'
  BY NextTypeInv
<1>3. TypeInv => TypeOK
  BY DEF TypeInv
<1> QED
  BY <1>1, <1>2, <1>3, PTL DEF Spec

-----------------------------------------------------------------------------

\* What TableKept says of one step.
KeepsTable ==
    \A f \in Families :
        table[f] # NoTunnel /\ table'[f] # table[f] =>
            \/ links'[table[f]] # "up"
            \/ \E c \in Threads : pc[c] = "cleanup" /\ tun[c] = table[f]

\* An interface that goes down, is deleted or is lost takes only its own routes.
LEMMA LosingALinkKeepsTable ==
    ASSUME TypeInv, NEW t \in Tunnels, table' = WithoutRoutes(t), links'[t] # "up"
    PROVE  KeepsTable
  BY DEF KeepsTable, WithoutRoutes

\* The induction step of TableAlwaysKept.
LEMMA NextKeepsTable == TypeInv /\ [Next]_vars => KeepsTable
<1> SUFFICES ASSUME TypeInv, [Next]_vars PROVE KeepsTable
  OBVIOUS
<1>1. CASE UNCHANGED table
  BY <1>1 DEF KeepsTable
<1>2. ASSUME NEW c \in Threads, SetupRouting(c) PROVE KeepsTable
  <2> DEFINE f == RoutingCmds[step[c]][1]
             what == RoutingCmds[step[c]][2]
  <2>1. \/ UNCHANGED table
        \/ CanAdd(f, what, tun[c]) /\ AddRouting(f, what, tun[c])
    BY <1>2 DEF SetupRouting, Command, kernel, routing
  <2>2. \/ UNCHANGED table
        \/ table[f] = NoTunnel /\ table' = [table EXCEPT ![f] = tun[c]]
    BY <2>1 DEF CanAdd, AddRouting
  <2> QED
    BY <2>2 DEF KeepsTable, TypeInv, TypeOK
<1>3. ASSUME NEW c \in Threads, CleanupRouting(c) PROVE KeepsTable
  <2> DEFINE f == RoutingCmds[step[c]][1]
  <2>1. pc[c] = "cleanup" /\ \A g \in Families : table'[g] = table[g] \/ table[g] = tun[c]
    BY <1>3 DEF CleanupRouting, TypeInv, TypeOK
  <2> QED
    BY <2>1 DEF KeepsTable
<1>4. ASSUME NEW c \in Threads, LinkDown(c) \/ LinkDel(c) PROVE KeepsTable
  <2>1. tun[c] \in Tunnels
    BY <1>4 DEF LinkDown, LinkDel, TypeInv, ControlInv, Control
  <2>2. UNCHANGED table \/ (table' = WithoutRoutes(tun[c]) /\ links'[tun[c]] # "up")
    BY <1>4, <2>1 DEF LinkDown, LinkDel, TypeInv, TypeOK
  <2> QED
    BY <1>1, <2>1, <2>2, LosingALinkKeepsTable
<1>5. ASSUME NEW t \in Tunnels, LinkLost(t) PROVE KeepsTable
  <2>1. table' = WithoutRoutes(t) /\ links'[t] # "up"
    BY <1>5 DEF LinkLost, TypeInv, TypeOK
  <2> QED
    BY <2>1, LosingALinkKeepsTable
<1>6. ASSUME NEW c \in Clients, Request(c) PROVE UNCHANGED table
  BY <1>6 DEF Request, ConnectTunnel, DisconnectTunnel, UpdateTunnel, DeleteTunnel,
     AddTunnel, kernel, routing
<1>7. ASSUME NEW c \in Threads,
             \/ WriteStore(c) \/ CheckActive(c) \/ CheckExisting(c) \/ AddLink(c)
             \/ ConfigureLink(c) \/ LinkUp(c) \/ SetPeers(c) \/ DelEndpointRoute(c)
             \/ AddEndpointRoute(c) \/ Activate(c) \/ FindLink(c) \/ Deactivate(c)
             \/ ListStale(c) \/ CleanupStale(c)
      PROVE  UNCHANGED table
  BY <1>7 DEF WriteStore, CheckActive, CheckExisting, AddLink, ConfigureLink, LinkUp,
     SetPeers, DelEndpointRoute, AddEndpointRoute, Activate, FindLink, Deactivate,
     ListStale, CleanupStale, Command, kernel, routing
<1>8. CASE Crash \/ UNCHANGED vars
  <2>1. UNCHANGED table
    BY <1>8 DEF Crash, vars, kernel, routing
  <2> QED
    BY <1>1, <2>1
<1> QED
  BY <1>1, <1>2, <1>3, <1>4, <1>5, <1>6, <1>7, <1>8 DEF Next, Work

\* A default route of the VPN table disappears only with its interface or in a
\* disconnect of its tunnel, with any number of clients at once: route add
\* refuses a route that is there (setup_routing), and cleanup_routing names the
\* interface of the tunnel it is called for.
THEOREM TableAlwaysKept == Spec => TableKept
<1>1. TypeInv /\ [Next]_vars => [KeepsTable]_vars
  BY NextKeepsTable
<1> QED
  BY <1>1, InitTypeInv, NextTypeInv, PTL DEF Spec, TableKept, KeepsTable

-----------------------------------------------------------------------------

\* Requests that do not overlap: nobody sends one while another is served.
\* Failures, crashes and lost interfaces come when they like.
SerialStep == \A c \in Clients : Request(c) => AtRest
OneAtATime == [][SerialStep]_vars

\* A single client sends one request at a time: the runs with one client are
\* instances of what follows.
LEMMA OneClientIsSerial == ASSUME \A b, c \in Clients : b = c PROVE Spec => OneAtATime
<1>1. TypeInv /\ [Next]_vars => [SerialStep]_vars
  <2> SUFFICES ASSUME TypeInv, NEW c \in Clients, Request(c) PROVE AtRest
    BY DEF SerialStep
  <2>1. serving /\ pc[c] = "idle"
    BY DEF Request, ConnectTunnel, DisconnectTunnel, UpdateTunnel, DeleteTunnel,
       AddTunnel, Begin
  <2> QED
    BY <2>1 DEF AtRest, Threads, TypeInv, ControlInv, Control
<1> QED
  BY <1>1, InitTypeInv, NextTypeInv, PTL DEF Spec, OneAtATime

\* A step is one thread's, and the thread that takes it is alone at work.
LEMMA StepOfOne ==
    ASSUME SerialStep, TypeInv, OneAtWork, NEW c \in Threads,
           Work(c) \/ (c \in Clients /\ Request(c))
    PROVE  \A b \in Threads \ {c} : pc[b] = "idle" /\ pc'[b] = "idle"
<1>1. \A b \in Threads \ {c} : pc[b] = "idle"
  <2>1. CASE Work(c)
    <3>1. pc[c] # "idle"
      BY <2>1 DEF Work, WriteStore, CheckActive, CheckExisting, AddLink, ConfigureLink,
         LinkUp, SetPeers, SetupRouting, DelEndpointRoute, AddEndpointRoute, Activate,
         FindLink, CleanupRouting, LinkDown, LinkDel, Deactivate, ListStale,
         CleanupStale
    <3> QED
      BY <3>1 DEF OneAtWork
  <2>2. CASE c \in Clients /\ Request(c)
    BY <2>2 DEF SerialStep, AtRest
  <2> QED
    BY <2>1, <2>2
<1>2. \A b \in Threads \ {c} : pc'[b] = pc[b]
  <2> USE DEF TypeInv, TypeOK
  <2>1. CASE c \in Clients /\ Request(c)
    BY <2>1 DEF Request, ConnectTunnel, DisconnectTunnel, UpdateTunnel, DeleteTunnel,
       AddTunnel, Begin, locals
  <2>2. CASE \/ WriteStore(c) \/ CheckActive(c) \/ CheckExisting(c) \/ Activate(c)
             \/ Deactivate(c) \/ CleanupRouting(c) \/ ListStale(c) \/ CleanupStale(c)
    BY <2>2 DEF WriteStore, CheckActive, CheckExisting, Activate, Deactivate,
       CleanupRouting, ListStale, CleanupStale, Reply, Goto, CallDisconnect, NextCleanup
  <2>3. CASE \/ AddLink(c) \/ ConfigureLink(c) \/ LinkUp(c) \/ SetPeers(c)
             \/ SetupRouting(c) \/ DelEndpointRoute(c) \/ AddEndpointRoute(c)
    BY <2>3 DEF AddLink, ConfigureLink, LinkUp, SetPeers, SetupRouting,
       DelEndpointRoute, AddEndpointRoute, Command, CallDisconnect, Goto, Reach
  <2>4. CASE FindLink(c) \/ LinkDown(c) \/ LinkDel(c)
    <3>1. pc[c] \in {"find", "down", "del"}
      BY <2>4 DEF FindLink, LinkDown, LinkDel
    <3>2. after[c] \in {"add", "fail", "request", "stale"}
      BY <3>1 DEF ControlInv, Control
    <3>3. ASSUME NEW ok \in BOOLEAN, Returns(c, ok)
          PROVE  \A b \in Threads \ {c} : pc'[b] = pc[b]
      BY <3>2, <3>3 DEF Returns, Reply, Goto
    <3> QED
      BY <2>4, <3>3 DEF FindLink, LinkDown, LinkDel, Goto
  <2> QED
    BY <2>1, <2>2, <2>3, <2>4 DEF Work
<1> QED
  BY <1>1, <1>2

\* cleanup_routing goes through every rule, so none is left at its end but those
\* it failed to remove.
LEMMA CleanupGoesOn ==
    ASSUME TypeInv, NEW c \in Threads, CleanedUp(c), CleanupRouting(c)
    PROVE  CleanedUp(c)'
<1> USE Commands DEF TypeInv, TypeOK, ControlInv, Control
<1> DEFINE Gone(k) == RoutingCmds[k] \in rules => RoutingCmds[k] \in unremoved
<1>1. /\ pc[c] = "cleanup" /\ step[c] \in 1..8
      /\ \/ /\ rules' = rules \ {RoutingCmds[step[c]]}
            /\ unremoved' = unremoved \ {RoutingCmds[step[c]]}
         \/ /\ rules' = rules
            /\ unremoved' = unremoved \union ({RoutingCmds[step[c]]} \intersect rules)
  BY DEF CleanupRouting
<1>2. \A k \in 1..(step[c] - 1) : Gone(k)
  BY <1>1 DEF CleanedUp
<1>3. \A k \in 1..step[c] : Gone(k)'
  <2>1. ASSUME NEW k, k = step[c] PROVE Gone(k)'
    BY <1>1, <2>1
  <2>2. \A k \in 1..(step[c] - 1) : Gone(k)'
    BY <1>1, <1>2
  <2>3. \A k \in 1..step[c] : k = step[c] \/ k \in 1..(step[c] - 1)
    BY <1>1
  <2> QED
    BY <1>1, <2>1, <2>2, <2>3
<1>4. CASE step[c] = 8
  <2>1. rules' \subseteq unremoved'
    <3>1. rules' \subseteq AllRules
      BY <1>1
    <3> QED
      BY <1>3, <1>4, <3>1
  <2>2. pc'[c] = "down"
    BY <1>1, <1>4 DEF CleanupRouting, NextCleanup
  <2> QED
    BY <2>1, <2>2 DEF CleanedUp
<1>5. CASE step[c] # 8
  <2>1. pc'[c] = "cleanup" /\ step'[c] = step[c] + 1
    BY <1>1, <1>5 DEF CleanupRouting, NextCleanup
  <2> QED
    BY <1>1, <1>3, <2>1 DEF CleanedUp
<1> QED
  BY <1>4, <1>5

\* What a step of thread c does to its interface and to the rules.
LEMMA ThreadKeepsRules ==
    ASSUME TypeInv, NEW c \in Threads, HoldsLink(c), CleanedUp(c), RulesNeedLink,
           Work(c) \/ (c \in Clients /\ Request(c))
    PROVE  HoldsLink(c)' /\ CleanedUp(c)' /\ RulesNeedLink'
<1> USE WgConstants, Commands
    DEF TypeInv, TypeOK, ControlInv, Control, RulesNeedLink, HoldsLink, Exists, kernel,
        routing
<1>1. CASE c \in Clients /\ Request(c)
  <2>1. pc'[c] \in {"idle", "check", "find", "update", "delete"} /\ UNCHANGED kernel
    BY <1>1 DEF Request, ConnectTunnel, DisconnectTunnel, UpdateTunnel, DeleteTunnel,
       AddTunnel, Begin, locals
  <2> QED
    BY <2>1 DEF CleanedUp
<1>2. CASE \/ WriteStore(c) \/ CheckActive(c) \/ CheckExisting(c) \/ Activate(c)
           \/ Deactivate(c) \/ ListStale(c) \/ CleanupStale(c)
  <2>1. pc'[c] \in {"idle", "exists", "find", "add", "stale"}
    BY <1>2 DEF WriteStore, CheckActive, CheckExisting, Activate, Deactivate,
       ListStale, CleanupStale, Reply, Goto, CallDisconnect
  <2>2. UNCHANGED <<links, rules, unremoved>> /\ harm \subseteq harm'
    BY <1>2 DEF WriteStore, CheckActive, CheckExisting, Activate, Deactivate,
       ListStale, CleanupStale, Sees, Leaves
  <2> QED
    BY <2>1, <2>2 DEF CleanedUp
<1>3. CASE \/ AddLink(c) \/ ConfigureLink(c) \/ LinkUp(c) \/ SetPeers(c)
           \/ SetupRouting(c) \/ DelEndpointRoute(c) \/ AddEndpointRoute(c)
  <2>1. pc[c] \in {"add", "configure", "up", "peers", "setup", "endpoint", "addEndpoint"}
    BY <1>3 DEF AddLink, ConfigureLink, LinkUp, SetPeers, SetupRouting,
       DelEndpointRoute, AddEndpointRoute
  <2>2. tun[c] \in Tunnels /\ tun'[c] = tun[c]
    BY <1>3, <2>1 DEF AddLink, ConfigureLink, LinkUp, SetPeers, SetupRouting,
       DelEndpointRoute, AddEndpointRoute, Command, CallDisconnect, Goto, Reach
  <2>3. pc'[c] \in {"find", "configure", "up", "peers", "setup", "endpoint",
                    "addEndpoint", "activate"}
    BY <1>3, <2>1 DEF AddLink, ConfigureLink, LinkUp, SetPeers, SetupRouting,
       DelEndpointRoute, AddEndpointRoute, Command, CallDisconnect, Goto, Reach
  <2>4. \/ pc'[c] = "find" /\ UNCHANGED kernel
        \/ /\ "lost" \notin harm => links'[tun[c]] # "none"
           /\ \A t \in Tunnels : links[t] # "none" => links'[t] # "none"
           /\ UNCHANGED harm
    BY <1>3, <2>1, <2>2 DEF AddLink, ConfigureLink, LinkUp, SetPeers, SetupRouting,
       DelEndpointRoute, AddEndpointRoute, Command, CallDisconnect, Goto, Reach
  <2> QED
    BY <1>3, <2>2, <2>3, <2>4 DEF CleanedUp
<1>4. CASE FindLink(c)
  <2>1. UNCHANGED <<links, rules, unremoved>> /\ harm \subseteq harm'
    BY <1>4 DEF FindLink, Sees, Leaves
  <2>2. CASE /\ Exists(tun[c])
             /\ pc' = [pc EXCEPT ![c] = "cleanup"]
             /\ step' = [step EXCEPT ![c] = 1]
             /\ UNCHANGED <<tun, conf, after, left>>
    <3>1. pc'[c] = "cleanup" /\ step'[c] = 1 /\ tun'[c] = tun[c]
      BY <2>2
    <3> QED
      BY <2>1, <2>2, <3>1 DEF CleanedUp
  <2>3. CASE Returns(c, TRUE)
    <3>1. pc'[c] \in {"add", "idle", "inactive", "stale"}
      BY <1>4, <2>3, ReturnsWhere DEF FindLink
    <3> QED
      BY <2>1, <3>1 DEF CleanedUp
  <2> QED
    BY <1>4, <2>2, <2>3 DEF FindLink, Sees
<1>5. CASE CleanupRouting(c)
  <2>1. /\ pc'[c] \in {"cleanup", "down"} /\ pc[c] = "cleanup"
        /\ UNCHANGED <<tun, links, harm>>
    BY <1>5 DEF CleanupRouting, NextCleanup
  <2>2. rules \subseteq unremoved => rules' \subseteq unremoved'
    BY <1>5 DEF CleanupRouting
  <2> QED
    BY <1>5, <2>1, <2>2, CleanupGoesOn
<1>6. CASE LinkDown(c) \/ LinkDel(c)
  <2>1. rules \subseteq unremoved /\ rules' \subseteq unremoved' /\ harm \subseteq harm'
    BY <1>6 DEF LinkDown, LinkDel, CleanedUp, CannotRemove, Leaves
  <2>2. CASE LinkDown(c) /\ Goto(c, "del")
    <3>1. /\ pc[c] = "down" /\ pc'[c] = "del" /\ UNCHANGED tun
          /\ links' = [links EXCEPT ![tun[c]] = "down"] \/ UNCHANGED links
      BY <2>2 DEF LinkDown, Goto
    <3> QED
      BY <2>1, <3>1 DEF CleanedUp
  <2>3. ASSUME NEW ok \in BOOLEAN, Returns(c, ok)
        PROVE  HoldsLink(c)' /\ CleanedUp(c)' /\ RulesNeedLink'
    <3>1. after[c] # "none"
      BY <1>6 DEF LinkDown, LinkDel
    <3>2. pc'[c] \in {"add", "idle", "inactive", "stale"}
      BY <2>3, <3>1, ReturnsWhere
    <3> QED
      BY <2>1, <3>2 DEF CleanedUp
  <2> QED
    BY <1>6, <2>2, <2>3 DEF LinkDown, LinkDel
<1> QED
  BY <1>1, <1>2, <1>3, <1>4, <1>5, <1>6 DEF Work

\* The induction step of RulesAlwaysNeedLink.
LEMMA NextRulesInv ==
    ASSUME TypeInv, RulesInv, [Next]_vars, [SerialStep]_vars
    PROVE  RulesInv'
<1>1. ASSUME SerialStep, NEW c \in Threads, Work(c) \/ (c \in Clients /\ Request(c))
      PROVE  RulesInv'
  <2>1. \A b \in Threads \ {c} : pc[b] = "idle" /\ pc'[b] = "idle"
    BY <1>1, StepOfOne DEF RulesInv
  <2>2. HoldsLink(c)' /\ CleanedUp(c)' /\ RulesNeedLink'
    BY <1>1, ThreadKeepsRules DEF RulesInv
  <2>3. \A b \in Threads \ {c} : HoldsLink(b)' /\ CleanedUp(b)'
    BY <2>1 DEF HoldsLink, CleanedUp
  <2>4. OneAtWork'
    BY <2>1 DEF OneAtWork
  <2> QED
    BY <2>2, <2>3, <2>4 DEF RulesInv
<1>2. CASE Crash
  <2>1. \A c \in Threads : pc'[c] = IF c = Main THEN "boot" ELSE "idle"
    BY <1>2 DEF Crash
  <2>2. RulesNeedLink'
    BY <1>2 DEF Crash, kernel, routing, RulesInv, RulesNeedLink, Exists
  <2>3. OneAtWork'
    BY <2>1 DEF OneAtWork
  <2>4. \A c \in Threads : HoldsLink(c)' /\ CleanedUp(c)'
    BY <2>1 DEF HoldsLink, CleanedUp
  <2> QED
    BY <2>2, <2>3, <2>4 DEF RulesInv
<1>3. ASSUME NEW t \in Tunnels, LinkLost(t) PROVE RulesInv'
  <2>1. "lost" \in harm' /\ UNCHANGED <<pc, step, rules, unremoved>>
    BY <1>3 DEF LinkLost, locals
  <2> QED
    BY <2>1 DEF RulesInv, OneAtWork, HoldsLink, CleanedUp, RulesNeedLink
<1>4. CASE UNCHANGED vars
  BY <1>4 DEF vars, locals, kernel, routing, RulesInv, OneAtWork, HoldsLink,
     CleanedUp, RulesNeedLink, Exists
<1> QED
  BY <1>1, <1>2, <1>3, <1>4 DEF Next, Threads

\* With one request at a time policy rules exist only while an interface does
\* (connect_inner, cleanup_routing, disconnect), but for those an ip rule del
\* failed to remove, whatever other command fails and wherever the daemon dies:
\* cleanup_stale, which goes by interfaces, never misses other rules a crash left
\* behind unless somebody else deleted an interface.
THEOREM RulesAlwaysNeedLink == Spec /\ OneAtATime => []RulesNeedLink
<1>1. Init => RulesInv
  BY WgConstants
  DEF Init, RulesInv, OneAtWork, HoldsLink, CleanedUp, RulesNeedLink, Threads
<1>2. TypeInv /\ RulesInv /\ [Next]_vars /\ [SerialStep]_vars => RulesInv'
  BY NextRulesInv
<1>3. RulesInv => RulesNeedLink
  BY DEF RulesInv
<1> QED
  BY <1>1, <1>2, <1>3, InitTypeInv, NextTypeInv, PTL DEF Spec, OneAtATime

-----------------------------------------------------------------------------

Connecting(c) ==
    pc[c] \in {"exists", "add", "configure", "up", "peers", "setup", "endpoint",
               "addEndpoint", "activate"}
Undoing(c) == pc[c] \in {"find", "cleanup", "down", "del"}

(***************************************************************************)
(* Why ConnectedAsStored is kept: no tunnel is active while one is being   *)
(* connected or stale interfaces are being removed, and the configuration  *)
(* connect works with is the stored one, since the store is written by the *)
(* same thread and never for the active tunnel.                            *)
(***************************************************************************)
Unconnected(c) ==
    \/ Connecting(c)
    \/ pc[c] \in {"boot", "stale"}
    \/ Undoing(c) /\ after[c] # "request"
    => active = NoTunnel

UsesStored(c) ==
    /\ pc[c] = "check" \/ Connecting(c) \/ (Undoing(c) /\ after[c] = "add") =>
           conf[c] = stored[tun[c]] /\ conf[c] # Absent
    /\ pc[c] \in {"up", "peers", "setup", "endpoint", "addEndpoint", "activate"} =>
           (Exists(tun[c]) => linkConf[tun[c]] = conf[c])
    /\ pc[c] \in {"update", "delete"} => tun[c] # active

ActiveAsStored ==
    active # NoTunnel =>
        /\ stored[active] # Absent
        /\ Exists(active) => linkConf[active] = stored[active]

StoreInv ==
    /\ \A c \in Threads : Unconnected(c) /\ UsesStored(c)
    /\ ActiveAsStored

(***************************************************************************)
(* Why RestCommitted is kept.  Unless something was deleted behind the     *)
(* daemon's back, or an interface was kept, at most one interface exists   *)
(* at a time and every route and rule is there for it (Only), but for the  *)
(* rules that could not be removed.  A connect starts from Clean and adds  *)
(* one command after the other; a disconnect, which a failed connect and   *)
(* cleanup_stale also run, undoes all of them before the interface, as     *)
(* CleanedUp says, and what is left of the routes goes with it.            *)
(***************************************************************************)
NoRules == rules \subseteq unremoved
NoRoutes == \A f \in Families : table[f] = NoTunnel

Only(t) ==
    /\ \A u \in Tunnels : Exists(u) => u = t
    /\ \A f \in Families : table[f] # NoTunnel => table[f] = t /\ links[t] = "up"
    /\ NoRules \/ (t \in Tunnels /\ Exists(t))

Committed(t) ==
    /\ \A u \in Tunnels : links[u] = IF u = t THEN "up" ELSE "none"
    /\ IF t = NoTunnel THEN NoRules ELSE rules = AllRules
    /\ \A f \in Families : table[f] = t

Clean == Committed(NoTunnel)

\* The endpoints the interface of t was configured with have their host routes.
Reached(t) == t # NoTunnel => Endpoints[linkConf[t]] \subseteq hostRoutes

\* The k-th command of setup_routing has had its effect.
Added(t, k) ==
    IF RoutingCmds[k][2] = "route" THEN table[RoutingCmds[k][1]] = t
                                   ELSE RoutingCmds[k] \in rules

\* What the kernel holds when thread c, alone at work, is where it is.
Progress(c) ==
    /\ pc[c] \in {"idle", "check", "update", "delete"} =>
           Committed(active) /\ Reached(active)
    /\ pc[c] \in {"exists", "add", "inactive"} => Clean
    /\ pc[c] \in {"configure", "up"} =>
           Only(tun[c]) /\ links[tun[c]] = "down" /\ NoRules /\ NoRoutes
    /\ pc[c] \in {"peers", "setup"} => Only(tun[c]) /\ links[tun[c]] = "up"
    /\ pc[c] = "setup" => \A k \in 1..(step[c] - 1) : Added(tun[c], k)
    /\ pc[c] \in {"endpoint", "addEndpoint", "activate"} => Committed(tun[c])
    /\ pc[c] \in {"endpoint", "addEndpoint"} => Endpoints[conf[c]] \ left[c] \subseteq hostRoutes
    /\ pc[c] = "activate" => Endpoints[conf[c]] \subseteq hostRoutes
    /\ Undoing(c) => Only(tun[c]) /\ (after[c] = "stale" => stale = {})
    /\ pc[c] = "del" => NoRoutes
    /\ pc[c] \in {"boot", "stale"} => \E t \in Tunnels \union {NoTunnel} : Only(t)
    /\ pc[c] = "stale" => stale = {t \in Tunnels : Exists(t)}

\* The kernel is where the one thread at work says, or all are idle.
RestInv ==
    harm = {} =>
        \A c \in Threads :
            (\A b \in Threads \ {c} : pc[b] = "idle") => Progress(c)

-----------------------------------------------------------------------------

\* What a step of thread c does to its own part of StoreInv.
StoreFits(c) == Unconnected(c) /\ UsesStored(c) /\ ActiveAsStored

\* disconnect returns: to connect with what it was called with, to nothing else
\* that works with a configuration.
LEMMA ReturnsStoreFits ==
    ASSUME TypeInv, NEW c \in Threads, StoreFits(c), Undoing(c),
           NEW ok \in BOOLEAN, Returns(c, ok), UNCHANGED <<active, stored>>,
           \/ UNCHANGED <<links, linkConf>>
           \/ /\ links' = [links EXCEPT ![tun[c]] = "none"]
              /\ linkConf' = [linkConf EXCEPT ![tun[c]] = Absent]
    PROVE  StoreFits(c)'
<1> USE DEF TypeInv, TypeOK, ControlInv, Control, StoreFits, Unconnected, UsesStored,
        ActiveAsStored, Connecting, Undoing, Exists
<1>1. after[c] \in {"add", "fail", "request", "stale"} /\ tun[c] \in Tunnels
  OBVIOUS
<1>2. ActiveAsStored'
  OBVIOUS
<1>3. CASE after[c] = "add"
  <2>1. /\ pc' = [pc EXCEPT ![c] = "add"]
        /\ UNCHANGED <<tun, conf>>
    BY <1>3 DEF Returns
  <2> QED
    BY <1>2, <1>3, <2>1
<1>4. CASE after[c] # "add"
  <2>1. pc'[c] \in {"idle", "inactive", "stale"}
    BY <1>1, <1>4 DEF Returns, Reply, Goto
  <2>2. pc'[c] = "stale" => after[c] = "stale"
    BY <1>1, <1>4 DEF Returns, Reply, Goto
  <2> QED
    BY <1>2, <2>1, <2>2
<1> QED
  BY <1>3, <1>4

\* Whatever fails in connect_inner, the disconnect that follows is not one a
\* client asked for.
LEMMA CommandStoreFits ==
    ASSUME TypeInv, NEW c \in Threads, StoreFits(c), Connecting(c),
           CallDisconnect(c, "fail"), UNCHANGED <<active, stored, kernel>>
    PROVE  StoreFits(c)'
  BY DEF TypeInv, TypeOK, CallDisconnect, kernel, StoreFits, Unconnected, UsesStored,
     ActiveAsStored, Connecting, Undoing, Exists, routing

LEMMA ThreadKeepsStore ==
    ASSUME TypeInv, NEW c \in Threads, StoreFits(c),
           Work(c) \/ (c \in Clients /\ Request(c))
    PROVE  StoreFits(c)'
<1> USE WgConstants DEF TypeInv, TypeOK, ControlInv, Control, StoreFits, Unconnected,
        UsesStored, ActiveAsStored, Connecting, Undoing, Exists, locals, kernel, routing
<1>1. ASSUME NEW t \in Tunnels, ConnectTunnel(c, t) PROVE StoreFits(c)'
  BY <1>1 DEF ConnectTunnel, Begin
<1>2. CASE DisconnectTunnel(c)
  BY <1>2 DEF DisconnectTunnel
<1>3. ASSUME NEW t \in Tunnels, NEW v \in Configs, UpdateTunnel(c, t, v) PROVE StoreFits(c)'
  BY <1>3 DEF UpdateTunnel, Begin
<1>4. ASSUME NEW t \in Tunnels, DeleteTunnel(c, t) PROVE StoreFits(c)'
  BY <1>4 DEF DeleteTunnel, Begin
<1>5. ASSUME NEW t \in Tunnels, NEW v \in Configs, AddTunnel(c, t, v) PROVE StoreFits(c)'
  BY <1>5 DEF AddTunnel
<1>6. CASE WriteStore(c)
  BY <1>6 DEF WriteStore, Reply
<1>7. CASE CheckActive(c)
  BY <1>7 DEF CheckActive, Reply, Goto
<1>8. CASE CheckExisting(c)
  BY <1>8 DEF CheckExisting, CallDisconnect, Goto
<1>9. CASE CallDisconnect(c, "fail") /\ Connecting(c) /\ UNCHANGED <<active, stored, kernel>>
  BY <1>9, CommandStoreFits
<1>10. CASE AddLink(c)
  BY <1>9, <1>10 DEF AddLink, Command, Goto
<1>11. CASE ConfigureLink(c)
  <2>1. CASE /\ pc[c] = "configure" /\ Goto(c, "up")
             /\ linkConf' = [linkConf EXCEPT ![tun[c]] = conf[c]]
             /\ UNCHANGED <<links, active, stored>>
    BY <2>1 DEF Goto
  <2> QED
    BY <1>9, <1>11, <2>1 DEF ConfigureLink, Command
<1>12. CASE LinkUp(c)
  BY <1>9, <1>12 DEF LinkUp, Command, Goto
<1>13. CASE SetPeers(c)
  BY <1>9, <1>13 DEF SetPeers, Command
<1>14. CASE SetupRouting(c)
  <2>1. CASE /\ UNCHANGED pc \/ \E hosts : Reach(c, hosts)
             /\ UNCHANGED <<tun, conf, after, links, linkConf, active, stored>>
    BY <1>14, <2>1 DEF SetupRouting, Reach
  <2> QED
    BY <1>9, <1>14, <2>1 DEF SetupRouting, Command
<1>15. CASE DelEndpointRoute(c)
  BY <1>9, <1>15 DEF DelEndpointRoute, Command, Goto
<1>15a. CASE AddEndpointRoute(c)
  BY <1>9, <1>15a DEF AddEndpointRoute, Command, Reach
<1>16. CASE Activate(c)
  BY <1>16 DEF Activate, Reply
<1>17. CASE FindLink(c)
  <2>1. pc[c] = "find" /\ UNCHANGED <<links, linkConf, active, stored>>
    BY <1>17 DEF FindLink
  <2>2. CASE /\ pc' = [pc EXCEPT ![c] = "cleanup"]
             /\ UNCHANGED <<tun, conf, after, left>>
    BY <2>1, <2>2
  <2>3. CASE Returns(c, TRUE)
    BY <2>1, <2>3, ReturnsStoreFits
  <2> QED
    BY <1>17, <2>2, <2>3 DEF FindLink
<1>18. CASE CleanupRouting(c)
  <2>1. /\ NextCleanup(c) /\ pc[c] = "cleanup"
        /\ UNCHANGED <<links, linkConf, active, stored>>
    BY <1>18 DEF CleanupRouting
  <2> QED
    BY <2>1 DEF NextCleanup
<1>19. CASE LinkDown(c)
  <2>1. pc[c] = "down" /\ UNCHANGED <<linkConf, active, stored>>
    BY <1>19 DEF LinkDown
  <2>2. CASE /\ Exists(tun[c])
             /\ links' = [links EXCEPT ![tun[c]] = "down"]
             /\ Goto(c, "del")
    BY <2>1, <2>2 DEF Goto
  <2>3. CASE Returns(c, FALSE) /\ UNCHANGED links
    BY <2>1, <2>3, ReturnsStoreFits
  <2> QED
    BY <1>19, <2>2, <2>3 DEF LinkDown
<1>20. CASE LinkDel(c)
  <2>1. pc[c] = "del" /\ UNCHANGED <<active, stored>>
    BY <1>20 DEF LinkDel
  <2>2. PICK ok \in BOOLEAN : Returns(c, ok)
    BY <1>20 DEF LinkDel
  <2>3. \/ UNCHANGED <<links, linkConf>>
        \/ /\ links' = [links EXCEPT ![tun[c]] = "none"]
           /\ linkConf' = [linkConf EXCEPT ![tun[c]] = Absent]
    BY <1>20 DEF LinkDel
  <2>4. CASE UNCHANGED <<links, linkConf>>
    BY <2>1, <2>2, <2>4, ReturnsStoreFits
  <2>5. CASE /\ links' = [links EXCEPT ![tun[c]] = "none"]
             /\ linkConf' = [linkConf EXCEPT ![tun[c]] = Absent]
    BY <2>1, <2>2, <2>5, ReturnsStoreFits
  <2> QED
    BY <2>3, <2>4, <2>5
<1>21. CASE Deactivate(c)
  BY <1>21 DEF Deactivate, Reply
<1>22. CASE ListStale(c)
  BY <1>22 DEF ListStale, Goto
<1>23. CASE CleanupStale(c)
  BY <1>23 DEF CleanupStale, Reply
<1> QED
  BY <1>1, <1>2, <1>3, <1>4, <1>5, <1>6, <1>7, <1>8, <1>10, <1>11, <1>12, <1>13,
     <1>14, <1>15, <1>15a, <1>16, <1>17, <1>18, <1>19, <1>20, <1>21, <1>22, <1>23
  DEF Work, Request

\* The induction step of ConnectedAlwaysAsStored.
LEMMA NextStoreInv ==
    ASSUME TypeInv, RulesInv, StoreInv, [Next]_vars, [SerialStep]_vars
    PROVE  StoreInv'
<1>1. ASSUME SerialStep, NEW c \in Threads, Work(c) \/ (c \in Clients /\ Request(c))
      PROVE  StoreInv'
  <2>1. \A b \in Threads \ {c} : pc[b] = "idle" /\ pc'[b] = "idle"
    BY <1>1, StepOfOne DEF RulesInv
  <2>2. StoreFits(c)'
    BY <1>1, ThreadKeepsStore DEF StoreInv, StoreFits
  <2>3. \A b \in Threads \ {c} : Unconnected(b)' /\ UsesStored(b)'
    BY <2>1 DEF Unconnected, UsesStored, Connecting, Undoing
  <2> QED
    BY <2>2, <2>3 DEF StoreInv, StoreFits
<1>2. CASE Crash
  <2>1. \A c \in Threads : pc'[c] \in {"boot", "idle"}
    BY <1>2 DEF Crash
  <2>2. active' = NoTunnel
    BY <1>2 DEF Crash
  <2> QED
    BY <2>1, <2>2 DEF StoreInv, ActiveAsStored, Unconnected, UsesStored, Connecting, Undoing
<1>3. ASSUME NEW t \in Tunnels, LinkLost(t) PROVE StoreInv'
  <2>1. \A u \in Tunnels : Exists(u)' => Exists(u) /\ linkConf'[u] = linkConf[u]
    BY <1>3 DEF LinkLost, TypeInv, TypeOK, Exists
  <2>2. UNCHANGED <<pc, tun, conf, step, after, active, stored>>
    BY <1>3 DEF LinkLost, locals
  <2>3. ActiveAsStored'
    BY <2>1, <2>2 DEF StoreInv, ActiveAsStored, TypeInv, TypeOK
  <2>4. ASSUME NEW c \in Threads PROVE Unconnected(c)' /\ UsesStored(c)'
    BY <2>1, <2>2 DEF StoreInv, Unconnected, UsesStored, Connecting, Undoing, TypeInv,
       ControlInv, Control
  <2> QED
    BY <2>3, <2>4 DEF StoreInv
<1>4. CASE UNCHANGED vars
  BY <1>4 DEF vars, locals, kernel, routing, StoreInv, ActiveAsStored, Unconnected,
     UsesStored, Connecting, Undoing, Exists
<1> QED
  BY <1>1, <1>2, <1>3, <1>4 DEF Next, Threads

\* With one request at a time a connected interface was configured with what is
\* stored (the active_tunnel checks of UpdateTunnel and DeleteTunnel), whatever
\* fails, is lost or crashes.
THEOREM ConnectedAlwaysAsStored == Spec /\ OneAtATime => []ConnectedAsStored
<1>1. Init => RulesInv
  BY WgConstants
  DEF Init, RulesInv, OneAtWork, HoldsLink, CleanedUp, RulesNeedLink, Threads
<1>2. Init => StoreInv
  BY DEF Init, StoreInv, ActiveAsStored, Unconnected, UsesStored, Connecting, Undoing
<1>3. TypeInv /\ RulesInv /\ [Next]_vars /\ [SerialStep]_vars => RulesInv'
  BY NextRulesInv
<1>4. TypeInv /\ RulesInv /\ StoreInv /\ [Next]_vars /\ [SerialStep]_vars => StoreInv'
  BY NextStoreInv
<1>5. StoreInv => ConnectedAsStored
  BY DEF StoreInv, ActiveAsStored, ConnectedAsStored
<1> QED
  BY <1>1, <1>2, <1>3, <1>4, <1>5, InitTypeInv, NextTypeInv, PTL DEF Spec, OneAtATime

-----------------------------------------------------------------------------

\* A tunnel that is there entirely is the only one.
LEMMA CommittedIsOnly ==
    ASSUME NEW t \in Tunnels \union {NoTunnel}, Committed(t)
    PROVE  Only(t)
  BY WgConstants DEF Committed, Only, Exists, NoRules

\* Without its interface nothing is left of the only tunnel.
LEMMA NothingLeft ==
    ASSUME TypeOK, NEW t, Only(t), \A u \in Tunnels : ~Exists(u)
    PROVE  Clean
<1>1. NoRules
  BY DEF Only
<1>2. \A u \in Tunnels : links[u] = "none" /\ u # NoTunnel
  BY WgConstants DEF Exists
<1>3. \A f \in Families : table[f] = NoTunnel
  <2> SUFFICES ASSUME NEW f \in Families, table[f] # NoTunnel PROVE FALSE
    OBVIOUS
  <2>1. table[f] = t /\ t \in Tunnels /\ links[t] = "up"
    BY DEF Only, TypeOK
  <2> QED
    BY <1>2, <2>1
<1> QED
  BY <1>1, <1>2, <1>3 DEF Clean, Committed

\* Who has added a route or a rule with each command has added all of them.
LEMMA EveryAdded ==
    ASSUME NEW tb, NEW rl, rl \subseteq AllRules, NEW t,
           \A k \in 1..8 : IF RoutingCmds[k][2] = "route" THEN tb[RoutingCmds[k][1]] = t
                                                          ELSE RoutingCmds[k] \in rl
    PROVE  rl = AllRules /\ \A f \in Families : tb[f] = t
<1> USE Commands
<1>1. \A f \in Families : tb[f] = t
  <2>1. /\ RoutingCmds[1] = <<"v4", "route">> /\ RoutingCmds[2] = <<"v6", "route">>
        /\ 1 \in 1..8 /\ 2 \in 1..8
    BY DEF RoutingCmds
  <2>2. tb["v4"] = t /\ tb["v6"] = t
    BY <2>1
  <2> QED
    BY <2>2 DEF Families
<1>2. ASSUME NEW r \in AllRules PROVE r \in rl
  <2>1. PICK k \in 1..8 : r = RoutingCmds[k]
    OBVIOUS
  <2>2. RoutingCmds[k][2] # "route"
    BY <2>1 DEF AllRules, Kinds
  <2> QED
    BY <2>1, <2>2
<1> QED
  BY <1>1, <1>2

\* disconnect returns when nothing is left.
LEMMA ReturnsClean ==
    ASSUME TypeInv, NEW c \in Threads, Undoing(c), Unconnected(c), Progress(c),
           Returns(c, TRUE), Clean', UNCHANGED <<active, stale>>
    PROVE  Progress(c)'
<1> USE DEF TypeInv, TypeOK, ControlInv, Control, Progress, Undoing, Unconnected
<1>1. after[c] \in {"add", "fail", "request", "stale"}
  OBVIOUS
<1>2. CASE after[c] = "add"
  <2>1. pc'[c] = "add"
    BY <1>2 DEF Returns
  <2> QED
    BY <2>1
<1>3. CASE after[c] = "fail"
  <2>1. pc'[c] = "idle" /\ active' = NoTunnel
    BY <1>3 DEF Returns, Reply
  <2>2. Committed(active)' /\ Reached(active)'
    BY <2>1 DEF Clean, Committed, Reached, NoRules
  <2> QED
    BY <2>1, <2>2
<1>4. CASE after[c] = "request"
  <2>1. pc'[c] = "inactive"
    BY <1>4 DEF Returns, Goto
  <2> QED
    BY <2>1
<1>5. CASE after[c] = "stale"
  <2>1. pc'[c] = "stale" /\ stale' = {}
    BY <1>5 DEF Returns
  <2>2. \A u \in Tunnels : ~Exists(u)'
    BY WgConstants DEF Clean, Committed, Exists
  <2>3. Only(NoTunnel)'
    BY <2>2 DEF Clean, Committed, Only, NoRules
  <2> QED
    BY <2>1, <2>2, <2>3
<1> QED
  BY <1>1, <1>2, <1>3, <1>4, <1>5

\* A command of connect_inner fails: the disconnect that follows finds at most
\* the interface of its own tunnel.
LEMMA CommandFails ==
    ASSUME TypeInv, NEW c \in Threads, Only(tun[c]), CallDisconnect(c, "fail"),
           UNCHANGED kernel
    PROVE  Progress(c)'
<1>1. pc'[c] = "find" /\ after'[c] = "fail" /\ tun'[c] = tun[c]
  BY DEF CallDisconnect, TypeInv, TypeOK
<1>2. (Only(tun[c]))'
  BY <1>1 DEF Only, Exists, kernel, routing, NoRules
<1> QED
  BY <1>1, <1>2 DEF Progress, Undoing

\* Where thread c is, its tunnel is the only one.
LEMMA OnlyOwn ==
    ASSUME TypeInv, NEW c \in Threads, Progress(c),
           Connecting(c) \/ Undoing(c), tun[c] \in Tunnels
    PROVE  Only(tun[c])
<1>1. Clean => Only(tun[c])
  BY WgConstants DEF Clean, Committed, Only, Exists, NoRules
<1> QED
  BY <1>1, CommittedIsOnly DEF Progress, Connecting, Undoing

\* The induction step of RestAlwaysCommitted, for the thread at work.
LEMMA ThreadKeepsRest ==
    ASSUME TypeInv, NEW c \in Threads, HoldsLink(c), CleanedUp(c), Unconnected(c),
           UsesStored(c), Progress(c), harm = {}, harm' = {},
           Work(c) \/ (c \in Clients /\ Request(c))
    PROVE  Progress(c)'
<1> USE WgConstants DEF TypeInv, TypeOK, ControlInv, Control, Connecting, Undoing, locals,
        kernel, routing, NoRules, NoRoutes
<1>1. CASE c \in Clients /\ Request(c)
  <2>1. /\ pc[c] = "idle" /\ UNCHANGED <<kernel, active>>
        /\ \/ pc'[c] \in {"idle", "check", "update", "delete"}
           \/ pc'[c] = "find" /\ after'[c] = "request" /\ tun'[c] = active
    BY <1>1 DEF Request, ConnectTunnel, DisconnectTunnel, UpdateTunnel, DeleteTunnel,
       AddTunnel, Begin
  <2>2. Committed(active) /\ Committed(active)' /\ Reached(active)'
    BY <2>1 DEF Progress, Committed, Reached
  <2>3. Only(active)'
    BY <2>1, <2>2, CommittedIsOnly DEF Only, Exists
  <2>4. CASE pc'[c] \in {"idle", "check", "update", "delete"}
    BY <2>2, <2>4 DEF Progress
  <2>5. CASE pc'[c] = "find" /\ after'[c] = "request" /\ tun'[c] = active
    <3>1. (Only(tun[c]))'
      BY <2>1, <2>3, <2>5 DEF Only, Exists
    <3> QED
      BY <2>5, <3>1 DEF Progress
  <2> QED
    BY <2>1, <2>4, <2>5
<1>2. CASE WriteStore(c)
  <2>1. pc'[c] = "idle" /\ pc[c] \in {"update", "delete"} /\ UNCHANGED <<kernel, active>>
    BY <1>2 DEF WriteStore, Reply
  <2>2. Committed(active)' /\ Reached(active)'
    BY <2>1 DEF Progress, Committed, Reached
  <2> QED
    BY <2>1, <2>2 DEF Progress
<1>3. CASE CheckActive(c)
  <2>1. pc[c] = "check" /\ Committed(active) /\ Reached(active) /\ UNCHANGED kernel
    BY <1>3 DEF CheckActive, Progress
  <2>2. CASE active # NoTunnel /\ Exists(active)
    <3>1. pc'[c] = "idle" /\ UNCHANGED active
      BY <1>3, <2>2 DEF CheckActive, Reply, Sees, Leaves
    <3>2. Committed(active)' /\ Reached(active)'
      BY <2>1, <3>1 DEF Committed, Reached
    <3> QED
      BY <3>1, <3>2 DEF Progress
  <2>3. CASE ~(active # NoTunnel /\ Exists(active))
    <3>1. pc'[c] = "exists"
      BY <1>3, <2>3 DEF CheckActive, Goto, Sees
    <3>2. active = NoTunnel
      BY <2>1, <2>3 DEF Committed, Exists
    <3>3. Clean'
      BY <2>1, <3>2 DEF Clean, Committed
    <3> QED
      BY <3>1, <3>3 DEF Progress
  <2> QED
    BY <2>2, <2>3
<1>4. CASE CheckExisting(c)
  <2>1. pc[c] = "exists" /\ Clean /\ UNCHANGED kernel
    BY <1>4 DEF CheckExisting, Progress
  <2>2. ~Exists(tun[c])
    <3>1. tun[c] \in Tunnels /\ tun[c] # NoTunnel
      BY <2>1
    <3> QED
      BY <2>1, <3>1 DEF Clean, Committed, Exists
  <2>3. pc'[c] = "add"
    BY <1>4, <2>2 DEF CheckExisting, Goto, Sees
  <2>4. Clean'
    BY <2>1 DEF Clean, Committed
  <2> QED
    BY <2>3, <2>4 DEF Progress
<1>5. CASE CallDisconnect(c, "fail") /\ Connecting(c) /\ UNCHANGED kernel
  BY <1>5, OnlyOwn, CommandFails
<1>6. CASE AddLink(c)
  <2>1. CASE /\ pc[c] = "add" /\ links' = [links EXCEPT ![tun[c]] = "down"]
             /\ Goto(c, "configure") /\ UNCHANGED routing
    <3>1. pc'[c] = "configure" /\ tun'[c] = tun[c] /\ Clean
      BY <2>1 DEF Goto, Progress
    <3>2. /\ links'[tun[c]] = "down" /\ NoRules' /\ NoRoutes'
          /\ \A u \in Tunnels : u # tun[c] => links'[u] = "none"
      <4>1. \A u \in Tunnels : links[u] = "none"
        BY <3>1 DEF Clean, Committed
      <4>2. NoRules /\ NoRoutes
        BY <3>1 DEF Clean, Committed
      <4> QED
        BY <2>1, <4>1, <4>2
    <3>3. (Only(tun[c]))'
      BY <3>1, <3>2 DEF Only, Exists
    <3> QED
      BY <3>1, <3>2, <3>3 DEF Progress
  <2> QED
    BY <1>5, <1>6, <2>1 DEF AddLink, Command
<1>7. CASE ConfigureLink(c)
  <2>1. CASE pc[c] = "configure" /\ Goto(c, "up") /\ UNCHANGED <<links, routing>>
    <3>1. pc'[c] = "up" /\ tun'[c] = tun[c]
      BY <2>1 DEF Goto
    <3> QED
      BY <2>1, <3>1 DEF Progress, Only, Exists
  <2> QED
    BY <1>5, <1>7, <2>1 DEF ConfigureLink, Command
<1>8. CASE LinkUp(c)
  <2>1. CASE /\ pc[c] = "up" /\ links' = [links EXCEPT ![tun[c]] = "up"]
             /\ Goto(c, "peers") /\ UNCHANGED routing
    <3>1. pc'[c] = "peers" /\ tun'[c] = tun[c] /\ links'[tun[c]] = "up"
      BY <2>1 DEF Goto
    <3> QED
      BY <2>1, <3>1 DEF Progress, Only, Exists
  <2> QED
    BY <1>5, <1>8, <2>1 DEF LinkUp, Command
<1>9. CASE SetPeers(c)
  <2>1. CASE /\ pc[c] = "peers" /\ pc' = [pc EXCEPT ![c] = "setup"]
             /\ step' = [step EXCEPT ![c] = 1] /\ UNCHANGED <<tun, kernel>>
    <3>1. pc'[c] = "setup" /\ tun'[c] = tun[c] /\ step'[c] = 1
      BY <2>1, Commands
    <3> QED
      BY <2>1, <3>1 DEF Progress, Only, Exists
  <2> QED
    BY <1>5, <1>9, <2>1 DEF SetPeers, Command
<1>10. CASE SetupRouting(c)
  <2>1. CASE /\ AddRouting(RoutingCmds[step[c]][1], RoutingCmds[step[c]][2], tun[c])
             /\ IF step[c] < 8
                THEN step' = [step EXCEPT ![c] = @ + 1] /\ UNCHANGED <<pc, left>>
                ELSE Reach(c, Endpoints[conf[c]])
             /\ UNCHANGED <<tun, conf, after, links, hostRoutes, unremoved>>
    <3>1. PICK k \in 1..8 : pc[c] = "setup" /\ step[c] = k
      BY <1>10, Commands DEF SetupRouting
    <3>2. PICK t \in Tunnels : tun[c] = t /\ tun'[c] = t
      BY <2>1, <3>1
    <3>3. /\ Only(t) /\ links[t] = "up" /\ links'[t] = "up"
          /\ \A j \in 1..(k - 1) : Added(t, j)
      BY <2>1, <3>1, <3>2 DEF Progress
    <3>4. /\ RoutingCmds[k][2] = "route" =>
                 table' = [table EXCEPT ![RoutingCmds[k][1]] = t] /\ rules' = rules
          /\ RoutingCmds[k][2] # "route" =>
                 rules' = rules \union {RoutingCmds[k]} /\ table' = table
      BY <2>1, <3>1, <3>2, Commands DEF AddRouting
    <3>5. Only(t)'
      <4>1. \A u \in Tunnels : links'[u] # "none" => u = t
        BY <2>1, <3>3 DEF Only, Exists
      <4>2. \A g \in Families : table'[g] # NoTunnel => table'[g] = t
        BY <3>3, <3>4 DEF Only
      <4> QED
        BY <3>2, <3>3, <4>1, <4>2 DEF Only, Exists
    <3>6. \A j \in 1..k : Added(t, j)'
      <4>1. \A j \in 1..k : j \in 1..8 /\ (j = k \/ j \in 1..(k - 1))
        BY <3>1
      <4>2. Added(t, k)'
        BY <3>4, Commands DEF Added
      <4>3. ASSUME NEW j \in 1..(k - 1) PROVE Added(t, j)'
        BY <3>3, <3>4, <4>1, Commands DEF Added
      <4> QED
        BY <4>1, <4>2, <4>3
    <3>7. CASE k = 8
      <4>1. /\ pc'[c] \in {"endpoint", "activate"}
            /\ left'[c] = Endpoints[conf[c]] /\ conf'[c] = conf[c]
            /\ pc'[c] = "activate" => Endpoints[conf[c]] = {}
        BY <2>1, <3>1, <3>7 DEF Reach
      <4>2. rules' \subseteq AllRules
        BY <3>4, Commands
      <4>3. rules' = AllRules /\ \A g \in Families : table'[g] = t
        <5>1. \A j \in 1..8 :
                  IF RoutingCmds[j][2] = "route" THEN table'[RoutingCmds[j][1]] = t
                                                 ELSE RoutingCmds[j] \in rules'
          BY <3>6, <3>7 DEF Added
        <5> QED
          BY ONLY <4>2, <5>1, EveryAdded
      <4>4. Committed(t)'
        BY <3>3, <3>5, <4>3 DEF Committed, Only, Exists
      <4>5. (Committed(tun[c]))'
        BY <3>2, <4>4 DEF Committed
      <4> QED
        BY <4>1, <4>5 DEF Progress
    <3>8. CASE k # 8
      <4>1. pc'[c] = "setup" /\ step'[c] = k + 1
        BY <2>1, <3>1, <3>8, Commands
      <4>2. (Only(tun[c]))'
        BY <3>2, <3>5 DEF Only
      <4>3. \A j \in 1..(step'[c] - 1) : (Added(tun[c], j))'
        BY <3>1, <3>2, <3>6, <4>1 DEF Added
      <4> QED
        BY <3>2, <3>3, <4>1, <4>2, <4>3 DEF Progress
    <3> QED
      BY <3>7, <3>8
  <2>2. CASE CallDisconnect(c, "fail") /\ UNCHANGED kernel
    BY <1>5, <1>10, <2>2 DEF SetupRouting
  <2> QED
    BY <1>10, <2>1, <2>2, Commands DEF SetupRouting, Command
<1>11. CASE DelEndpointRoute(c)
  <2>1. CASE /\ pc[c] = "endpoint" /\ Goto(c, "addEndpoint")
             /\ hostRoutes' \in {hostRoutes \ {NextEndpoint(c)}, hostRoutes}
             /\ UNCHANGED <<links, table, rules, unremoved>>
    <3>1. pc'[c] = "addEndpoint" /\ UNCHANGED <<tun, conf, left>>
      BY <2>1 DEF Goto
    <3>2. (Committed(tun[c]))'
      BY <2>1, <3>1 DEF Progress, Committed
    <3>3. Endpoints[conf[c]] \ left[c] \subseteq hostRoutes'
      BY <2>1, NextIsLeft DEF Progress
    <3> QED
      BY <3>1, <3>2, <3>3 DEF Progress
  <2>2. CASE CallDisconnect(c, "fail") /\ UNCHANGED kernel
    BY <1>5, <1>11, <2>2 DEF DelEndpointRoute
  <2> QED
    BY <1>11, <2>1, <2>2 DEF DelEndpointRoute, Command
<1>12. CASE AddEndpointRoute(c)
  <2>1. CASE /\ pc[c] = "addEndpoint" /\ Reach(c, left[c] \ {NextEndpoint(c)})
             /\ hostRoutes' = hostRoutes \union {NextEndpoint(c)}
             /\ UNCHANGED <<tun, conf, links, table, rules, unremoved>>
    <3>1. /\ pc'[c] \in {"endpoint", "activate"}
          /\ left'[c] = left[c] \ {NextEndpoint(c)}
          /\ pc'[c] = "activate" => left'[c] = {}
      BY <2>1 DEF Reach
    <3>2. (Committed(tun[c]))'
      BY <2>1 DEF Progress, Committed
    <3>3. Endpoints[conf'[c]] \ left'[c] \subseteq hostRoutes'
      BY <2>1, <3>1 DEF Progress
    <3> QED
      BY <3>1, <3>2, <3>3 DEF Progress
  <2>2. CASE CallDisconnect(c, "fail") /\ UNCHANGED kernel
    BY <1>5, <1>12, <2>2 DEF AddEndpointRoute
  <2> QED
    BY <1>12, <2>1, <2>2 DEF AddEndpointRoute, Command
<1>13. CASE Activate(c)
  <2>1. pc[c] = "activate" /\ pc'[c] = "idle" /\ active' = tun[c] /\ UNCHANGED kernel
    BY <1>13 DEF Activate, Reply
  <2>2. Committed(tun[c]) /\ Endpoints[conf[c]] \subseteq hostRoutes
    BY <2>1 DEF Progress
  <2>3. linkConf[tun[c]] = conf[c]
    BY <2>1, <2>2 DEF UsesStored, Committed, Exists
  <2>4. Committed(active)' /\ Reached(active)'
    BY <2>1, <2>2, <2>3 DEF Committed, Reached
  <2> QED
    BY <2>1, <2>4 DEF Progress
<1>14. CASE FindLink(c)
  <2>1. pc[c] = "find" /\ Only(tun[c]) /\ UNCHANGED <<kernel, active, stale>>
    BY <1>14 DEF FindLink, Progress
  <2>2. CASE Exists(tun[c])
    <3>1. pc'[c] = "cleanup" /\ step'[c] = 1 /\ tun'[c] = tun[c] /\ after'[c] = after[c]
      BY <1>14, <2>2, Commands DEF FindLink, Sees, Leaves
    <3> QED
      BY <2>1, <3>1 DEF Progress, Only, Exists
  <2>3. CASE ~Exists(tun[c])
    <3>1. Clean
      BY <2>1, <2>3, NothingLeft DEF Only
    <3>2. Clean'
      BY <2>1, <3>1 DEF Clean, Committed
    <3>3. Returns(c, TRUE)
      BY <1>14, <2>3 DEF FindLink, Sees
    <3> QED
      BY <2>1, <3>2, <3>3, ReturnsClean
  <2> QED
    BY <2>2, <2>3
<1>15. CASE CleanupRouting(c)
  <2>1. /\ pc[c] = "cleanup" /\ pc'[c] \in {"cleanup", "down"}
        /\ UNCHANGED <<tun, after, links, stale>>
    BY <1>15 DEF CleanupRouting, NextCleanup
  <2>2. \A g \in Families : table'[g] # NoTunnel => table'[g] = table[g]
    BY <1>15 DEF CleanupRouting
  <2>3. rules \subseteq unremoved => rules' \subseteq unremoved'
    BY <1>15 DEF CleanupRouting
  <2>4. Only(tun[c]) /\ (after[c] = "stale" => stale = {})
    BY <2>1 DEF Progress
  <2>5. (Only(tun[c]))'
    BY <2>1, <2>2, <2>3, <2>4 DEF Only, Exists
  <2> QED
    BY <2>1, <2>4, <2>5 DEF Progress
<1>16. CASE LinkDown(c)
  <2>1. pc[c] = "down" /\ Exists(tun[c]) /\ Only(tun[c]) /\ NoRules
    BY <1>16 DEF LinkDown, HoldsLink, Progress, CleanedUp
  <2>2. /\ links' = [links EXCEPT ![tun[c]] = "down"]
        /\ table' = WithoutRoutes(tun[c]) /\ Goto(c, "del")
        /\ UNCHANGED <<rules, unremoved, stale>>
    BY <1>16, <2>1 DEF LinkDown, CannotRemove, Leaves
  <2>3. pc'[c] = "del" /\ tun'[c] = tun[c] /\ after'[c] = after[c]
    BY <2>1, <2>2 DEF Goto
  <2>4. NoRoutes' /\ NoRules'
    BY <2>1, <2>2 DEF Only, WithoutRoutes
  <2>5. (Only(tun[c]))'
    BY <2>1, <2>2, <2>3, <2>4 DEF Only, Exists
  <2>6. after'[c] = "stale" => stale' = {}
    BY <2>1, <2>2, <2>3 DEF Progress
  <2> QED
    BY <2>3, <2>4, <2>5, <2>6 DEF Progress
<1>17. CASE LinkDel(c)
  <2>1. pc[c] = "del" /\ Exists(tun[c]) /\ Only(tun[c]) /\ NoRules /\ NoRoutes
    BY <1>17 DEF LinkDel, HoldsLink, Progress, CleanedUp
  <2>2. /\ links' = [links EXCEPT ![tun[c]] = "none"] /\ table' = WithoutRoutes(tun[c])
        /\ Returns(c, TRUE) /\ UNCHANGED <<rules, unremoved, stale, active>>
    BY <1>17, <2>1 DEF LinkDel, CannotRemove, Leaves
  <2>3. Clean'
    BY <2>1, <2>2 DEF WithoutRoutes, Only, Exists, Clean, Committed
  <2> QED
    BY <2>1, <2>2, <2>3, ReturnsClean
<1>18. CASE Deactivate(c)
  <2>1. pc[c] = "inactive" /\ pc'[c] = "idle" /\ active' = NoTunnel /\ UNCHANGED kernel
    BY <1>18 DEF Deactivate, Reply
  <2> QED
    BY <2>1 DEF Progress, Clean, Committed, Reached
<1>19. CASE ListStale(c)
  <2>1. /\ pc[c] = "boot" /\ pc'[c] = "stale" /\ UNCHANGED kernel
        /\ stale' = {t \in Tunnels : Exists(t)}
    BY <1>19 DEF ListStale, Goto, Leaves
  <2>2. PICK t \in Tunnels \union {NoTunnel} : Only(t)
    BY <2>1 DEF Progress
  <2>3. Only(t)'
    BY <2>1, <2>2 DEF Only, Exists
  <2>4. stale' = {u \in Tunnels : Exists(u)'}
    BY <2>1 DEF Exists
  <2> QED
    BY <2>1, <2>3, <2>4 DEF Progress
<1>20. CASE CleanupStale(c)
  <2>1. /\ pc[c] = "stale" /\ UNCHANGED <<kernel, active>> /\ active = NoTunnel
        /\ stale = {t \in Tunnels : Exists(t)}
    BY <1>20 DEF CleanupStale, Progress, Unconnected
  <2>2. PICK t \in Tunnels \union {NoTunnel} : Only(t)
    BY <2>1 DEF Progress
  <2>3. CASE stale = {} /\ Reply(c)
    <3>1. Clean
      BY <2>1, <2>2, <2>3, NothingLeft
    <3>2. Committed(active)' /\ Reached(active)'
      BY <2>1, <3>1 DEF Clean, Committed, Reached
    <3> QED
      BY <2>3, <3>2 DEF Progress, Reply
  <2>4. CASE \E u \in stale :
               /\ stale' = stale \ {u}
               /\ tun' = [tun EXCEPT ![c] = u]
               /\ pc' = [pc EXCEPT ![c] = "find"]
               /\ after' = [after EXCEPT ![c] = "stale"]
    <3>1. /\ t \in stale /\ stale' = {} /\ tun'[c] = t
          /\ pc'[c] = "find" /\ after'[c] = "stale"
      BY <2>1, <2>2, <2>4 DEF Only
    <3> QED
      BY <2>1, <2>2, <3>1 DEF Progress, Only, Exists
  <2> QED
    BY <1>20, <2>3, <2>4 DEF CleanupStale
<1> QED
  BY <1>1, <1>2, <1>3, <1>4, <1>6, <1>7, <1>8, <1>9, <1>10, <1>11, <1>12, <1>13,
     <1>14, <1>15, <1>16, <1>17, <1>18, <1>19, <1>20
  DEF Work

\* What went wrong once stays recorded.
LEMMA HarmStays ==
    ASSUME [Next]_vars
    PROVE  harm \subseteq harm'
<1>1. ASSUME NEW c \in Clients, Request(c) PROVE harm \subseteq harm'
  BY <1>1 DEF Request, ConnectTunnel, DisconnectTunnel, UpdateTunnel, DeleteTunnel,
     AddTunnel, kernel
<1>2. ASSUME NEW c \in Threads, Work(c) PROVE harm \subseteq harm'
  BY <1>2 DEF Work, WriteStore, CheckActive, CheckExisting, AddLink, ConfigureLink,
     LinkUp, SetPeers, SetupRouting, DelEndpointRoute, AddEndpointRoute, Activate,
     FindLink, CleanupRouting, LinkDown, LinkDel, Deactivate, ListStale, CleanupStale,
     Command, CannotRemove, Sees, Leaves, kernel
<1>3. CASE Crash \/ (\E t \in Tunnels : LinkLost(t)) \/ UNCHANGED vars
  BY <1>3 DEF Crash, LinkLost, vars, kernel
<1> QED
  BY <1>1, <1>2, <1>3 DEF Next

\* The induction step of RestAlwaysCommitted.
LEMMA NextRestInv ==
    ASSUME TypeInv, RulesInv, StoreInv, RestInv, [Next]_vars, [SerialStep]_vars
    PROVE  RestInv'
<1>1. ASSUME SerialStep, NEW c \in Threads, Work(c) \/ (c \in Clients /\ Request(c)),
             harm' = {}
      PROVE  RestInv'
  <2>1. \A b \in Threads \ {c} : pc[b] = "idle" /\ pc'[b] = "idle"
    BY <1>1, StepOfOne DEF RulesInv
  <2>2. harm = {}
    BY <1>1, HarmStays DEF Next
  <2>3. Progress(c)
    BY <2>1, <2>2 DEF RestInv
  <2>4. Progress(c)'
    BY <1>1, <2>2, <2>3, ThreadKeepsRest DEF RulesInv, StoreInv
  <2>5. ASSUME NEW b \in Threads \ {c}, \A d \in Threads \ {b} : pc'[d] = "idle"
        PROVE  Progress(b)'
    <3>1. pc'[b] = "idle" /\ pc'[c] = "idle"
      BY <2>1, <2>5
    <3> QED
      BY <2>4, <3>1 DEF Progress, Undoing
  <2> QED
    BY <2>4, <2>5 DEF RestInv
<1>2. CASE Crash /\ harm' = {}
  <2>1. /\ \A c \in Threads : pc'[c] = IF c = Main THEN "boot" ELSE "idle"
        /\ UNCHANGED kernel /\ harm = {}
    BY <1>2 DEF Crash, kernel
  <2>2. \E t \in Tunnels \union {NoTunnel} : Only(t)
    <3>1. PICK c \in Threads : \A b \in Threads \ {c} : pc[b] = "idle"
      BY DEF RulesInv, OneAtWork, Threads
    <3>2. Progress(c)
      BY <2>1, <3>1 DEF RestInv
    <3>3. Clean => Only(NoTunnel)
      BY CommittedIsOnly DEF Clean
    <3>4. Committed(active) => Only(active)
      BY CommittedIsOnly DEF TypeInv, TypeOK
    <3>5. CASE Connecting(c) \/ Undoing(c)
      <4>1. tun[c] \in Tunnels
        BY <3>5 DEF TypeInv, ControlInv, Control, Connecting, Undoing
      <4> QED
        BY <3>2, <3>5, <4>1, OnlyOwn
    <3>6. CASE ~(Connecting(c) \/ Undoing(c))
      <4>1. pc[c] \in {"idle", "check", "update", "delete", "inactive", "boot", "stale"}
        BY <3>6 DEF TypeInv, TypeOK, Connecting, Undoing
      <4> QED
        BY <3>2, <3>3, <3>4, <4>1 DEF Progress, TypeInv, TypeOK
    <3> QED
      BY <3>5, <3>6
  <2>3. PICK t \in Tunnels \union {NoTunnel} : Only(t)
    BY <2>2
  <2>4. Only(t)'
    BY <2>1, <2>3 DEF Only, Exists, kernel, routing, NoRules
  <2>5. Progress(Main)'
    BY <2>1, <2>4 DEF Progress, Undoing, Threads
  <2>6. ASSUME NEW c \in Threads, c # Main, \A b \in Threads \ {c} : pc'[b] = "idle"
        PROVE  FALSE
    BY <2>1, <2>6 DEF Threads
  <2> QED
    BY <2>5, <2>6 DEF RestInv
<1>3. ASSUME NEW t \in Tunnels, LinkLost(t) PROVE RestInv'
  <2>1. harm' # {}
    BY <1>3 DEF LinkLost
  <2> QED
    BY <2>1 DEF RestInv
<1>4. CASE UNCHANGED vars
  BY <1>4 DEF vars, locals, kernel, routing, RestInv, Progress, Undoing, Only, Clean,
     Committed, NoRules, NoRoutes, Reached, Added, Exists
<1>5. CASE harm' # {}
  BY <1>5 DEF RestInv
<1> QED
  BY <1>1, <1>2, <1>3, <1>4, <1>5 DEF Next, Threads

\* With one request at a time a tunnel is there entirely or not at all whenever
\* no request is being served, but for the rules that could not be removed:
\* whichever command of connect_inner fails, connect undoes it, and wherever the
\* daemon dies, cleanup_stale does (wireguard.rs).  The host routes to the
\* endpoints of a connected tunnel are there; the model, like the code, has no
\* step that removes them for good.
THEOREM RestAlwaysCommitted == Spec /\ OneAtATime => []RestCommitted
<1>1. Init => RulesInv /\ StoreInv
  BY WgConstants
  DEF Init, RulesInv, OneAtWork, HoldsLink, CleanedUp, RulesNeedLink, Threads,
      StoreInv, ActiveAsStored, Unconnected, UsesStored, Connecting, Undoing
<1>2. Init => RestInv
  <2> SUFFICES ASSUME Init, NEW c \in Threads, \A b \in Threads \ {c} : pc[b] = "idle"
               PROVE  Progress(c)
    BY DEF RestInv
  <2>1. pc[c] = "boot"
    BY WgConstants DEF Init, Threads
  <2>2. Only(NoTunnel)
    BY DEF Init, Only, Exists, NoRules
  <2> QED
    BY <2>1, <2>2 DEF Progress, Undoing
<1>3. TypeInv /\ RulesInv /\ [Next]_vars /\ [SerialStep]_vars => RulesInv'
  BY NextRulesInv
<1>4. TypeInv /\ RulesInv /\ StoreInv /\ [Next]_vars /\ [SerialStep]_vars => StoreInv'
  BY NextStoreInv
<1>5. TypeInv /\ RulesInv /\ StoreInv /\ RestInv /\ [Next]_vars /\ [SerialStep]_vars => RestInv'
  BY NextRestInv
<1>6. RestInv => RestCommitted
  BY DEF RestInv, RestCommitted, AtRest, Progress, Committed, Reached, NoRules, Threads
<1> QED
  BY <1>1, <1>2, <1>3, <1>4, <1>5, <1>6, InitTypeInv, NextTypeInv, PTL DEF Spec, OneAtATime

=============================================================================
