------------------------------- MODULE MCApps -------------------------------
(* Processes that start, exec, fork and exit, with pids that are reused,     *)
(* while the monitor is started, replaced and stopped.                       *)
EXTENDS SplitTunnelProps

CONSTANTS a1, a2

List(v, d) == [k \in Dirs |-> IF k = "vpn" THEN v ELSE d]
On(a)      == [enabled |-> TRUE, mode |-> "exclusive",
               apps |-> List({}, a), domains |-> List({}, {})]

MCAnswers  == [d \in {} |-> {}]
MCRequests == { DefaultSettings, On({a1}), On({a2}) }

=============================================================================
