------------------------------ MODULE MCFaults ------------------------------
(* Everything outside the daemon fails, at any time; one client.             *)
EXTENDS SplitTunnelProps, TLC

CONSTANTS a1, d1, x

List(v, d)   == [k \in Dirs |-> IF k = "vpn" THEN v ELSE d]
On(a, v, d)  == [enabled |-> TRUE, mode |-> "inclusive",
                 apps |-> List(a, {}), domains |-> List(v, d)]

MCAnswers  == [d \in {d1} |-> {{}, {x}}]
MCRequests == { DefaultSettings, On({a1}, {d1}, {}) }

\* Interfaces are alike, and so are the loop threads; no liveness is checked.
Symmetry == Permutations(Ifaces) \union Permutations(ProcLoops) \union Permutations(DnsLoops)

=============================================================================
