------------------------------ MODULE MCRaces ------------------------------
(* Two clients whose requests overlap in any way, two names to resolve.     *)
EXTENDS SplitTunnelProps, TLC

CONSTANTS d1, d2, x, y

List(v, d) == [k \in Dirs |-> IF k = "vpn" THEN v ELSE d]
On(v, d)   == [enabled |-> TRUE, mode |-> "inclusive",
               apps |-> List({}, {}), domains |-> List(v, d)]

\* d1 always resolves, d2 may fail: half an answer is possible.
MCAnswers  == [d \in {d1, d2} |-> IF d = d1 THEN {{x}} ELSE {{}, {y}}]
MCRequests == { DefaultSettings, On({d1, d2}, {}) }

\* Clients are alike, and so are the loop threads; no liveness is checked here.
Symmetry == Permutations(Clients) \union Permutations(ProcLoops) \union Permutations(DnsLoops)

=============================================================================
