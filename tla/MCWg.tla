-------------------------------- MODULE MCWg --------------------------------
(* Two tunnels; clients, contents, peers and failures as each cfg says.      *)
EXTENDS WgSession, TLC

CONSTANT Named      \* contents whose peers have names for endpoints

MCEndpoints == [v \in Configs |-> IF v \in Named THEN {} ELSE Hosts]

\* A route, and a rule in the middle of cleanup_routing.
MCStuck == { <<"v4", "route">>, <<"v4", "fw">> }

\* Clients are alike, and so are the two tunnels; no liveness is checked.
Symmetry == Permutations(Clients) \union Permutations(Tunnels)

=============================================================================
