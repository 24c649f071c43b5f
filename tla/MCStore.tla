------------------------------ MODULE MCStore ------------------------------
(* Two clients; one name that both change and one that the first owns.       *)
EXTENDS TunnelStore, TLC

CONSTANTS c1, shared, owned, long, short

MCOwner == [n \in {owned} |-> c1]
MCSize  == [v \in Configs |-> IF v = long THEN 2 ELSE 1]

=============================================================================
