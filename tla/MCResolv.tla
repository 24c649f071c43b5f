------------------------------ MODULE MCResolv ------------------------------
(* Two contents of each kind; the failures are those each cfg names.         *)
EXTENDS ResolvConf, TLC

\* Contents of one kind are alike; no liveness is checked.
Symmetry == Permutations(Hosts) \union Permutations(Servers)

=============================================================================
