------------------------------ MODULE MCNames ------------------------------
(* One client at a time and no failing command: what is true between         *)
(* requests, and what comes of a name that moves from one list to the other. *)
EXTENDS SplitTunnelProps

CONSTANTS a1, a2, d1, d2, x, y, z

List(v, d)     == [k \in Dirs |-> IF k = "vpn" THEN v ELSE d]
On(m, a, v, d) == [enabled |-> TRUE, mode |-> m,
                   apps |-> List({a1}, a), domains |-> List(v, d)]

\* The addresses of d1 change; d2 has its own, and changes list.
MCAnswers  == [d \in {d1, d2} |-> IF d = d1 THEN {{x}, {y}} ELSE {{z}}]
MCRequests == { DefaultSettings,
                On("exclusive", {a2}, {d1}, {d2}),
                On("inclusive", {}, {d2}, {}) }

=============================================================================
