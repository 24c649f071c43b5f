------------------------------ MODULE LoopSlot ------------------------------
(***************************************************************************)
(* What a LoopHandle slot of the split-tunnel manager promises, whatever   *)
(* the background loop does: the slot owns at most one loop thread, a loop *)
(* that is owned keeps running, and a loop that has lost the slot, and     *)
(* only such a loop, winds down and ends.  SplitTunnel implements it       *)
(* twice, once for the process monitor and once for the DNS resolver.      *)
(***************************************************************************)
CONSTANTS
    Loops,      \* loop threads
    NoLoop      \* an empty slot

VARIABLES
    slot,       \* the loop whose cancel flag the manager holds
    alive       \* the loop threads that have not returned

vars == <<slot, alive>>

Init ==
    /\ slot = NoLoop
    /\ alive = {}

\* A new thread takes the slot; whoever held it is on its own from now on.
Launch(l) ==
    /\ l \notin alive
    /\ slot' = l
    /\ alive' = alive \union {l}

\* The slot is emptied; the thread that held it is still running.
Release ==
    /\ slot' = NoLoop
    /\ UNCHANGED alive

\* A thread returns, which it does only after it lost the slot.
Return(l) ==
    /\ l \in alive \ {slot}
    /\ alive' = alive \ {l}
    /\ UNCHANGED slot

Next ==
    \/ \E l \in Loops : Launch(l) \/ Return(l)
    \/ Release

Safety == Init /\ [][Next]_vars

\* A thread that lost the slot is not left running for ever.
Fairness == \A l \in Loops : WF_vars(Return(l))

Spec == Safety /\ Fairness

=============================================================================
