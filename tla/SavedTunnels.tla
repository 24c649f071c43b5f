---------------------------- MODULE SavedTunnels ----------------------------
(***************************************************************************)
(* What the tunnel store promises of a name: one configuration, which adds *)
(* and imports create where there is none, and updates replace and deletes *)
(* remove where there is one, each at once.  Only a write that is cut      *)
(* short loses it: a daemon that dies leaves it blank, a full disk leaves  *)
(* a part of the new one.  TunnelStore implements this for the names that  *)
(* no two clients change at a time.                                        *)
(***************************************************************************)
CONSTANTS Names, Configs, Absent, Blank, Cut

VARIABLES
    saved,      \* what is saved under each name
    did,        \* the last request that changed it
    lost        \* the names whose last write was cut short

vars == <<saved, did, lost>>

Init ==
    /\ saved \in [Names -> Configs \union {Absent}]
    /\ did = [n \in Names |-> "none"]
    /\ lost = {}

Save(n, how, v) ==
    /\ saved' = [saved EXCEPT ![n] = v]
    /\ did' = [did EXCEPT ![n] = how]
    /\ lost' = lost \ {n}

Add(n, v)    == saved[n] = Absent /\ \E how \in {"add", "import"} : Save(n, how, v)
Update(n, v) == saved[n] # Absent /\ Save(n, "update", v)
Delete(n)    == saved[n] # Absent /\ Save(n, "delete", Absent)

Lose(ns) ==
    /\ \E f \in [ns -> {Blank, Cut}] :
        saved' = [n \in Names |-> IF n \in ns THEN f[n] ELSE saved[n]]
    /\ lost' = lost \union ns
    /\ UNCHANGED did

Next ==
    \/ \E n \in Names :
        \/ \E v \in Configs : Add(n, v) \/ Update(n, v)
        \/ Delete(n)
    \/ \E ns \in SUBSET Names : Lose(ns)

Spec == Init /\ [][Next]_vars

=============================================================================
