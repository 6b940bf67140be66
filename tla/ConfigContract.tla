--------------------------- MODULE ConfigContract ---------------------------
(***************************************************************************)
(* The abstract life of a VRouterConfig object: incarnations, generations  *)
(* and the status of ConfigStatus, with no reconcile, exec or cache.       *)
(***************************************************************************)
EXTENDS ConfigStatus

VARIABLES uid, gen, st

vars == <<uid, gen, st>>

Created(u) == uid' = u /\ gen' = 1 /\ st' = NewStatus

Init == uid = 1 /\ gen = 1
        /\ st \in {NewStatus, Dispatched(NewStatus, 1)}

\* A spec change, a status move, or a delete followed by a create.
Next == \/ gen' = gen + 1 /\ UNCHANGED <<uid, st>>
        \/ Move(st, st', gen) /\ UNCHANGED <<uid, gen>>
        \/ Created(uid + 1)

Spec == Init /\ [][Next]_vars

=============================================================================
