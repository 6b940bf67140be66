---------------------------- MODULE ConfigStatus ----------------------------
(***************************************************************************)
(* What the status of one VRouterConfig tells the binding controller - its *)
(* phase, the generation last dispatched, and the generation for which the *)
(* Applied condition is True - and the moves it makes.  VRouterConfig is   *)
(* checked to make no other; VRouterBinding lets it make any of these.     *)
(***************************************************************************)
EXTENDS Naturals

\* ok is the generation with Applied=True, 0 when the condition is not True.
NewStatus == [phase |-> "Pending", obs |-> 0, ok |-> 0]
StatusType == [phase : {"Pending", "Applying", "Applied", "Failed"},
               obs : Nat, ok : Nat]

\* applyConfig: an exec of a generation not older than the last one dispatched.
Dispatched(s, g) == [s EXCEPT !.phase = "Applying", !.obs = g, !.ok = 0]
CanDispatch(s, g, gen) == g > 0 /\ g >= s.obs /\ g <= gen

\* pollExecStatus, failApplyTimeout: the exec's end is known, or given up on.
Succeeded(s) == [s EXCEPT !.phase = "Applied", !.ok = s.obs]
Failed(s) == [s EXCEPT !.phase = "Failed", !.ok = 0]

\* A lost exec result, or a router that is no longer ready.
Reset(s) == [s EXCEPT !.phase = "Pending", !.ok = 0]

Move(s, new, gen) ==
    \/ s.phase # "Applying" /\ CanDispatch(s, new.obs, gen)
       /\ new = Dispatched(s, new.obs)
    \/ s.phase = "Applying" /\ new \in {Succeeded(s), Failed(s), Reset(s)}
    \/ s.phase = "Applied" /\ new = Reset(s)

=============================================================================
