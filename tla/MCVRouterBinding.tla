-------------------------- MODULE MCVRouterBinding --------------------------
(***************************************************************************)
(* Constants of VRouterBinding for TLC: two targets, rolled out in the     *)
(* order of their names.                                                   *)
(***************************************************************************)
EXTENDS VRouterBinding

CONSTANTS t1, t2

TwoTargets == <<t1, t2>>

\* The applies that fail in the runs with a bad render.
NoBad == {}
BadSecond == {<<t2, 2>>}

=============================================================================
