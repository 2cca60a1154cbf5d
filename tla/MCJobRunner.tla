---------------------------- MODULE MCJobRunner ----------------------------
(***************************************************************************)
(* Instances of JobRunner for TLC: two instances of the API, which start   *)
(* again of a deploy with or without the handlers.                         *)
(***************************************************************************)
EXTENDS JobRunner, TLC

CONSTANTS mail, sweep, p1, p2, t1, t2, a1

Homes == [w \in Worker |-> IF w = t2 THEN p2 ELSE p1]

EveryJobOrNone == {Job, {}}
=============================================================================
