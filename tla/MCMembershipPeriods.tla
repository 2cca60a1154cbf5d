------------------------ MODULE MCMembershipPeriods ------------------------
(***************************************************************************)
(* Instances of MembershipPeriods for TLC.                                 *)
(***************************************************************************)
EXTENDS MembershipPeriods, TLC

CONSTANTS r1, r2, job, i1

=============================================================================
