-------------------------- MODULE MCCardMembership --------------------------
(***************************************************************************)
(* Instances of CardMembership for TLC: a plan of each provider.           *)
(***************************************************************************)
EXTENDS CardMembership, TLC

CONSTANTS a, b, r1, r2, w1

=============================================================================
