---------------------------- MODULE MCSocialPass ----------------------------
(***************************************************************************)
(* Instances of SocialPass for TLC: two subscriptions, the first of which  *)
(* is renewed once.                                                        *)
(***************************************************************************)
EXTENDS SocialPass, TLC

OneRenewal == <<2, 1>>
SlotSymmetry == Permutations(Slot)

\* Exploration ends where the properties stop saying something.
Undisturbed == ~raced /\ ~crossed
=============================================================================
