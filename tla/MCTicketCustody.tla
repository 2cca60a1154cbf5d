-------------------------- MODULE MCTicketCustody --------------------------
(***************************************************************************)
(* Instances of TicketCustody for TLC: a buyer with his own ticket and one *)
(* to share, a friend and a stranger.                                      *)
(***************************************************************************)
EXTENDS TicketCustody, TLC

CONSTANTS buyer, friend, other, t1, t2

AllBought == [t \in Ticket |-> buyer]

CallSymmetry == Permutations(Call)
=============================================================================
