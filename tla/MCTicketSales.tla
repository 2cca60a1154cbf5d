--------------------------- MODULE MCTicketSales ---------------------------
(***************************************************************************)
(* Instances of TicketSales for TLC: purchases of one and two tickets, one *)
(* of them or two with the credits of a pass.                              *)
(***************************************************************************)
EXTENDS TicketSales, TLC

CONSTANTS k1, k2, k3

Quantities == [k \in Purchase |-> IF k = k1 THEN 2 ELSE 1]

\* k2 and k3 ask for the same.
EqualPurchases == Permutations({k2, k3})
=============================================================================
