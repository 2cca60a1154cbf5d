----------------------------- MODULE MCPayouts -----------------------------
(***************************************************************************)
(* Instances of Payouts for TLC: a managed sale whose gateway cost more    *)
(* than the deduction that was agreed, a sale by the seller's own methods, *)
(* a membership of an academy of the COBROS tier, and two weeks that a     *)
(* month contains.                                                         *)
(***************************************************************************)
EXTENDS Payouts, TLC

CONSTANTS managed, own, membership, week1, week2, month

ASaleOf ==
    LET sale == [mode |-> "MANAGED", manual |-> FALSE, amount |-> 60,
                 producerNet |-> 57, gatewayFee |-> 4, ownNet |-> 0,
                 ownVat |-> 0, membership |-> FALSE]
    IN  managed :> sale
     @@ own :> [sale EXCEPT !.mode = "OWN_METHOD", !.manual = TRUE,
                            !.ownNet = 3, !.ownVat = 1]
     @@ membership :> [sale EXCEPT !.mode = "ACADEMY", !.membership = TRUE,
                                   !.gatewayFee = 6]

SomeSales == [o \in Order |-> ASaleOf[o]]

WeeksAndMonth ==
    week1 :> {managed} @@ week2 :> Order \ {managed} @@ month :> Order

Weeks == [d \in Period |-> WeeksAndMonth[d]]

\* Bound: money leaves for one of the payouts, and one thing goes wrong.
OnePaid ==
    /\ Cardinality(overwritten) + Cardinality(lost)
         + Cardinality(conflicts) <= 1
    /\ Cardinality(transfers \cup {p \in PayoutId : byHand[p] > 0}) <= 1

CallSymmetry == Permutations(Call)
=============================================================================
