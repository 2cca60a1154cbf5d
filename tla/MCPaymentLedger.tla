-------------------------- MODULE MCPaymentLedger --------------------------
(***************************************************************************)
(* Instance of  PaymentLedger for TLC: three emitters on three payments,   *)
(* two of which have the same hashtext.                                    *)
(***************************************************************************)
EXTENDS PaymentLedger, TLC

CONSTANTS p1, p2, p3, x1, x2

CollidingKeys == p1 :> x1 @@ p2 :> x2 @@ p3 :> x2
=============================================================================
