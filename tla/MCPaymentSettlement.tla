------------------------ MODULE MCPaymentSettlement ------------------------
(***************************************************************************)
(* Instances of PaymentSettlement for TLC. Three orders of one event: two  *)
(* carry the same discount code, and one of them asks for a table.         *)
(***************************************************************************)
EXTENDS PaymentSettlement, TLC

CONSTANTS o1, o2, o3, code1, table1

QuantityVal == o1 :> 1 @@ o2 :> 2 @@ o3 :> 1
SharedCode == o1 :> code1 @@ o2 :> code1 @@ o3 :> NoCode
OneTable == o1 :> table1 @@ o2 :> NoTable @@ o3 :> NoTable
OneUse == [c \in Code |-> 1]

\* Once people or the producer have touched the table, only calls about the
\* order that asks for it are looked at.
TableApart ==
    \/ /\ asking = {} /\ unseated = {}
       /\ \A t \in Table : /\ withdrawn[t] = 0
                          /\ reservations[t] = IF status[o1] = "PAID" THEN 1
                                                                    ELSE 0
    \/ \A k \in Call : pc[k] # "idle" => job[k].order = o1

CallSymmetry == Permutations(Call)
=============================================================================
