--------------------------- MODULE OrderLifecycle ---------------------------
(***************************************************************************)
(* What a ticket order promises, whatever notifications arrive and in      *)
(* whatever order: it is opened PENDING, it may fail, and it is paid at    *)
(* most once - in the one step that also hands out all of its tickets.     *)
(* FAILED is not final (the gateway may confirm a later attempt of the     *)
(* same order); PAID is.                                                   *)
(*                                                                         *)
(* PaymentSettlement, the module of the code's concurrent settlement       *)
(* calls, implements this specification.                                   *)
(***************************************************************************)
EXTENDS Naturals

CONSTANTS
    Order,      \* the ticket orders (Payment rows with orderType TICKET)
    Quantity    \* Quantity[o]: tickets bought with order o

VARIABLES
    status,     \* status[o]: Payment.status as everybody else reads it
    tickets     \* tickets[o]: Ticket rows issued for order o

vars == <<status, tickets>>

Status == {"PENDING", "PAID", "FAILED"}

Init ==
    /\ status = [o \in Order |-> "PENDING"]
    /\ tickets = [o \in Order |-> 0]

Pay(o) ==
    /\ status[o] # "PAID"
    /\ status' = [status EXCEPT ![o] = "PAID"]
    /\ tickets' = [tickets EXCEPT ![o] = Quantity[o]]

Fail(o) ==
    /\ status[o] = "PENDING"
    /\ status' = [status EXCEPT ![o] = "FAILED"]
    /\ UNCHANGED tickets

Next == \E o \in Order : Pay(o) \/ Fail(o)

Spec == Init /\ [][Next]_vars
=============================================================================
