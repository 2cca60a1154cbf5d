------------------------- MODULE PaymentSettlement -------------------------
(***************************************************************************)
(* Settlement of ticket orders (payment-settlement.service.ts, the webhook *)
(* controller's confirm and getPayment, and the claim and checkout calls   *)
(* of settle), and the table reservations it makes, which people and       *)
(* producers also ask for, confirm and cancel                              *)
(* (table-reservations.controller.ts).                                     *)
(*                                                                         *)
(* A call of the API reads the Payment row, and then settles it with that  *)
(* copy in memory. The settlement runs in a database transaction under     *)
(* READ COMMITTED, one statement per action here: it claims the row with a *)
(* conditional UPDATE, appends to the payment ledger, creates the tickets  *)
(* and consumes the discount code; what it wrote is seen by others only    *)
(* after Commit. An UPDATE waits for the row lock of another transaction   *)
(* and evaluates its WHERE again afterwards. Any call may die at any       *)
(* point, which rolls its open transaction back.                           *)
(***************************************************************************)
EXTENDS Integers, Sequences, FiniteSets

CONSTANTS
    Order,      \* ticket orders
    Call,       \* API calls, each used at most once
    Code,       \* discount codes
    SingleUse,  \* the ACADEMY_PRESALE codes among them
    Table,      \* (person, event) pairs that can hold a table reservation
    Quantity,   \* Quantity[o]: tickets of order o
    CodeOf,     \* CodeOf[o]: its discount code, or NoCode
    TableOf,    \* TableOf[o]: the reservation it asks for, or NoTable
    MaxUses,    \* MaxUses[c]: DiscountCode.maxUses
    MaxTables,  \* bound: rows of a table up to which people ask for one
    NoCall, NoCode, NoTable

ASSUME ConstantsAssumption ==
    /\ Order # {}
    /\ Quantity \in [Order -> Nat \ {0}]
    /\ SingleUse \subseteq Code
    /\ CodeOf \in [Order -> Code \cup {NoCode}]
    /\ TableOf \in [Order -> Table \cup {NoTable}]
    /\ MaxUses \in [Code -> Nat \ {0}]
    /\ MaxTables \in Nat
    /\ NoCall \notin Call
    /\ NoCode \notin Code
    /\ NoTable \notin Table

VARIABLES
    \* Committed rows of the database.
    status,       \* Payment.status
    log,          \* types of the PaymentEvent rows of each order, by seq
    tickets,      \* number of Ticket rows of each order
    uses,         \* DiscountCode.usedCount
    redemptions,  \* DiscountRedemption rows of each order
    reservations, \* active TableReservation rows of each (person, event)
    withdrawn,    \* and the CANCELLED ones
    asking,       \* requests for a table that found no active one
    \* Row locks of open transactions.
    orderLock, codeLock,
    \* The calls in progress.
    pc, job,
    \* What was sent to people.
    receipts,     \* "payment.paid" notices and receipts sent, per order
    failNotices,  \* "payment.failed" notices sent, per order
    \* History.
    unseated      \* orders that lost a reservation after they looked for one

dbVars == <<status, log, tickets, uses, redemptions, reservations>>
lockVars == <<orderLock, codeLock>>
noticeVars == <<receipts, failNotices>>
tableVars == <<withdrawn, asking, unseated>>
vars == <<dbVars, lockVars, pc, job, noticeVars, tableVars>>
\* All that a request about a table leaves alone.
settleVars == <<status, log, tickets, uses, redemptions, lockVars, pc, job,
                noticeVars>>

Status == {"PENDING", "PAID", "FAILED"}
Verdict == {"PAID", "FAILED"}
Answer == {"none", "PAID", "FAILED", "duplicated", "error"}
EventType == {"WEBHOOK_RECEIVED", "STATUS_CONFIRMED", "AMOUNT_MISMATCH",
              "SETTLED", "FAILED"}

\* Steps of a PAID settlement between the claim of the row and the commit.
PaidTx == {"claimed", "emitted", "issued", "ready"}
\* Those at which the transaction also holds the ledger's advisory lock.
LedgerTx == {"emitted", "issued", "ready"}
Step == PaidTx \cup {"idle", "received", "settle", "failClaimed",
                     "notifyPaid", "notifyFailed", "done"}

Job == [order: Order, verdict: Verdict, seen: Status, books: BOOLEAN,
        mismatch: BOOLEAN, answer: Answer]

TypeOK ==
    /\ status \in [Order -> Status]
    /\ log \in [Order -> Seq(EventType)]
    /\ tickets \in [Order -> Nat]
    /\ uses \in [Code -> Nat]
    /\ redemptions \in [Order -> Nat]
    /\ reservations \in [Table -> Nat]
    /\ orderLock \in [Order -> Call \cup {NoCall}]
    /\ codeLock \in [Code -> Call \cup {NoCall}]
    /\ pc \in [Call -> Step]
    /\ job \in [Call -> Job]
    /\ receipts \in [Order -> Nat]
    /\ failNotices \in [Order -> Nat]
    /\ withdrawn \in [Table -> Nat]
    /\ asking \subseteq Table
    /\ unseated \subseteq Order

-----------------------------------------------------------------------------
NoJob == [order |-> CHOOSE o \in Order : TRUE, verdict |-> "FAILED",
          seen |-> "PENDING", books |-> FALSE, mismatch |-> FALSE,
          answer |-> "none"]

Init ==
    /\ status = [o \in Order |-> "PENDING"]
    /\ log = [o \in Order |-> <<>>]
    /\ tickets = [o \in Order |-> 0]
    /\ uses = [c \in Code |-> 0]
    /\ redemptions = [o \in Order |-> 0]
    /\ reservations = [t \in Table |-> 0]
    /\ orderLock = [o \in Order |-> NoCall]
    /\ codeLock = [c \in Code |-> NoCall]
    /\ pc = [k \in Call |-> "idle"]
    /\ job = [k \in Call |-> NoJob]
    /\ receipts = [o \in Order |-> 0]
    /\ failNotices = [o \in Order |-> 0]
    /\ withdrawn = [t \in Table |-> 0]
    /\ asking = {}
    /\ unseated = {}

Goto(k, step) == pc' = [pc EXCEPT ![k] = step]

\* The call answers a and ends.
Finish(k, a) ==
    /\ Goto(k, "done")
    /\ job' = [job EXCEPT ![k].answer = a]

\* Every row lock held by call k is free again.
ReleaseLocks(k) ==
    /\ orderLock' = [o \in Order |->
                        IF orderLock[o] = k THEN NoCall ELSE orderLock[o]]
    /\ codeLock' = [c \in Code |->
                        IF codeLock[c] = k THEN NoCall ELSE codeLock[c]]

\* No open transaction holds the ledger's lock on order o.
LedgerFree(o) ==
    \A k \in Call : ~(pc[k] \in LedgerTx /\ job[k].order = o)

Open(k, o, v, mm, step) ==
    /\ pc[k] = "idle"
    /\ Goto(k, step)
    /\ job' = [job EXCEPT ![k] = [NoJob EXCEPT !.order = o, !.verdict = v,
                                  !.seen = status[o], !.mismatch = mm]]
    /\ UNCHANGED <<dbVars, lockVars, noticeVars>>

\* The gateway notifies; confirm() reads the Payment row. Notifications may
\* be repeated, come in any order and contradict each other.
Confirm(k, o, v, mm) == Open(k, o, v, mm, "received")

\* The owner polls GET /payments/:id: the provider is asked only about an
\* order that was read PENDING.
GetPayment(k, o, v, mm) ==
    /\ status[o] = "PENDING"
    /\ Open(k, o, v, mm, "settle")

\* An approved proof of payment, or the checkout of an order that costs
\* nothing, settles as PAID without any gateway.
ApproveOrder(k, o) == Open(k, o, "PAID", FALSE, "settle")

\* WEBHOOK_RECEIVED in a transaction of its own, for every notification.
RecordWebhookReceived(k) ==
    LET o == job[k].order IN
    /\ pc[k] = "received"
    /\ LedgerFree(o)
    /\ log' = [log EXCEPT ![o] = Append(@, "WEBHOOK_RECEIVED")]
    /\ Goto(k, "settle")
    /\ UNCHANGED <<status, tickets, uses, redemptions, reservations,
                   lockVars, job, noticeVars>>

\* settle(): the copy in memory already says PAID.
SettleDuplicated(k) ==
    /\ pc[k] = "settle"
    /\ job[k].seen = "PAID"
    /\ Finish(k, "duplicated")
    /\ UNCHANGED <<dbVars, lockVars, noticeVars>>

\* Mutant of ClaimFailed: a late FAILED also overwrites PAID.
ClaimFailedOverPaid(k) ==
    LET o == job[k].order IN
    /\ pc[k] = "settle"
    /\ job[k].seen # "PAID"
    /\ job[k].verdict = "FAILED"
    /\ orderLock[o] = NoCall
    /\ status[o] # "FAILED"
    /\ orderLock' = [orderLock EXCEPT ![o] = k]
    /\ Goto(k, "failClaimed")
    /\ UNCHANGED <<dbVars, codeLock, noticeVars, job>>

\* settle() with FAILED: UPDATE ... WHERE status = PENDING.
ClaimFailed(k) ==
    LET o == job[k].order IN
    /\ pc[k] = "settle"
    /\ job[k].seen # "PAID"
    /\ job[k].verdict = "FAILED"
    /\ orderLock[o] = NoCall
    /\ IF status[o] = "PENDING"
         THEN /\ orderLock' = [orderLock EXCEPT ![o] = k]
              /\ Goto(k, "failClaimed")
              /\ UNCHANGED job
         ELSE /\ Finish(k, "FAILED")
              /\ UNCHANGED orderLock
    /\ UNCHANGED <<dbVars, codeLock, noticeVars>>

\* STATUS_CONFIRMED and FAILED are appended and the claim commits.
CommitFailed(k) ==
    LET o == job[k].order IN
    /\ pc[k] = "failClaimed"
    /\ status' = [status EXCEPT ![o] = "FAILED"]
    /\ log' = [log EXCEPT ![o] = @ \o <<"STATUS_CONFIRMED", "FAILED">>]
    /\ ReleaseLocks(k)
    /\ Goto(k, "notifyFailed")
    /\ UNCHANGED <<tickets, uses, redemptions, reservations, job, noticeVars>>

NotifyFailed(k) ==
    /\ pc[k] = "notifyFailed"
    /\ failNotices' = [failNotices EXCEPT ![job[k].order] = @ + 1]
    /\ Finish(k, "FAILED")
    /\ UNCHANGED <<dbVars, lockVars, receipts>>

\* Mutant of ClaimPaid: the status is read, checked and then written, so that
\* two calls can both have read PENDING.
ClaimPaidByRead(k) ==
    LET o == job[k].order IN
    /\ pc[k] = "settle"
    /\ job[k].seen # "PAID"
    /\ job[k].verdict = "PAID"
    /\ IF status[o] # "PAID"
         THEN Goto(k, "claimed") /\ UNCHANGED job
         ELSE Finish(k, "PAID")
    /\ UNCHANGED <<dbVars, lockVars, noticeVars>>

\* Mutant of ClaimPaid: a row that is locked is taken for one that is paid.
ClaimPaidSkipLocked(k) ==
    LET o == job[k].order IN
    /\ pc[k] = "settle"
    /\ job[k].seen # "PAID"
    /\ job[k].verdict = "PAID"
    /\ IF status[o] # "PAID" /\ orderLock[o] = NoCall
         THEN /\ orderLock' = [orderLock EXCEPT ![o] = k]
              /\ Goto(k, "claimed")
              /\ UNCHANGED job
         ELSE /\ Finish(k, "PAID")
              /\ UNCHANGED orderLock
    /\ UNCHANGED <<dbVars, codeLock, noticeVars>>

\* settleTicket(): UPDATE ... WHERE status # PAID. A FAILED order can still
\* be paid; of two calls the second one waits, sees PAID and does nothing.
ClaimPaid(k) ==
    LET o == job[k].order IN
    /\ pc[k] = "settle"
    /\ job[k].seen # "PAID"
    /\ job[k].verdict = "PAID"
    /\ orderLock[o] = NoCall
    /\ IF status[o] # "PAID"
         THEN /\ orderLock' = [orderLock EXCEPT ![o] = k]
              /\ Goto(k, "claimed")
              /\ UNCHANGED job
         ELSE /\ Finish(k, "PAID")
              /\ UNCHANGED orderLock
    /\ UNCHANGED <<dbVars, codeLock, noticeVars>>

\* The events of the transition; from here on the ledger is locked.
EmitSettleEvents(k) ==
    /\ pc[k] = "claimed"
    /\ Goto(k, "emitted")
    /\ UNCHANGED <<dbVars, lockVars, job, noticeVars>>

\* Mutant of IssueTickets: a reservation that was cancelled counts as one.
IssueTicketsAnyStatus(k) ==
    LET t == TableOf[job[k].order] IN
    /\ pc[k] = "emitted"
    /\ job' = [job EXCEPT ![k].books =
                  t # NoTable /\ reservations[t] + withdrawn[t] = 0]
    /\ Goto(k, "issued")
    /\ UNCHANGED <<dbVars, lockVars, noticeVars>>

\* Buyer, gift and claimable tickets, and the table reservation unless the
\* person is seen to hold one already.
IssueTickets(k) ==
    LET t == TableOf[job[k].order] IN
    /\ pc[k] = "emitted"
    /\ job' = [job EXCEPT ![k].books =
                  t # NoTable /\ reservations[t] = 0]
    /\ Goto(k, "issued")
    /\ UNCHANGED <<dbVars, lockVars, noticeVars>>

\* An order without a code.
SkipCode(k) ==
    /\ pc[k] = "issued"
    /\ CodeOf[job[k].order] = NoCode
    /\ Goto(k, "ready")
    /\ UNCHANGED <<dbVars, lockVars, job, noticeVars>>

\* Mutant of ConsumeCode: the single-use code trusts the checkout's check.
ConsumeCodeUnchecked(k) ==
    LET c == CodeOf[job[k].order] IN
    /\ pc[k] = "issued"
    /\ c # NoCode
    /\ codeLock[c] = NoCall
    /\ codeLock' = [codeLock EXCEPT ![c] = k]
    /\ Goto(k, "ready")
    /\ UNCHANGED <<dbVars, orderLock, job, noticeVars>>

\* usedCount + 1: conditional for an academy's single-use code, without any
\* condition for the others.
ConsumeCode(k) ==
    LET c == CodeOf[job[k].order] IN
    /\ pc[k] = "issued"
    /\ c # NoCode
    /\ codeLock[c] = NoCall
    /\ c \in SingleUse => uses[c] < MaxUses[c]
    /\ codeLock' = [codeLock EXCEPT ![c] = k]
    /\ Goto(k, "ready")
    /\ UNCHANGED <<dbVars, orderLock, job, noticeVars>>

\* The single-use code is gone: the exception rolls everything back.
RejectCode(k) ==
    LET c == CodeOf[job[k].order] IN
    /\ pc[k] = "issued"
    /\ c \in SingleUse
    /\ codeLock[c] = NoCall
    /\ uses[c] >= MaxUses[c]
    /\ ReleaseLocks(k)
    /\ Finish(k, "error")
    /\ UNCHANGED <<dbVars, noticeVars>>

SettleEvents(k) ==
    IF job[k].mismatch
      THEN <<"STATUS_CONFIRMED", "AMOUNT_MISMATCH", "SETTLED">>
      ELSE <<"STATUS_CONFIRMED", "SETTLED">>

\* Everything the transaction wrote becomes visible at once.
CommitPaid(k) ==
    LET o == job[k].order
        c == CodeOf[o]
        t == TableOf[o]
    IN
    /\ pc[k] = "ready"
    /\ status' = [status EXCEPT ![o] = "PAID"]
    /\ log' = [log EXCEPT ![o] = @ \o SettleEvents(k)]
    /\ tickets' = [tickets EXCEPT ![o] = @ + Quantity[o]]
    /\ uses' = [d \in Code |-> IF d = c THEN uses[d] + 1 ELSE uses[d]]
    /\ redemptions' = [redemptions EXCEPT ![o] =
                          IF c = NoCode THEN @ ELSE @ + 1]
    /\ reservations' = [u \in Table |->
                           IF u = t /\ job[k].books THEN reservations[u] + 1
                                                    ELSE reservations[u]]
    /\ ReleaseLocks(k)
    /\ Goto(k, "notifyPaid")
    /\ UNCHANGED <<job, noticeVars>>

\* "payment.paid", the sale and gift notices and emitPaidReceipts, all after
\* the commit and only in the call that made the transition.
NotifyPaid(k) ==
    /\ pc[k] = "notifyPaid"
    /\ receipts' = [receipts EXCEPT ![job[k].order] = @ + 1]
    /\ Finish(k, "PAID")
    /\ UNCHANGED <<dbVars, lockVars, failNotices>>

\* The process dies: an open transaction is rolled back, nobody resumes it.
Crash(k) ==
    /\ pc[k] \notin {"idle", "done"}
    /\ ReleaseLocks(k)
    /\ Finish(k, "error")
    /\ UNCHANGED <<dbVars, noticeVars>>

Arrive(k) ==
    \E o \in Order :
        \/ \E v \in Verdict, mm \in BOOLEAN :
              Confirm(k, o, v, mm) \/ GetPayment(k, o, v, mm)
        \/ ApproveOrder(k, o)

Progress(k) ==
    \/ RecordWebhookReceived(k)
    \/ SettleDuplicated(k)
    \/ ClaimFailed(k) \/ CommitFailed(k) \/ NotifyFailed(k)
    \/ ClaimPaid(k) \/ EmitSettleEvents(k) \/ IssueTickets(k)
    \/ SkipCode(k) \/ ConsumeCode(k) \/ RejectCode(k)
    \/ CommitPaid(k) \/ NotifyPaid(k)

CallStep(k) ==
    /\ Arrive(k) \/ Progress(k) \/ Crash(k)
    /\ UNCHANGED tableVars

\* POST: the person is seen to have no active reservation in this event.
AskTable(t) ==
    /\ reservations[t] = 0
    /\ t \notin asking
    /\ reservations[t] + withdrawn[t] < MaxTables
    /\ asking' = asking \cup {t}
    /\ UNCHANGED <<reservations, withdrawn, unseated>>

\* The row is created, in a statement of its own.
GrantTable(t) ==
    /\ t \in asking
    /\ asking' = asking \ {t}
    /\ reservations' = [reservations EXCEPT ![t] = @ + 1]
    /\ UNCHANGED <<withdrawn, unseated>>

\* Order o is paid, or its settlement has found a reservation and will make
\* none.
Looked(o) ==
    \/ status[o] = "PAID"
    \/ \E k \in Call : /\ pc[k] \in {"issued", "ready"}
                       /\ job[k].order = o
                       /\ ~job[k].books

\* The producer (PATCH) or the person (DELETE) cancels a reservation.
CancelTable(t) ==
    /\ reservations[t] > 0
    /\ reservations' = [reservations EXCEPT ![t] = @ - 1]
    /\ withdrawn' = [withdrawn EXCEPT ![t] = @ + 1]
    /\ unseated' = unseated \cup {o \in Order : TableOf[o] = t /\ Looked(o)}
    /\ UNCHANGED asking

\* The producer confirms one that was cancelled, whatever other there is.
ConfirmTable(t) ==
    /\ withdrawn[t] > 0
    /\ withdrawn' = [withdrawn EXCEPT ![t] = @ - 1]
    /\ reservations' = [reservations EXCEPT ![t] = @ + 1]
    /\ UNCHANGED <<asking, unseated>>

TableStep(t) ==
    /\ AskTable(t) \/ GrantTable(t) \/ CancelTable(t) \/ ConfirmTable(t)
    /\ UNCHANGED settleVars

Next ==
    \/ \E k \in Call : CallStep(k)
    \/ \E t \in Table : TableStep(t)

Spec == Init /\ [][Next]_vars

-----------------------------------------------------------------------------
\* Each order's tickets exist exactly when it is PAID, and exactly as many as
\* were bought, however many notifications, polls and approvals settled it
\* at the same time and wherever they died (claim of settleTicket).
TicketsIffPaid ==
    \A o \in Order :
        tickets[o] = IF status[o] = "PAID" THEN Quantity[o] ELSE 0

\* A single-use academy code is never redeemed more often than it allows,
\* although its use is only checked when the order is created.
SingleUseRespected == \A c \in SingleUse : uses[c] <= MaxUses[c]

\* The ledger without the notifications it records as evidence.
Transitions(o) ==
    LET kept[n \in 0 .. Len(log[o])] ==
          IF n = 0 THEN <<>>
          ELSE IF log[o][n] = "WEBHOOK_RECEIVED" THEN kept[n - 1]
               ELSE Append(kept[n - 1], log[o][n])
    IN  kept[Len(log[o])]

\* The ledger of an order tells one story: nothing, a failure, a payment, or
\* a failure and then a payment; each at most once, in that order, and in
\* agreement with the status of the row.
LedgerTellsStatus ==
    LET fail == <<"STATUS_CONFIRMED", "FAILED">>
        paid == {<<"STATUS_CONFIRMED", "SETTLED">>,
                 <<"STATUS_CONFIRMED", "AMOUNT_MISMATCH", "SETTLED">>}
    IN \A o \in Order :
         CASE status[o] = "PENDING" -> Transitions(o) = <<>>
           [] status[o] = "FAILED" -> Transitions(o) = fail
           [] status[o] = "PAID" ->
                Transitions(o) \in paid \cup {fail \o p : p \in paid}

\* People are told once at most, and of a payment only if it happened.
NoticesAtMostOnce ==
    \A o \in Order :
        /\ failNotices[o] <= 1
        /\ receipts[o] <= 1
        /\ receipts[o] = 1 => status[o] = "PAID"

\* A call that answered PAID (or "duplicated") found the payment committed:
\* losing the race for the claim never acknowledges a settlement that was
\* rolled back.
AnsweredPaidIsPaid ==
    \A k \in Call :
        job[k].answer \in {"PAID", "duplicated"} =>
            /\ status[job[k].order] = "PAID"
            /\ tickets[job[k].order] = Quantity[job[k].order]

\* A paid order that asked for a table leaves its person with a reservation,
\* until the person or the producer cancels one the order had counted on: a
\* cancelled row never keeps a settlement from booking.
TableIsHeld ==
    \A o \in Order :
        (status[o] = "PAID" /\ TableOf[o] # NoTable) =>
            reservations[TableOf[o]] >= 1 \/ o \in unseated

\* A paid order stays paid: a late FAILED, a repeated PAID or a crash never
\* takes the payment or its tickets back.
KeepsPaid ==
    \A o \in Order : status[o] = "PAID" =>
        /\ status'[o] = "PAID"
        /\ tickets'[o] = tickets[o]
PaidIsFinal == [][KeepsPaid]_vars

\* Settlement calls implement the life cycle of an order.
Lifecycle == INSTANCE OrderLifecycle
    WITH Order <- Order, Quantity <- Quantity, status <- status, tickets <- tickets
LifecycleSpec == Lifecycle!Spec
=============================================================================
