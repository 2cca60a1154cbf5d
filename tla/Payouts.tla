------------------------------ MODULE Payouts ------------------------------
(***************************************************************************)
(* The liquidations of one seller (payouts.controller.ts), with the fees   *)
(* of PayoutFees, and the documents that charge them (billing.service.ts). *)
(*                                                                         *)
(* An administrator's request reads a payout and then writes it, one       *)
(* statement per action; two requests interleave between their statements  *)
(* and each may die. Stripe executes a transfer once for each payout,      *)
(* because the payout is its idempotency key, also when the answer of the  *)
(* first attempt was lost.                                                 *)
(***************************************************************************)
EXTENDS PayoutFees, Sequences, FiniteSets, FiniteSetsExt

CONSTANTS
    Order,       \* payments of the seller
    Period,      \* periods that can be liquidated
    OrdersOf,    \* OrdersOf[d]: the orders created within period d
    SaleOf,      \* SaleOf[o]: the snapshot of order o
    Iva, Pct, Take,  \* parameters of the fees
    Call,        \* requests of administrators that can be open at once
    MaxPayouts,  \* bound of the runs: payouts
    MaxByHand,   \* bound of the runs: evidences of one payout
    NoCall

ASSUME ConstantsAssumption ==
    /\ Period # {}
    /\ OrdersOf \in [Period -> SUBSET Order]
    /\ SaleOf \in [Order -> Sale]
    /\ \A o \in Order : SaleOf[o].producerNet <= SaleOf[o].amount
    /\ Iva \in Nat /\ Pct \in Nat /\ Take \in Nat
    /\ MaxPayouts \in Nat /\ MaxByHand \in Nat
    /\ NoCall \notin Call

VARIABLES
    paid,        \* orders whose payment is PAID
    payouts,     \* the Payout rows with their lines, in order of creation
    documents,   \* folio and state of the BillingDocument of each payout
    counter,     \* BillingCounter.next
    counterLock, \* the call whose transaction holds the row of the counter
    transfers,   \* payouts for which Stripe has executed a transfer
    byHand,      \* transfers made by hand, of which evidence was recorded
    conflicts,   \* payouts with PAYOUT_DISBURSE_CONFLICT in the audit log
    \* The calls in progress.
    pc, job,
    \* History: payouts whose status was overwritten unseen, and payouts of
    \* whose transfer the answer was lost on the way or in a crash.
    overwritten, lost

rowVars == <<payouts, documents, counter, counterLock>>
moneyVars == <<transfers, byHand, conflicts>>
historyVars == <<overwritten, lost>>
vars == <<paid, rowVars, moneyVars, pc, job, historyVars>>

PayoutId == 1 .. MaxPayouts
Status == {"PENDING", "APPROVED", "PAID"}

\* What the liquidation pays for the orders in S.
NetOf(S) ==
    LET lines(o) == LinesOf(SaleOf[o], Iva, Pct, Take)
        part(o) == GrossOf(SaleOf[o]) - PlatformFee(lines(o))
                                      - GatewayFee(lines(o))
    IN  MapThenSumSet(part, {o \in S : Accrues(SaleOf[o])})

\* known: how many payouts there were when the call looked for this one.
Payout == [period: Period, orders: SUBSET Order,
           net: {NetOf(S) : S \in SUBSET Order}, status: Status,
           rail: BOOLEAN, known: 0 .. MaxPayouts]

NoDocument == [folio |-> 0, status |-> "none"]
Document == [folio: Nat, status: {"none", "ISSUED", "VOID"}]

Step == {"idle", "compute", "create", "approve", "pay", "transfer", "claim",
         "conflict", "issue", "takeFolio", "insert", "void"}

\* folio: the number that an issuing transaction has taken.
Job == [payout: 0 .. MaxPayouts, period: Period, orders: SUBSET Order,
        known: 0 .. MaxPayouts, folio: Nat]

Rows == 1 .. Len(payouts)

TypeOK ==
    /\ paid \subseteq Order
    /\ payouts \in Seq(Payout) /\ Len(payouts) <= MaxPayouts
    /\ documents \in [PayoutId -> Document]
    /\ counter \in Nat \ {0}
    /\ counterLock \in Call \cup {NoCall}
    /\ transfers \subseteq PayoutId
    /\ byHand \in [PayoutId -> Nat]
    /\ conflicts \subseteq PayoutId
    /\ pc \in [Call -> Step]
    /\ job \in [Call -> Job]
    /\ overwritten \subseteq PayoutId /\ lost \subseteq PayoutId

NoJob == [payout |-> 0, period |-> CHOOSE d \in Period : TRUE,
          orders |-> {}, known |-> 0, folio |-> 0]

Init ==
    /\ paid = {}
    /\ payouts = <<>>
    /\ documents = [p \in PayoutId |-> NoDocument]
    /\ counter = 1
    /\ counterLock = NoCall
    /\ transfers = {}
    /\ byHand = [p \in PayoutId |-> 0]
    /\ conflicts = {}
    /\ pc = [k \in Call |-> "idle"]
    /\ job = [k \in Call |-> NoJob]
    /\ overwritten = {}
    /\ lost = {}

Goto(k, step) == pc' = [pc EXCEPT ![k] = step]

\* The request is answered, and the administrator can make another one.
End(k) == Goto(k, "idle") /\ job' = [job EXCEPT ![k] = NoJob]

-----------------------------------------------------------------------------
\* The settlement of an order (PaymentSettlement), which only this module's
\* reads see.
OrderPaid(o) ==
    /\ o \notin paid
    /\ paid' = paid \cup {o}
    /\ UNCHANGED <<rowVars, moneyVars, pc, job, historyVars>>

\* Mutant of FindPayout: a payout of the period is not looked for.
FindPayoutNever(k, d) ==
    /\ pc[k] = "idle"
    /\ Goto(k, "compute")
    /\ job' = [job EXCEPT ![k].period = d, ![k].known = Len(payouts)]
    /\ UNCHANGED <<paid, rowVars, moneyVars, historyVars>>

\* generate(): a payout of the same period is returned as it is.
FindPayout(k, d) ==
    /\ pc[k] = "idle"
    /\ IF \E p \in Rows : payouts[p].period = d
         THEN UNCHANGED <<pc, job>>
         ELSE /\ Goto(k, "compute")
              /\ job' = [job EXCEPT ![k].period = d,
                                    ![k].known = Len(payouts)]
    /\ UNCHANGED <<paid, rowVars, moneyVars, historyVars>>

\* compute(): the orders of the period that are PAID by now, whether another
\* payout contains them or not.
Compute(k) ==
    /\ pc[k] = "compute"
    /\ job' = [job EXCEPT ![k].orders = OrdersOf[job[k].period] \cap paid]
    /\ Goto(k, "create")
    /\ UNCHANGED <<paid, rowVars, moneyVars, historyVars>>

\* The payout, its lines and their ledger events in one transaction.
CreatePayout(k) ==
    /\ pc[k] = "create"
    /\ Len(payouts) < MaxPayouts
    /\ payouts' = Append(payouts,
                    [period |-> job[k].period, orders |-> job[k].orders,
                     net |-> NetOf(job[k].orders), status |-> "PENDING",
                     rail |-> FALSE, known |-> job[k].known])
    /\ End(k)
    /\ UNCHANGED <<paid, documents, counter, counterLock, moneyVars,
                   historyVars>>

-----------------------------------------------------------------------------
\* A request about payout p, which it reads in a state that allows it.
Open(k, p, allowed, step) ==
    /\ pc[k] = "idle"
    /\ p \in Rows
    /\ payouts[p].status \in allowed
    /\ Goto(k, step)
    /\ job' = [job EXCEPT ![k].payout = p]
    /\ UNCHANGED <<paid, rowVars, moneyVars, historyVars>>

ReadToApprove(k, p) == Open(k, p, {"PENDING"}, "approve")
ReadToPay(k, p) ==
    byHand[p] < MaxByHand /\ Open(k, p, {"APPROVED"}, "pay")
ReadToDisburse(k, p) == Open(k, p, {"APPROVED"}, "transfer")

\* The status is written by id, whatever it is by now.
Overwrite(p, seen, status) ==
    /\ payouts' = [payouts EXCEPT ![p] = [@ EXCEPT !.status = status]]
    /\ overwritten' = IF payouts[p].status = seen
                        THEN overwritten ELSE overwritten \cup {p}

\* approve(): UPDATE by id.
Approve(k) ==
    /\ pc[k] = "approve"
    /\ Overwrite(job[k].payout, "PENDING", "APPROVED")
    /\ End(k)
    /\ UNCHANGED <<paid, documents, counter, counterLock, moneyVars,
                   lost>>

\* pay(): the transfer made by hand is recorded, UPDATE by id.
Pay(k) ==
    LET p == job[k].payout IN
    /\ pc[k] = "pay"
    /\ Overwrite(p, "APPROVED", "PAID")
    /\ byHand' = [byHand EXCEPT ![p] = @ + 1]
    /\ End(k)
    /\ UNCHANGED <<paid, documents, counter, counterLock, transfers,
                   conflicts, lost>>

\* rail.disburse(): the manual rail and the provider may refuse; a timeout
\* leaves a transfer that this call does not know of.
Transfer(k) ==
    LET p == job[k].payout IN
    /\ pc[k] = "transfer"
    /\ \/ /\ End(k)
          /\ UNCHANGED <<transfers, lost>>
       \/ /\ transfers' = transfers \cup {p}
          /\ Goto(k, "claim")
          /\ UNCHANGED <<job, lost>>
       \/ /\ transfers' = transfers \cup {p}
          /\ End(k)
          /\ lost' = lost \cup {p}
    /\ UNCHANGED <<paid, rowVars, byHand, conflicts, overwritten>>

\* Mutant of ClaimPayout: an UPDATE by id, like those of approve and pay.
ClaimPayoutById(k) ==
    LET p == job[k].payout IN
    /\ pc[k] = "claim"
    /\ payouts' = [payouts EXCEPT
                    ![p] = [@ EXCEPT !.status = "PAID", !.rail = TRUE]]
    /\ End(k)
    /\ UNCHANGED <<paid, documents, counter, counterLock, moneyVars,
                   historyVars>>

\* UPDATE ... WHERE status = APPROVED with the reference of the transfer.
ClaimPayout(k) ==
    LET p == job[k].payout IN
    /\ pc[k] = "claim"
    /\ IF payouts[p].status = "APPROVED"
         THEN /\ payouts' = [payouts EXCEPT
                    ![p] = [@ EXCEPT !.status = "PAID", !.rail = TRUE]]
              /\ End(k)
         ELSE /\ Goto(k, "conflict")
              /\ UNCHANGED <<payouts, job>>
    /\ UNCHANGED <<paid, documents, counter, counterLock, moneyVars,
                   historyVars>>

\* The transfer was made and the payout resolved by another way.
AuditConflict(k) ==
    /\ pc[k] = "conflict"
    /\ conflicts' = conflicts \cup {job[k].payout}
    /\ End(k)
    /\ UNCHANGED <<paid, rowVars, transfers, byHand, historyVars>>

-----------------------------------------------------------------------------
Charges(p) == {o \in payouts[p].orders :
                  /\ Accrues(SaleOf[o])
                  /\ PrintedTotal(LinesOf(SaleOf[o], Iva, Pct, Take)) > 0}

\* AdminBillingService.generate(): only a payout with charges, and one that
\* has no document yet.
ReadToIssue(k, p) ==
    /\ p \in Rows
    /\ documents[p] = NoDocument
    /\ Charges(p) # {}
    /\ Open(k, p, Status, "issue")

\* In the transaction, the document is looked for again.
Issue(k) ==
    /\ pc[k] = "issue"
    /\ IF documents[job[k].payout] = NoDocument
         THEN Goto(k, "takeFolio") /\ UNCHANGED job
         ELSE End(k)
    /\ UNCHANGED <<paid, rowVars, moneyVars, historyVars>>

\* Mutant of TakeFolio: the counter is incremented outside the transaction.
TakeFolioAtOnce(k) ==
    /\ pc[k] = "takeFolio"
    /\ counterLock = NoCall
    /\ job' = [job EXCEPT ![k].folio = counter]
    /\ counter' = counter + 1
    /\ Goto(k, "insert")
    /\ UNCHANGED <<paid, payouts, documents, counterLock, moneyVars,
                   historyVars>>

\* BillingCounter.next + 1, which waits for the row of the counter and holds
\* it until the end of the transaction.
TakeFolio(k) ==
    /\ pc[k] = "takeFolio"
    /\ counterLock = NoCall
    /\ counterLock' = k
    /\ job' = [job EXCEPT ![k].folio = counter]
    /\ Goto(k, "insert")
    /\ UNCHANGED <<paid, payouts, documents, counter, moneyVars,
                   historyVars>>

\* The row of the counter after the transaction of call k has ended.
Unlocked(k) == IF counterLock = k THEN NoCall ELSE counterLock

\* The insertion and the commit, or, when another call's document is there,
\* the unique key of payoutId and the rollback of the increment.
Insert(k) ==
    LET p == job[k].payout IN
    /\ pc[k] = "insert"
    /\ IF documents[p] = NoDocument
         THEN /\ documents' = [documents EXCEPT
                     ![p] = [folio |-> job[k].folio, status |-> "ISSUED"]]
              /\ counter' = IF counterLock = k THEN counter + 1 ELSE counter
         ELSE UNCHANGED <<documents, counter>>
    /\ counterLock' = Unlocked(k)
    /\ End(k)
    /\ UNCHANGED <<paid, payouts, moneyVars, historyVars>>

ReadToVoid(k, p) ==
    /\ documents[p].status = "ISSUED"
    /\ Open(k, p, Status, "void")

\* void(): the document stays, with its folio.
Void(k) ==
    /\ pc[k] = "void"
    /\ documents' = [documents EXCEPT ![job[k].payout].status = "VOID"]
    /\ End(k)
    /\ UNCHANGED <<paid, payouts, counter, counterLock, moneyVars,
                   historyVars>>

\* The process dies: an open transaction is rolled back.
Crash(k) ==
    /\ pc[k] # "idle"
    /\ counterLock' = Unlocked(k)
    /\ lost' = IF pc[k] \in {"claim", "conflict"}
                 THEN lost \cup {job[k].payout} ELSE lost
    /\ End(k)
    /\ UNCHANGED <<paid, payouts, documents, counter, moneyVars,
                   overwritten>>

Arrive(k) ==
    \/ \E d \in Period : FindPayout(k, d)
    \/ \E p \in PayoutId :
          \/ ReadToApprove(k, p) \/ ReadToPay(k, p) \/ ReadToDisburse(k, p)
          \/ ReadToIssue(k, p) \/ ReadToVoid(k, p)

Progress(k) ==
    \/ Compute(k) \/ CreatePayout(k)
    \/ Approve(k) \/ Pay(k)
    \/ Transfer(k) \/ ClaimPayout(k) \/ AuditConflict(k)
    \/ Issue(k) \/ TakeFolio(k) \/ Insert(k) \/ Void(k)

Next ==
    \/ \E o \in Order : OrderPaid(o)
    \/ \E k \in Call : Arrive(k) \/ Progress(k) \/ Crash(k)

Spec == Init /\ [][Next]_vars

-----------------------------------------------------------------------------
\* What the seller is owed for one sale: of a managed sale the net that was
\* frozen with the order, whatever the gateway charged in the end.
Owed(s) ==
    CASE s.mode = "MANAGED" /\ ~s.manual -> s.producerNet
      [] s.mode = "MANAGED" /\ s.manual  -> s.producerNet - s.amount
      [] s.mode = "OWN_METHOD"           -> -(s.ownNet + s.ownVat)
      [] s.mode = "FREE"                 -> s.amount
      [] OTHER -> s.amount - PrintedTotal(LinesOf(s, Iva, Pct, Take))

\* The net of a payout is the sum of what the seller is owed for its orders
\* (managedSettlementLines: a difference with the gateway's expected cost is
\* never the producer's).
NetIsOwed ==
    \A p \in Rows :
        LET part(o) == Owed(SaleOf[o]) IN
        payouts[p].net =
            MapThenSumSet(part, {o \in payouts[p].orders :
                                    Accrues(SaleOf[o])})

\* An order is in two payouts only if their periods overlap, or if the later
\* one was looked for before the earlier one existed (generate reads and
\* creates apart, without a unique key).
LiquidatedTwiceOnlyByRaces ==
    \A p, q \in Rows :
        /\ p < q
        /\ payouts[p].orders \cap payouts[q].orders # {}
        => \/ payouts[p].period # payouts[q].period
           \/ payouts[q].known < p

\* A call that knows of a transfer of p and has not told the database yet.
InFlight(p) == \E k \in Call : /\ pc[k] \in {"claim", "conflict"}
                               /\ job[k].payout = p

\* Money left twice for a payout, by hand and through Stripe or twice by
\* hand, only where a request wrote over a status it had not seen, where an
\* answer of Stripe was lost, or where the conflict is in the audit log
\* (disburse's atomic claim).
PaidTwiceIsKnown ==
    \A p \in Rows :
        byHand[p] + (IF p \in transfers THEN 1 ELSE 0) > 1
        => \/ p \in overwritten \cup lost \cup conflicts
           \/ InFlight(p)

\* The folios that were given out are 1, 2, ... without gap or repetition,
\* whatever issues at once and wherever one of them dies (BillingCounter).
FoliosAreGapless ==
    LET issued == {p \in PayoutId : documents[p] # NoDocument} IN
    /\ {documents[p].folio : p \in issued} = 1 .. counter - 1
    /\ \A p, q \in issued :
          documents[p].folio = documents[q].folio => p = q
=============================================================================
