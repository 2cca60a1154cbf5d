-------------------------- MODULE MembershipPeriods --------------------------
(***************************************************************************)
(* What pays a membership of one person at one plan, and what it gives.    *)
(* Two ways lead to settleMembership, which extends the enrollment by a    *)
(* period: an order by bank transfer, whose proof the academy approves     *)
(* (subscriptions.service.ts, producer-claims.service.ts), and an invoice  *)
(* of the card subscription, which a reconcile settles or collects.        *)
(*                                                                         *)
(* The plan is renewed by the calendar: it ends at noon in Chile of the    *)
(* last day of a month. An instant is a Nat: 2m stands for month m until   *)
(* that noon, 2m + 1 for the noon and for the rest of the day.             *)
(***************************************************************************)
EXTENDS Integers

CONSTANTS
    Request,   \* requests and webhooks that overlap
    Job,       \* the daily reconcile, whose calls have no bound
    Invoice,   \* invoices of the card subscription at the provider
    MaxSub,    \* bound on the TRANSFER rows, numbered as they are created
    MaxOrder,  \* bound on the transfer orders, numbered by their cycle
    MaxProof,  \* bound on the proofs of payment
    Months,    \* calendar months of the plan: MONTHLY, QUARTERLY, SEMIANNUAL
    MaxTime,   \* bound on the instants that go by
    MaxCall,   \* bound on the calls of the requests
    MaxCrash   \* bound on the requests that die

ASSUME ConstantsAssumption ==
    /\ Request \cap Job = {}
    /\ {MaxSub, MaxOrder, MaxProof, MaxTime, MaxCall, MaxCrash} \subseteq Nat
    /\ Invoice \cap Nat = {}
    /\ Months \in Nat \ {0}

Worker == Request \cup Job
Sub == 1..MaxSub
Order == 1..MaxOrder
Proof == 1..MaxProof
Payment == Order \cup Invoice
None == 0

VARIABLES
    sub,       \* status of the MembershipSubscription rows by transfer
    dueAt,     \* their currentPeriodEnd
    payment,   \* status of the Payment of each order and of each invoice
    proof,     \* the TicketClaim rows
    endsAt,    \* endsAt of the newest Enrollment, 0 when it has none
    standing,  \* its status, "NONE" when there is no Enrollment
    invoice,   \* the invoices, as the provider has them
    marked,    \* lastInvoiceId
    links,     \* invoices with a payment link of a collect
    now,
    work,      \* what each worker is doing, and what it has read
    calls, crashes,
    \* History: orders whose proof a dead or overlapping request has left
    \* without its effect, invoices whose order was deleted after it was PAID
    \* or while it was being settled, and whether a cancellation was torn.
    stranded, torn,
    \* History: how many periods each payment gave and how many were given in
    \* all, how many of them when the last noon of the month was over and
    \* nothing in force, and whether two settlements overlapped, a paused
    \* enrollment was restarted or the academy edited its date.
    given, settled, missed, adrift

subVars == <<sub, dueAt>>
cardVars == <<invoice, marked, links>>
boundVars == <<calls, crashes>>
historyVars == <<stranded, torn>>
countVars == <<given, settled, missed, adrift>>
periodVars == <<endsAt, standing, countVars>>
vars == <<subVars, payment, proof, periodVars, cardVars, now, work, boundVars,
          historyVars>>

SubStatus == {"NONE", "PENDING_PAYMENT", "ACTIVE", "CANCELED"}
PaymentStatus == {"NONE", "PENDING", "PAID", "FAILED"}
ProofStatus == {"NONE", "PENDING", "APPROVED", "REJECTED"}
Step == {"idle", "void", "issue", "reject", "settle", "commit", "examine",
         "collect", "fail", "mark"}
Work == [at : Step, sub : Sub \cup {None}, pay : Payment \cup {None},
         proof : Proof \cup {None}, read : Nat, told : {"none", "unpaid", "paid"}]

TypeOK ==
    /\ sub \in [Sub -> SubStatus]
    /\ dueAt \in [Sub -> Nat]
    /\ payment \in [Payment -> PaymentStatus]
    /\ proof \in [Proof -> [status : ProofStatus, order : Order \cup {None}]]
    /\ endsAt \in Nat /\ standing \in {"NONE", "ACTIVE", "PAUSED"}
    /\ given \in [Payment -> Nat] /\ settled \in Nat /\ missed \in Nat
    /\ adrift \in BOOLEAN
    /\ invoice \in [Invoice -> {"none", "unpaid", "paid"}]
    /\ marked \in Invoice \cup {None} /\ links \subseteq Invoice
    /\ now \in 0..MaxTime
    /\ work \in [Worker -> Work]
    /\ calls \in 0..MaxCall /\ crashes \in 0..MaxCrash
    /\ stranded \subseteq Payment /\ torn \in BOOLEAN

Idle == [at |-> "idle", sub |-> None, pay |-> None, proof |-> None, read |-> 0,
         told |-> "none"]

Init ==
    /\ sub = [s \in Sub |-> "NONE"]
    /\ dueAt = [s \in Sub |-> 0]
    /\ payment = [p \in Payment |-> "NONE"]
    /\ proof = [f \in Proof |-> [status |-> "NONE", order |-> None]]
    /\ endsAt = 0 /\ standing = "NONE"
    /\ given = [p \in Payment |-> 0] /\ settled = 0 /\ missed = 0 /\ adrift = FALSE
    /\ invoice = [i \in Invoice |-> "none"]
    /\ marked = None /\ links = {}
    /\ now = 0
    /\ work = [w \in Worker |-> Idle]
    /\ calls = 0 /\ crashes = 0
    /\ stranded = {} /\ torn = FALSE

Do(w, job) == work' = [work EXCEPT ![w] = job]
Then(w, step) == Do(w, [work[w] EXCEPT !.at = step])
Done(w) == Do(w, Idle)
At(w, step) == work[w].at = step

\* A call arrives at an idle request; the job calls day after day.
Called(w) ==
    /\ At(w, "idle")
    /\ IF w \in Job THEN UNCHANGED calls
       ELSE calls < MaxCall /\ calls' = calls + 1

Live == {"PENDING_PAYMENT", "ACTIVE"}
LiveSubs == {s \in Sub : sub[s] \in Live}
Waiting == {o \in Order : payment[o] = "PENDING"}

\* The next unused number of a table.
NextSub(s) == sub[s] = "NONE" /\ \A t \in Sub : t < s => sub[t] # "NONE"
NextOrder(o) == payment[o] = "NONE" /\ \A q \in Order : q < o => payment[q] # "NONE"

\* A transaction that settles p has its row until it commits.
Held(p) == \E w \in Worker : At(w, "commit") /\ work[w].pay = p

Voided(orders) == [p \in Payment |-> IF p \in orders THEN "FAILED" ELSE payment[p]]

-----------------------------------------------------------------------------
(* The membership by transfer, under the lock of the person.               *)

\* The subscribe that forgot to give the open order back.
NoOpenAttemptIgnored == \A s \in Sub : sub[s] # "ACTIVE"

\* No row in force, and no attempt that has its order still: that one is
\* given back, and a membership that is ACTIVE is refused.
NoOpenAttempt ==
    \A s \in LiveSubs : sub[s] = "PENDING_PAYMENT" /\ Waiting = {}

\* subscribeTransfer creates a row and its order. The attempt that lost its
\* order is canceled; with no attempt at all nothing is voided.
Subscribe(w) ==
    /\ Called(w)
    /\ NoOpenAttempt
    /\ \E s \in Sub, o \in Order :
         /\ NextSub(s) /\ NextOrder(o)
         /\ sub' = [t \in Sub |-> IF t = s THEN "PENDING_PAYMENT"
                                  ELSE IF t \in LiveSubs THEN "CANCELED" ELSE sub[t]]
         /\ payment' = [payment EXCEPT ![o] = "PENDING"]
    /\ UNCHANGED <<dueAt, proof, periodVars, cardVars, now, work, crashes,
                   historyVars>>

\* subscribe with a card replaces an attempt by transfer: one transaction
\* cancels the row and voids its order.
SwitchToCard(w) ==
    /\ Called(w)
    /\ LiveSubs # {} /\ \A s \in LiveSubs : sub[s] = "PENDING_PAYMENT"
    /\ \A o \in Waiting : ~Held(o)
    /\ sub' = [s \in Sub |-> IF s \in LiveSubs THEN "CANCELED" ELSE sub[s]]
    /\ payment' = Voided(Waiting)
    /\ UNCHANGED <<dueAt, proof, periodVars, cardVars, now, work, crashes,
                   historyVars>>

\* cancel takes no lock: it writes CANCELED by the id of a row that it has
\* read, and then voids whatever order of the plan waits.
Cancel(w, s) ==
    /\ Called(w)
    /\ sub[s] \in Live
    /\ sub' = [sub EXCEPT ![s] = "CANCELED"]
    /\ Do(w, [Idle EXCEPT !.at = "void"])
    /\ UNCHANGED <<dueAt, payment, proof, periodVars, cardVars, now, crashes,
                   historyVars>>

CancelVoids(w) ==
    /\ At(w, "void")
    /\ \A o \in Waiting : ~Held(o)
    /\ payment' = Voided(Waiting)
    /\ torn' = (torn \/ LiveSubs # {})
    /\ Done(w)
    /\ UNCHANGED <<subVars, proof, periodVars, cardVars, now, boundVars,
                   stranded>>

\* reconcileManualRenewals lists the rows that are ACTIVE and in the last
\* days of their period, or past it.
IssueRead(w, s) ==
    /\ Called(w)
    /\ sub[s] = "ACTIVE" /\ dueAt[s] <= now + 1
    /\ Do(w, [Idle EXCEPT !.at = "issue", !.sub = s])
    /\ UNCHANGED <<subVars, payment, proof, periodVars, cardVars, now, crashes,
                   historyVars>>

StillIssues(s) == sub[s] = "ACTIVE" /\ Waiting = {}

\* issueManualMembershipCycle reads the row again under the lock, but not its
\* date, and creates the order of the next cycle unless one waits. It may
\* throw, which is logged.
Issue(w) ==
    /\ At(w, "issue")
    /\ \/ /\ StillIssues(work[w].sub)
          /\ \E o \in Order : NextOrder(o) /\ payment' = [payment EXCEPT ![o] = "PENDING"]
       \/ UNCHANGED payment
    /\ Done(w)
    /\ UNCHANGED <<subVars, proof, periodVars, cardVars, now, boundVars,
                   historyVars>>

-----------------------------------------------------------------------------
(* Proofs of payment.                                                      *)

\* createClaim: the order waits when it is read, and is voided or paid before
\* the row is created or after it; it may have several proofs.
Upload(w, f, o) ==
    /\ Called(w)
    /\ payment[o] = "PENDING"
    /\ proof[f].status = "NONE"
    /\ \A g \in Proof : g < f => proof[g].status # "NONE"
    /\ proof' = [proof EXCEPT ![f] = [status |-> "PENDING", order |-> o]]
    /\ UNCHANGED <<subVars, payment, periodVars, cardVars, now, work, crashes,
                   historyVars>>

\* approve: the proof is APPROVED by a conditional update, and the order is
\* settled afterwards, whatever has become of it.
Approve(w, f) ==
    /\ Called(w)
    /\ proof[f].status = "PENDING"
    /\ proof' = [proof EXCEPT ![f].status = "APPROVED"]
    /\ Do(w, [Idle EXCEPT !.at = "settle", !.pay = proof[f].order])
    /\ UNCHANGED <<subVars, payment, periodVars, cardVars, now, crashes,
                   historyVars>>

\* reject reads the proof and then writes by its id.
RejectRead(w, f) ==
    /\ Called(w)
    /\ proof[f].status = "PENDING"
    /\ Do(w, [Idle EXCEPT !.at = "reject", !.proof = f])
    /\ UNCHANGED <<subVars, payment, proof, periodVars, cardVars, now, crashes,
                   historyVars>>

Reject(w) ==
    LET f == work[w].proof
    IN /\ At(w, "reject")
       /\ proof' = [proof EXCEPT ![f].status = "REJECTED"]
       /\ stranded' = IF proof[f].status = "APPROVED"
                        THEN stranded \cup {proof[f].order} ELSE stranded
       /\ Done(w)
       /\ UNCHANGED <<subVars, payment, periodVars, cardVars, now, boundVars,
                      torn>>

-----------------------------------------------------------------------------
(* settleMembership                                                        *)

\* A claim that overlooks that the order is PAID already.
ClaimableTwice(p) == TRUE

\* The claim as the other branch of settle has it, on PENDING.
ClaimablePending(p) == payment[p] = "PENDING"

\* The claim of every settlement: whatever is not PAID is made so.
Claimable(p) == payment[p] # "PAID"

\* An enrollment that the academy paused or let run out is not in force.
InForce == standing = "ACTIVE" /\ endsAt > now

\* The transaction claims the payment and reads the end of the newest
\* enrollment, if it is in force; the one that finds it claimed does nothing
\* more.
SettleBegins(w) ==
    LET p == work[w].pay
        after == IF p \in Invoice THEN [work[w] EXCEPT !.at = "mark"] ELSE Idle
        end == IF InForce THEN endsAt ELSE 0
    IN /\ At(w, "settle")
       /\ ~Held(p)
       /\ \/ /\ Claimable(p)
             /\ Do(w, [work[w] EXCEPT !.at = "commit", !.read = end])
             /\ adrift' = (adrift \/ (\E u \in Worker : At(u, "commit"))
                                  \/ (standing = "PAUSED" /\ endsAt > now))
          \/ ~Claimable(p) /\ Do(w, after) /\ UNCHANGED adrift
       /\ UNCHANGED <<subVars, payment, proof, endsAt, standing, given, settled,
                      missed, cardVars, now, boundVars, historyVars>>

\* The noon of the last day of the month is over.
LastAfternoon == now % 2 = 1

\* The noon that ends the plan that begins at t, on the last day of a month.
CutOff(t) == 2 * (t \div 2 + Months - 1) + 1

\* An extension that begins today and eats the days that were left.
ExtendedFromNow(end) == CutOff(now)

\* membershipBase and membershipEndsAt: from the day after the end of one in
\* force, which is the next month, or from now, be it the last afternoon of
\* the month, whose noon is over.
Extended(end) == CutOff(IF end > now THEN end + 1 ELSE now)

\* The enrollment is written by its id from what was read. A transfer makes
\* ACTIVE the rows of the plan that are in force, be they of this order or not.
SettleCommits(w) ==
    LET p == work[w].pay
        end == Extended(work[w].read)
        paid == IF p \in Order THEN LiveSubs ELSE {}
    IN /\ At(w, "commit")
       /\ payment' = [payment EXCEPT ![p] = "PAID"]
       /\ endsAt' = end /\ standing' = "ACTIVE"
       /\ sub' = [s \in Sub |-> IF s \in paid THEN "ACTIVE" ELSE sub[s]]
       /\ dueAt' = [s \in Sub |-> IF s \in paid THEN end ELSE dueAt[s]]
       /\ IF p \in Invoice THEN Then(w, "mark") ELSE Done(w)
       /\ given' = [given EXCEPT ![p] = @ + 1] /\ settled' = settled + 1
       /\ missed' = IF LastAfternoon /\ work[w].read <= now THEN missed + 1 ELSE missed
       /\ UNCHANGED <<adrift, proof, cardVars, now, boundVars, historyVars>>

\* The academy pauses the enrollment or resumes it, and may clear its date.
EditEnrollment(w) ==
    /\ Called(w)
    /\ standing # "NONE"
    /\ standing' \in {"ACTIVE", "PAUSED"}
    /\ endsAt' \in {endsAt, 0}
    /\ adrift' = (adrift \/ endsAt' # endsAt)
    /\ UNCHANGED <<subVars, payment, proof, given, settled, missed, cardVars,
                   now, work, crashes, historyVars>>

-----------------------------------------------------------------------------
(* The invoices of the card subscription.                                  *)

\* The provider charges an invoice, or gives it up after its attempts.
Bills(i) ==
    /\ invoice[i] = "none"
    /\ \E result \in {"paid", "unpaid"} : invoice' = [invoice EXCEPT ![i] = result]
    /\ UNCHANGED <<subVars, payment, proof, periodVars, marked, links, now,
                   work, boundVars, historyVars>>

\* An invoice that was given up is paid at the provider after all.
Recovers(i) ==
    /\ invoice[i] = "unpaid"
    /\ invoice' = [invoice EXCEPT ![i] = "paid"]
    /\ UNCHANGED <<subVars, payment, proof, periodVars, marked, links, now,
                   work, boundVars, historyVars>>

\* A reconcile has got the invoice from the provider.
Fetch(w, i) ==
    /\ Called(w)
    /\ invoice[i] # "none" /\ marked # i
    /\ Do(w, [Idle EXCEPT !.at = "examine", !.pay = i, !.told = invoice[i]])
    /\ UNCHANGED <<subVars, payment, proof, periodVars, cardVars, now, crashes,
                   historyVars>>

\* A pass that took every order there is for one that was dealt with.
RetriesNever(p) == FALSE

\* The order that a pass left half-way is settled by the next one.
Retries(p) == payment[p] = "PENDING"

\* A paid invoice without an order gets one and is settled, and one whose
\* settlement failed half-way is settled; an unpaid one without an order
\* gets one and is collected.
Examine(w) ==
    LET i == work[w].pay
        new == payment[i] = "NONE"
        paid == work[w].told = "paid"
    IN /\ At(w, "examine")
       /\ payment' = IF new THEN [payment EXCEPT ![i] = "PENDING"] ELSE payment
       /\ IF new THEN Then(w, IF paid THEN "settle" ELSE "collect")
          ELSE IF paid THEN Then(w, IF Retries(i) THEN "settle" ELSE "mark")
          ELSE Done(w)
       /\ UNCHANGED <<subVars, proof, periodVars, cardVars, now, boundVars,
                      historyVars>>

\* customer/collect: the card is charged, it is refused, or there is a link.
Collect(w) ==
    LET i == work[w].pay
    IN /\ At(w, "collect")
       /\ \/ Then(w, "settle") /\ UNCHANGED links
          \/ Then(w, "fail") /\ UNCHANGED links
          \/ Done(w) /\ links' = links \cup {i}
       /\ UNCHANGED <<subVars, payment, proof, periodVars, invoice, marked, now,
                      boundVars, historyVars>>

\* The call throws, perhaps after the card was charged, and the order is
\* deleted with its evidence, by its id. A settlement of it by another pass
\* finds nothing to claim then, and its invoice is marked all the same.
CollectThrows(w) ==
    LET i == work[w].pay
        late == {u \in Worker : At(u, "settle") /\ work[u].pay = i}
    IN /\ At(w, "collect")
       /\ ~Held(i)
       /\ payment' = [payment EXCEPT ![i] = "NONE"]
       /\ stranded' = IF payment[i] = "PAID" \/ late # {} THEN stranded \cup {i}
                      ELSE stranded
       /\ work' = [u \in Worker |-> IF u = w THEN Idle
                                    ELSE IF u \in late THEN [work[u] EXCEPT !.at = "mark"]
                                    ELSE work[u]]
       /\ UNCHANGED <<subVars, proof, periodVars, cardVars, now, boundVars,
                      torn>>

\* settle with FAILED: conditional on PENDING.
Fail(w) ==
    LET i == work[w].pay
    IN /\ At(w, "fail")
       /\ ~Held(i)
       /\ payment' = IF payment[i] = "PENDING" THEN [payment EXCEPT ![i] = "FAILED"]
                     ELSE payment
       /\ Done(w)
       /\ UNCHANGED <<subVars, proof, periodVars, cardVars, now, boundVars,
                      historyVars>>

\* markInvoice
Mark(w) ==
    /\ At(w, "mark")
    /\ marked' = work[w].pay
    /\ Done(w)
    /\ UNCHANGED <<subVars, payment, proof, periodVars, invoice, links, now,
                   boundVars, historyVars>>

\* The link of a collect is paid, and the webhook settles its order.
LinkPaid(w, i) ==
    /\ Called(w)
    /\ i \in links /\ payment[i] # "NONE"
    /\ links' = links \ {i}
    /\ Do(w, [Idle EXCEPT !.at = "settle", !.pay = i])
    /\ UNCHANGED <<subVars, payment, proof, periodVars, invoice, marked, now,
                   crashes, historyVars>>

-----------------------------------------------------------------------------

\* Time goes by, but not within a transaction.
Tick ==
    /\ now < MaxTime
    /\ \A w \in Worker : ~At(w, "commit")
    /\ now' = now + 1
    /\ UNCHANGED <<subVars, payment, proof, periodVars, cardVars, work,
                   boundVars, historyVars>>

\* A request dies after its first write, or before the one that it owes; a
\* transaction that had begun is undone.
Crash(w) ==
    LET p == work[w].pay
    IN /\ crashes < MaxCrash
       /\ work[w].at \in {"void", "settle", "commit", "collect", "fail", "mark"}
       /\ crashes' = crashes + 1
       /\ stranded' = IF work[w].at \in {"settle", "commit"} /\ p \in Order
                        THEN stranded \cup {p} ELSE stranded
       /\ torn' = (torn \/ At(w, "void"))
       /\ Done(w)
       /\ UNCHANGED <<subVars, payment, proof, periodVars, cardVars, now,
                      calls>>

Works(w) ==
    \/ CancelVoids(w) \/ Issue(w) \/ Reject(w)
    \/ SettleBegins(w) \/ SettleCommits(w)
    \/ Examine(w) \/ Collect(w) \/ CollectThrows(w) \/ Fail(w) \/ Mark(w)

RequestCalls(w) ==
    \/ Subscribe(w) \/ SwitchToCard(w) \/ EditEnrollment(w)
    \/ \E s \in Sub : Cancel(w, s)
    \/ \E f \in Proof, o \in Order : Upload(w, f, o)
    \/ \E f \in Proof : Approve(w, f) \/ RejectRead(w, f)
    \/ \E i \in Invoice : LinkPaid(w, i) \/ Fetch(w, i)

JobCalls(w) ==
    \/ \E s \in Sub : IssueRead(w, s)
    \/ \E i \in Invoice : Fetch(w, i)

Next ==
    \/ \E w \in Request : RequestCalls(w)
    \/ \E w \in Job : JobCalls(w)
    \/ \E w \in Worker : Works(w) \/ Crash(w)
    \/ \E i \in Invoice : Bills(i) \/ Recovers(i)
    \/ Tick

Spec == Init /\ [][Next]_vars

\* What has begun goes on unless it dies, and the job runs day after day and
\* walks through every invoice.
Fairness ==
    /\ \A w \in Worker : WF_vars(Works(w))
    /\ \A w \in Job, i \in Invoice : SF_vars(Fetch(w, i))

FairSpec == Spec /\ Fairness

-----------------------------------------------------------------------------
(* Properties.                                                             *)

\* However often a payment is settled, by webhooks, proofs, collects and
\* passes of the job that overlap or begin again, it gives one period; the
\* exception is an invoice whose PAID order was deleted.
OnePeriodPerPayment ==
    \A p \in Payment : given[p] <= 1 \/ p \in stranded

\* The months that the enrollment runs, from month 0 on.
Covered == IF endsAt = 0 THEN 0 ELSE endsAt \div 2 + 1

\* The enrollment never runs longer than what was paid, from now on; and
\* nothing that was paid is lost, but a month for each period paid after the
\* last noon of the month with nothing in force. Settlements that overlapped,
\* a restart after a pause and an edited date may lose more, never give more.
PaidMonthsAreGiven ==
    /\ Covered <= now \div 2 + Months * settled
    /\ adrift \/ Covered + missed >= Months * settled

\* A transfer order is PAID when a proof of it is APPROVED, and only then;
\* the exceptions are a settlement under way, one that died and a rejection
\* written over the approval.
ProofTellsOrder ==
    \A o \in Order :
        \/ (payment[o] = "PAID")
             = (\E f \in Proof : proof[f] = [status |-> "APPROVED", order |-> o])
        \/ o \in stranded
        \/ \E w \in Worker : work[w].at \in {"settle", "commit"} /\ work[w].pay = o

\* At most one order waits for its transfer, and a row that waits for one has
\* it, but while a cancellation is between its two writes or after it was
\* torn: it died there, or another row began there.
OneOrderWaits ==
    \/ torn \/ \E w \in Worker : At(w, "void")
    \/ /\ \A o, q \in Waiting : o = q
       /\ (\E s \in Sub : sub[s] = "PENDING_PAYMENT") => Waiting # {}

\* An invoice that the provider has charged is settled some day, whoever dies;
\* the exceptions are one that a collect found unpayable before and one whose
\* order a collect that threw has deleted when it was PAID or being settled.
PaidInvoiceGivesPeriod ==
    \A i \in Invoice :
        invoice[i] = "paid" ~> payment[i] \in {"PAID", "FAILED"} \/ i \in stranded

\* What the comments of subscribe and cancel say: the order that was voided
\* cannot be approved any more by a late proof.
VoidedOrderIsNotPaid ==
    [][\A o \in Order : payment[o] = "FAILED" => payment'[o] # "PAID"]_vars
=============================================================================
