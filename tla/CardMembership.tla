--------------------------- MODULE CardMembership ---------------------------
(***************************************************************************)
(* The membership that one person pays by card (subscriptions.service.ts): *)
(* subscribe, the return from the card form, cancel, the reconcile with    *)
(* its reprice, and the sweep of orphans. A subscription lives twice: a    *)
(* row here and a remote one at the provider, which charges. No            *)
(* transaction spans both; a request may die between any two of its steps, *)
(* and the answer of the provider may be lost.                             *)
(***************************************************************************)
EXTENDS Integers, FiniteSets

CONSTANTS
    Plan,
    Hosted,    \* plans of the provider whose card form creates the remote
               \* subscription (Stripe Checkout); the others are Flow's
    Request,   \* requests, webhooks and runs of the job that overlap
    Sweeper,   \* the pass over the orphans that ends each reconcileAll
    MaxSub,    \* bound on the rows, which are numbered as they are created
    MaxRemote, \* bound on the remote subscriptions
    MaxPrice,  \* bound on the changes of the price that promotions resolve
    MaxCall,   \* bound on the calls of subscribe, return, cancel and reconcile,
               \* and of whoever ends a subscription outside the platform
    MaxCrash   \* bound on the requests that die

ASSUME ConstantsAssumption ==
    /\ Plan # {} /\ Hosted \subseteq Plan
    /\ Request \cap Sweeper = {}
    /\ {MaxSub, MaxRemote} \subseteq Nat \ {0}
    /\ {MaxPrice, MaxCall, MaxCrash} \subseteq Nat

Worker == Request \cup Sweeper
Sub == 1..MaxSub
Remote == 1..MaxRemote
None == 0

VARIABLES
    row,       \* the MembershipSubscription rows
    remote,    \* the remote subscriptions, as the provider has them
    audited,   \* remote ids within the GatewayTransactions of Flow's create
    settledAudit, \* those of them older than the sweep's grace
    price,     \* what memberChargeSpec resolves now
    outside,   \* remote subscriptions that were ended from outside
    cards,     \* providers that have a card of the person
    forms,     \* plans whose card form is open
    tokens,    \* what the completed forms return with
    work,      \* what each worker is doing, and what it has read
    calls, crashes,
    \* History: rows whose owner's cancellation was answered, rows that were
    \* canceled while a reprice was noted or under way or before it was noted,
    \* rows over which a stale status was written, rows that a failed create
    \* has put back, and rows whose remote was canceled without a note of it
    \* or when they were made active with it.
    asked, repricing, overwritten, putBack, dropped

rowVars == <<row>>
providerVars == <<remote, cards, forms, tokens>>
auditVars == <<audited, settledAudit>>
boundVars == <<calls, crashes>>
historyVars == <<asked, repricing, overwritten, putBack, dropped>>
vars == <<row, providerVars, auditVars, price, outside, work, boundVars, historyVars>>

Status == {"NONE", "PENDING_CARD", "ACTIVATING", "ACTIVE", "CANCEL_PENDING",
           "CANCELED"}
Live == {"PENDING_CARD", "ACTIVATING", "ACTIVE", "CANCEL_PENDING"}
Row == [status : Status, plan : Plan, remote : Remote \cup {None},
        fresh : BOOLEAN, reprice : BOOLEAN, charge : 0..MaxPrice]
Provider == {"flow", "stripe"}
RemoteStatus == {"none", "active", "ending", "ended"}
Step == {"idle", "card", "create", "link", "activate", "compensate",
         "adopt", "drop", "end", "ended", "fetch", "sync", "drift", "flag",
         "undo", "kill"}
\* seen: what the worker read of the row; told: the remote status that the
\* provider told it; reprice: it creates the remote one of a reprice.
Seen == [status : Status, reprice : BOOLEAN, charge : 0..MaxPrice]
Work == [at : Step, sub : Sub, remote : Remote \cup {None}, seen : Seen,
         told : RemoteStatus, reprice : BOOLEAN]

TypeOK ==
    /\ row \in [Sub -> Row]
    /\ remote \in [Remote -> RemoteStatus]
    /\ audited \subseteq Remote /\ settledAudit \subseteq audited
    /\ price \in 0..MaxPrice /\ outside \subseteq Remote
    /\ cards \subseteq Provider /\ forms \subseteq Plan
    /\ tokens \subseteq Provider \X (Remote \cup {None})
    /\ work \in [Worker -> Work]
    /\ calls \in 0..MaxCall /\ crashes \in 0..MaxCrash
    /\ {asked, repricing, overwritten, putBack, dropped} \subseteq SUBSET Sub

Of(p) == IF p \in Hosted THEN "stripe" ELSE "flow"
Blank == [status |-> "NONE", plan |-> CHOOSE p \in Plan : TRUE, remote |-> None,
          fresh |-> FALSE, reprice |-> FALSE, charge |-> 0]
Unread == [status |-> "NONE", reprice |-> FALSE, charge |-> 0]
Idle == [at |-> "idle", sub |-> 1, remote |-> None, seen |-> Unread,
         told |-> "none", reprice |-> FALSE]
Read(r) == [status |-> r.status, reprice |-> r.reprice, charge |-> r.charge]

Init ==
    /\ row = [s \in Sub |-> Blank]
    /\ remote = [r \in Remote |-> "none"]
    /\ audited = {} /\ settledAudit = {}
    /\ price = 0 /\ outside = {}
    /\ cards = {} /\ forms = {} /\ tokens = {}
    /\ work = [w \in Worker |-> Idle]
    /\ calls = 0 /\ crashes = 0
    /\ asked = {} /\ repricing = {} /\ overwritten = {}
    /\ putBack = {} /\ dropped = {}

Do(w, job) == work' = [work EXCEPT ![w] = job]
Then(w, step) == Do(w, [work[w] EXCEPT !.at = step])
Done(w) == Do(w, Idle)
At(w, step) == work[w].at = step
Linked(r) == {s \in Sub : row[s].remote = r}

\* A call arrives at an idle worker.
Called(w) ==
    /\ At(w, "idle") /\ calls < MaxCall
    /\ calls' = calls + 1

-----------------------------------------------------------------------------
(* The provider.                                                           *)

Charging(r) == remote[r] \in {"active", "ending"}

\* The next remote subscription begins.
Begins(r) ==
    /\ remote[r] = "none"
    /\ \A q \in Remote : q < r => remote[q] # "none"
    /\ remote' = [remote EXCEPT ![r] = "active"]

\* The person completes the open form of p: the provider has a card, and
\* Stripe's form has begun a subscription too. The browser may never return.
CompleteForm(p) ==
    /\ p \in forms
    /\ forms' = forms \ {p}
    /\ cards' = cards \cup {Of(p)}
    /\ IF p \in Hosted
         THEN \E r \in Remote : Begins(r) /\ tokens' = tokens \cup {<<"stripe", r>>}
         ELSE tokens' = tokens \cup {<<"flow", None>>} /\ UNCHANGED remote
    /\ UNCHANGED <<row, auditVars, price, outside, work, boundVars,
                   historyVars>>

\* The paid period of a subscription that was canceled ends.
PeriodEnds(r) ==
    /\ remote[r] = "ending"
    /\ remote' = [remote EXCEPT ![r] = "ended"]
    /\ UNCHANGED <<row, cards, forms, tokens, auditVars, price, outside, work,
                   boundVars, historyVars>>

\* The provider's dunning gives up, or its staff or the person ends the
\* subscription in the provider's own pages, at once or with its period.
EndsOutside(r) ==
    /\ calls < MaxCall
    /\ remote[r] = "active"
    /\ \E status \in {"ending", "ended"} : remote' = [remote EXCEPT ![r] = status]
    /\ outside' = outside \cup {r}
    /\ calls' = calls + 1
    /\ UNCHANGED <<row, cards, forms, tokens, auditVars, price, work, crashes,
                   historyVars>>

-----------------------------------------------------------------------------
(* Time, prices and crashes.                                               *)

\* PENDING_CARD_TTL_MS have passed since the row was created; nobody asks of
\* a row that is neither waiting nor being activated.
RowAges(s) ==
    /\ row[s].fresh /\ row[s].status \in {"PENDING_CARD", "ACTIVATING"}
    /\ row' = [row EXCEPT ![s].fresh = FALSE]
    /\ UNCHANGED <<providerVars, auditVars, price, outside, work, boundVars,
                   historyVars>>

\* ORPHAN_SWEEP_GRACE_MS have passed since the create was audited. They are
\* longer than the writes that follow the answer.
AuditAges(r) ==
    /\ r \in audited \ settledAudit
    /\ \A w \in Worker :
         ~(work[w].at \in {"link", "activate", "compensate"} /\ work[w].remote = r)
    /\ settledAudit' = settledAudit \cup {r}
    /\ UNCHANGED <<row, providerVars, audited, price, outside, work, boundVars,
                   historyVars>>

\* A promotion begins, ends or runs out, or the plan's price is edited.
PriceChanges ==
    /\ price < MaxPrice
    /\ price' = price + 1
    /\ UNCHANGED <<row, providerVars, auditVars, outside, work, boundVars,
                   historyVars>>

\* A request dies where it is; the remote subscription that it was creating
\* may have begun, and nothing is left of the call then.
Crash(w) ==
    /\ crashes < MaxCrash
    /\ ~At(w, "idle")
    /\ \/ UNCHANGED remote
       \/ At(w, "create") /\ \E r \in Remote : Begins(r)
    /\ crashes' = crashes + 1
    /\ dropped' = IF work[w].at \in {"ended", "flag", "undo"}
                    THEN dropped \cup {work[w].sub} ELSE dropped
    /\ Done(w)
    /\ UNCHANGED <<row, cards, forms, tokens, auditVars, price, outside, calls,
                   asked, repricing, overwritten, putBack>>

-----------------------------------------------------------------------------
(* subscribe                                                               *)

LiveOf(p) == {s \in Sub : row[s].plan = p /\ row[s].status \in Live}
Newest(S) == CHOOSE s \in S : \A t \in S : t <= s

\* The guard that forgot the memberships that end with their period.
RefusesActiveOnly(s) ==
    \/ row[s].status = "ACTIVE"
    \/ row[s].status = "ACTIVATING" /\ row[s].fresh

\* A row of p that a new attempt must respect: neither a pending attempt
\* that it may reuse or replace nor an activation long overdue.
Refuses(s) ==
    \/ row[s].status \in {"ACTIVE", "CANCEL_PENDING"}
    \/ row[s].status = "ACTIVATING" /\ row[s].fresh

Reusable(s) == row[s].status = "PENDING_CARD" /\ row[s].fresh

Overdue(s, p) ==
    s \in LiveOf(p) /\ s = Newest(LiveOf(p)) /\ row[s].status = "ACTIVATING"

\* A transaction that spared the attempts at other plans.
ReplacedOfPlan(p) ==
    {s \in LiveOf(p) : row[s].status = "PENDING_CARD" \/ Overdue(s, p)}

\* The attempts that a new one at p cancels: those of any plan that wait for
\* a card, and the overdue activation of p.
Replaced(p) == {s \in Sub : row[s].status = "PENDING_CARD" \/ Overdue(s, p)}

\* The transaction under the lock of the person: it reuses the fresh attempt
\* at p or creates one, and cancels the others.
SubscribeLocked(w, p) ==
    LET own == LiveOf(p)
        reuse == {s \in own : s = Newest(own) /\ Reusable(s)}
        canceled == [s \in Sub |-> IF s \in Replaced(p) \ reuse
                       THEN [row[s] EXCEPT !.status = "CANCELED"] ELSE row[s]]
    IN /\ Called(w)
       /\ own # {} => ~Refuses(Newest(own))
       /\ \E s \in Sub :
            /\ IF reuse # {}
                 THEN s \in reuse /\ row' = canceled
                 ELSE /\ row[s].status = "NONE"
                      /\ \A t \in Sub : t < s => row[t].status # "NONE"
                      /\ row' = [canceled EXCEPT ![s] =
                           [Blank EXCEPT !.status = "PENDING_CARD", !.plan = p,
                                         !.fresh = TRUE]]
            /\ Do(w, [Idle EXCEPT !.at = "card", !.sub = s])
       /\ UNCHANGED <<providerVars, auditVars, price, outside, crashes,
                      historyVars>>

\* The claim PENDING_CARD -> ACTIVATING of subscribe and of the return. The
\* form that Stripe hosts has created the remote subscription already, r; a
\* claim that is lost leaves everything as it is. The charge is that of the
\* price there is now.
Claims(w, s, r) ==
    LET won == row[s].status = "PENDING_CARD"
        next == [Idle EXCEPT !.sub = s, !.remote = r, !.seen.charge = price,
                             !.at = IF r = None THEN "create" ELSE "adopt"]
    IN /\ row' = IF won THEN [row EXCEPT ![s].status = "ACTIVATING"] ELSE row
       /\ Do(w, IF won THEN next ELSE Idle)

\* getCustomer: without a card the person gets a form to fill, and with one
\* the row is claimed.
CustomerCard(w) ==
    LET s == work[w].sub
        p == row[s].plan
    IN /\ At(w, "card")
       /\ IF Of(p) \in cards
            THEN Claims(w, s, None) /\ UNCHANGED forms
            ELSE Done(w) /\ forms' = forms \cup {p} /\ UNCHANGED row
       /\ UNCHANGED <<remote, cards, tokens, auditVars, price, outside,
                      boundVars, historyVars>>

-----------------------------------------------------------------------------
(* customerReturn                                                          *)

\* The token names the person; the row is the newest that waits for a card.
\* A browser may send the same token again.
Return(w, t) ==
    LET waiting == {s \in Sub : row[s].status = "PENDING_CARD"}
    IN /\ Called(w)
       /\ t \in tokens
       /\ waiting # {}
       /\ Claims(w, Newest(waiting), t[2])
       /\ UNCHANGED <<providerVars, auditVars, price, outside, crashes,
                      historyVars>>

-----------------------------------------------------------------------------
(* createRemoteSubscription, and the creation within applyPendingReprice   *)

\* The provider creates the subscription and answers, and the adapter
\* records the call. Only Flow's endpoint is the one the sweep looks for.
Create(w) ==
    /\ At(w, "create")
    /\ \E r \in Remote :
         /\ Begins(r)
         /\ audited' = IF row[work[w].sub].plan \in Hosted THEN audited
                       ELSE audited \cup {r}
         /\ Do(w, [work[w] EXCEPT !.at = "link", !.remote = r])
    /\ UNCHANGED <<row, cards, forms, tokens, settledAudit, price, outside,
                   boundVars, historyVars>>

\* The call throws: the provider refused, or did create the subscription
\* and its answer came after the timeout.
CreateThrows(w) ==
    LET s == work[w].sub
        claimed == ~work[w].reprice /\ row[s].status = "ACTIVATING"
    IN /\ At(w, "create")
       /\ UNCHANGED remote \/ \E r \in Remote : Begins(r)
       /\ row' = IF claimed THEN [row EXCEPT ![s].status = "PENDING_CARD"] ELSE row
       /\ putBack' = IF claimed THEN putBack \cup {s} ELSE putBack
       /\ IF work[w].reprice THEN Then(w, "undo") ELSE Done(w)
       /\ UNCHANGED <<cards, forms, tokens, auditVars, price, outside,
                      boundVars, asked, repricing, overwritten, dropped>>

\* The remote id is written to the row whatever has become of it.
Link(w) ==
    /\ At(w, "link")
    /\ row' = [row EXCEPT ![work[w].sub].remote = work[w].remote]
    /\ Then(w, "activate")
    /\ UNCHANGED <<providerVars, auditVars, price, outside, boundVars,
                   historyVars>>

\* ensureRemotePrice finds that the price is not the charge any more; in
\* arrears it is not asked.
Drifts(w, s, r, charge) ==
    \/ charge # price /\ Do(w, [Idle EXCEPT !.at = "drift", !.sub = s, !.remote = r])
    \/ Done(w)

\* The update by id alone that the comment of subscribe forbids.
StillAnything(w) == At(w, "activate")

\* The row is still as it was: ACTIVATING, or for a reprice in the status
\* that was read.
StillExpected(w) ==
    row[work[w].sub].status =
        IF work[w].reprice THEN work[w].seen.status ELSE "ACTIVATING"

DroppedUnlessActive(s, r) ==
    dropped' = IF remote[r] = "active" THEN dropped ELSE dropped \cup {s}

\* The row becomes ACTIVE if it is still what it was. The reconcile that
\* follows has the answer of the create and finds nothing to write.
Activate(w) ==
    LET s == work[w].sub
        r == work[w].remote
        new == [row[s] EXCEPT !.remote = r, !.status = "ACTIVE",
                              !.charge = work[w].seen.charge,
                              !.reprice = @ /\ ~work[w].reprice]
    IN /\ At(w, "activate")
       /\ IF StillExpected(w)
            THEN /\ row' = [row EXCEPT ![s] = new]
                 /\ Drifts(w, s, r, new.charge)
                 /\ DroppedUnlessActive(s, r)
            ELSE Then(w, "compensate") /\ UNCHANGED <<row, dropped>>
       /\ UNCHANGED <<providerVars, auditVars, price, outside, boundVars, asked,
                      repricing, overwritten, putBack>>

\* The remote one that found no row to activate is canceled at once, unless
\* the provider does not answer.
Compensate(w) ==
    /\ At(w, "compensate")
    /\ \/ remote' = [remote EXCEPT ![work[w].remote] = "ended"]
       \/ UNCHANGED remote
    /\ IF work[w].reprice THEN Then(w, "undo") ELSE Done(w)
    /\ UNCHANGED <<row, cards, forms, tokens, auditVars, price, outside,
                   boundVars, historyVars>>

\* adoptRemoteSubscription: as Activate, with the subscription of the form;
\* nothing is canceled when the row is no longer ACTIVATING, or when another
\* one has that remote id, which is unique. Without an answer of the provider
\* the subscription counts as active.
Adopt(w) ==
    LET s == work[w].sub
        r == work[w].remote
        won == row[s].status = "ACTIVATING" /\ Linked(r) \subseteq {s}
    IN /\ At(w, "adopt")
       /\ \E told \in {remote[r], "active"} :
            LET new == [row[s] EXCEPT !.remote = r, !.charge = work[w].seen.charge,
                          !.status = IF told = "ended" THEN "CANCELED" ELSE "ACTIVE"]
            IN /\ row' = IF won THEN [row EXCEPT ![s] = new] ELSE row
               /\ IF won THEN DroppedUnlessActive(s, r) ELSE UNCHANGED dropped
               /\ IF ~won \/ told = "ended" THEN Done(w)
                  ELSE IF told = "active" THEN Drifts(w, s, r, new.charge)
                  ELSE Do(w, [Idle EXCEPT !.at = "sync", !.sub = s, !.remote = r,
                                          !.seen = Read(new), !.told = told])
       /\ UNCHANGED <<providerVars, auditVars, price, outside, boundVars, asked,
                      repricing, overwritten, putBack>>

-----------------------------------------------------------------------------
(* cancel                                                                  *)

CancelRead(w, s) ==
    /\ Called(w)
    /\ row[s].status \in Live \ {"CANCEL_PENDING"}
    /\ Do(w, [Idle EXCEPT !.at = IF row[s].remote = None THEN "drop" ELSE "end",
                          !.sub = s, !.remote = row[s].remote])
    /\ UNCHANGED <<row, providerVars, auditVars, price, outside, crashes,
                   historyVars>>

\* A worker goes by the note of a reprice that it has read.
NoteRead(s) == \E u \in Worker : work[u].sub = s /\ work[u].seen.reprice

Answered(s) ==
    /\ asked' = asked \cup {s}
    /\ repricing' = IF row[s].reprice \/ NoteRead(s) THEN repricing \cup {s}
                    ELSE repricing

\* The row had no remote id when it was read: it is CANCELED by its id.
Drop(w) ==
    LET s == work[w].sub
    IN /\ At(w, "drop")
       /\ row' = [row EXCEPT ![s].status = "CANCELED"]
       /\ Answered(s)
       /\ Done(w)
       /\ UNCHANGED <<providerVars, auditVars, price, outside, boundVars,
                      overwritten, putBack, dropped>>

\* A row that is canceled, or about to be, is left as it is.
CancelAgain(w, s) ==
    /\ Called(w)
    /\ row[s].status \in {"CANCEL_PENDING", "CANCELED"}
    /\ Answered(s)
    /\ UNCHANGED <<row, providerVars, auditVars, price, outside, work, crashes,
                   overwritten, putBack, dropped>>

\* subscription/cancel at the end of the period, of the owner's cancel and of
\* ensureRemotePrice.
EndRemote(w) ==
    LET r == work[w].remote
    IN /\ work[w].at \in {"end", "drift"}
       /\ Charging(r)
       /\ remote' = [remote EXCEPT ![r] = "ending"]
       /\ Then(w, IF At(w, "end") THEN "ended" ELSE "flag")
       /\ dropped' = dropped \cup (Linked(r) \ {work[w].sub})
       /\ UNCHANGED <<row, cards, forms, tokens, auditVars, price, outside,
                      boundVars, asked, repricing, overwritten, putBack>>

\* The call throws, and the handler with it: there was nothing to cancel, or
\* the provider did it and the answer was lost.
EndThrows(w) ==
    LET r == work[w].remote
    IN /\ work[w].at \in {"end", "drift"}
       /\ \/ UNCHANGED <<remote, dropped>>
          \/ /\ Charging(r)
             /\ remote' = [remote EXCEPT ![r] = "ending"]
             /\ dropped' = dropped \cup {work[w].sub} \cup Linked(r)
       /\ Done(w)
       /\ UNCHANGED <<row, cards, forms, tokens, auditVars, price, outside,
                      boundVars, asked, repricing, overwritten, putBack>>

\* The row becomes CANCEL_PENDING by its id.
Ended(w) ==
    LET s == work[w].sub
    IN /\ At(w, "ended")
       /\ row' = [row EXCEPT ![s].status = "CANCEL_PENDING"]
       /\ overwritten' = IF row[s].status = "CANCELED"
                           THEN overwritten \cup {s} ELSE overwritten
       /\ Answered(s)
       /\ Done(w)
       /\ UNCHANGED <<providerVars, auditVars, price, outside, boundVars,
                      putBack, dropped>>

-----------------------------------------------------------------------------
(* reconcileSubscription                                                   *)

\* The job reads the rows that are ACTIVE or CANCEL_PENDING, the owner's
\* page and the webhook any row with a remote id.
ReconcileRead(w, s) ==
    /\ Called(w)
    /\ row[s].remote # None
    /\ Do(w, [Idle EXCEPT !.at = "fetch", !.sub = s, !.remote = row[s].remote,
                          !.seen = Read(row[s])])
    /\ UNCHANGED <<row, providerVars, auditVars, price, outside, crashes,
                   historyVars>>

\* An event of Stripe says what it is about and no more, and it may be late:
\* an invoice.paid says active of a subscription that is ending or has ended,
\* and the update that told its end comes after the deletion.
EventTells(s, r) ==
    IF row[s].plan \notin Hosted THEN {}
    ELSE {remote[r], "active"} \cup (IF remote[r] = "ended" THEN {"ending"} ELSE {})

\* getSubscription, or the event; without an answer the pass leaves the row.
Fetch(w) ==
    LET r == work[w].remote
    IN /\ At(w, "fetch")
       /\ \/ \E told \in {remote[r]} \cup EventTells(work[w].sub, r) :
               Do(w, [work[w] EXCEPT !.at = "sync", !.told = told])
          \/ Done(w)
       /\ UNCHANGED <<row, providerVars, auditVars, price, outside, boundVars,
                      historyVars>>

\* The row is no longer what the worker read of it.
Stale(w) ==
    LET r == row[work[w].sub]
    IN Read(r) # work[w].seen \/ r.remote # work[w].remote

\* The sync that takes the cancel of a reprice for one of the person.
SyncedStatusOfRemote(seen, told) ==
    CASE told = "ended" -> "CANCELED"
      [] told = "ending" /\ seen.status = "ACTIVE" -> "CANCEL_PENDING"
      [] OTHER -> seen.status

\* What the row is to become, of what was read and told.
SyncedStatus(seen, told) ==
    CASE told = "ended" -> "CANCELED"
      [] told = "ending" /\ seen.status = "ACTIVE" /\ ~seen.reprice -> "CANCEL_PENDING"
      [] OTHER -> seen.status

\* The status is written by id when it differs from what was read, or when
\* the date of the next invoice does.
Sync(w) ==
    LET s == work[w].sub
        seen == work[w].seen
        target == SyncedStatus(seen, work[w].told)
        priced == target = "ACTIVE" /\ work[w].told = "active" /\ ~seen.reprice
    IN /\ At(w, "sync")
       /\ ~(work[w].told = "ended" /\ seen.reprice)
       /\ \/ /\ row' = [row EXCEPT ![s].status = target]
             /\ overwritten' = IF Stale(w) /\ row[s].status # target
                                 THEN overwritten \cup {s} ELSE overwritten
          \/ target = seen.status /\ UNCHANGED <<row, overwritten>>
       /\ Drifts(w, s, work[w].remote, IF priced THEN seen.charge ELSE price)
       /\ UNCHANGED <<providerVars, auditVars, price, outside, boundVars, asked,
                      repricing, putBack, dropped>>

\* The remote one ended and a reprice is noted: it is created again.
SyncReprice(w) ==
    /\ At(w, "sync")
    /\ work[w].told = "ended" /\ work[w].seen.reprice
    /\ Do(w, [Idle EXCEPT !.at = "create", !.sub = work[w].sub, !.reprice = TRUE,
                          !.seen = [work[w].seen EXCEPT !.charge = price]])
    /\ UNCHANGED <<row, providerVars, auditVars, price, outside, boundVars,
                   historyVars>>

\* ensureRemotePrice, after its cancel: the reprice is noted.
Flag(w) ==
    /\ At(w, "flag")
    /\ row' = [row EXCEPT ![work[w].sub].reprice = TRUE]
    /\ repricing' = IF row[work[w].sub].status # "ACTIVE"
                      THEN repricing \cup {work[w].sub} ELSE repricing
    /\ Done(w)
    /\ UNCHANGED <<providerVars, auditVars, price, outside, boundVars, asked,
                   overwritten, putBack, dropped>>

\* The reprice threw: the row is left CANCEL_PENDING for the next pass.
Undo(w) ==
    LET s == work[w].sub
    IN /\ At(w, "undo")
       /\ row' = [row EXCEPT ![s].status = "CANCEL_PENDING"]
       /\ overwritten' = IF row[s].status # work[w].seen.status \/ ~row[s].reprice
                           THEN overwritten \cup {s} ELSE overwritten
       /\ Done(w)
       /\ UNCHANGED <<providerVars, auditVars, price, outside, boundVars, asked,
                      repricing, putBack, dropped>>

-----------------------------------------------------------------------------
(* sweepOrphanSubscriptions                                                *)

Covered(r) ==
    \E s \in Linked(r) :
        \/ row[s].status \in {"ACTIVE", "CANCEL_PENDING"}
        \/ row[s].status = "ACTIVATING" /\ row[s].fresh

\* The sweep that asks only whether there is a row.
OrphanWithoutRow(r) == r \in settledAudit /\ Linked(r) = {} /\ Charging(r)

\* An id that no row in force has, of a subscription that goes on.
Orphan(r) == r \in settledAudit /\ ~Covered(r) /\ Charging(r)

SweepRead(w, r) ==
    /\ At(w, "idle")
    /\ Orphan(r)
    /\ Do(w, [Idle EXCEPT !.at = "kill", !.remote = r])
    /\ UNCHANGED <<row, providerVars, auditVars, price, outside, boundVars,
                   historyVars>>

\* The remote one is canceled at once, and so is a row left ACTIVATING.
Kill(w) ==
    LET r == work[w].remote
    IN /\ At(w, "kill")
       /\ remote' = [remote EXCEPT ![r] = "ended"]
       /\ row' = [s \in Sub |-> IF s \in Linked(r) /\ row[s].status = "ACTIVATING"
                    THEN [row[s] EXCEPT !.status = "CANCELED"] ELSE row[s]]
       /\ Done(w)
       /\ UNCHANGED <<cards, forms, tokens, auditVars, price, outside,
                      boundVars, historyVars>>

KillThrows(w) ==
    /\ At(w, "kill")
    /\ Done(w)
    /\ UNCHANGED <<row, providerVars, auditVars, price, outside, boundVars,
                   historyVars>>

-----------------------------------------------------------------------------

RequestStep(w) ==
    \/ \E p \in Plan : SubscribeLocked(w, p)
    \/ CustomerCard(w)
    \/ \E t \in tokens : Return(w, t)
    \/ Create(w) \/ CreateThrows(w) \/ Link(w) \/ Activate(w)
    \/ Compensate(w) \/ Adopt(w)
    \/ \E s \in Sub : CancelRead(w, s) \/ CancelAgain(w, s) \/ ReconcileRead(w, s)
    \/ Drop(w) \/ EndRemote(w) \/ EndThrows(w) \/ Ended(w)
    \/ Fetch(w) \/ Sync(w) \/ SyncReprice(w) \/ Flag(w) \/ Undo(w)

SweepStep(w) ==
    \/ \E r \in Remote : SweepRead(w, r)
    \/ Kill(w) \/ KillThrows(w)

Next ==
    \/ \E w \in Request : RequestStep(w)
    \/ \E w \in Sweeper : SweepStep(w)
    \/ \E w \in Worker : Crash(w)
    \/ \E p \in Plan : CompleteForm(p)
    \/ \E r \in Remote : PeriodEnds(r) \/ EndsOutside(r) \/ AuditAges(r)
    \/ \E s \in Sub : RowAges(s)
    \/ PriceChanges

Spec == Init /\ [][Next]_vars

\* A request that does not die goes on; the job runs day after day, and each
\* time its sweep walks through every id that was audited; the provider
\* answers some day.
Fairness ==
    /\ \A w \in Request : WF_vars(Link(w) \/ Activate(w) \/ Compensate(w))
    /\ \A r \in Remote : WF_vars(AuditAges(r))
    /\ \A w \in Sweeper :
         /\ SF_vars(Kill(w))
         /\ \A r \in Remote : SF_vars(SweepRead(w, r))

FairSpec == Spec /\ Fairness

-----------------------------------------------------------------------------
(* Properties.                                                             *)

\* At most one row of the person waits for a card, so that the return from
\* the form knows which one to activate; the exception is a row that a
\* failed create has put back while the person began another.
OnePendingCard ==
    \A s, t \in Sub :
        s # t /\ row[s].status = "PENDING_CARD" /\ row[t].status = "PENDING_CARD"
        => {s, t} \cap putBack # {}

\* Two rows of one plan are never being activated or active at once, unless
\* a status read before a cancellation was written over it, or a reprice was
\* noted on a row that was canceled.
OneMembershipPerPlan ==
    \A s, t \in Sub :
        /\ s # t /\ row[s].plan = row[t].plan
        /\ {row[s].status, row[t].status} \subseteq {"ACTIVATING", "ACTIVE", "CANCEL_PENDING"}
        => {s, t} \cap (overwritten \cup repricing) # {}

\* A membership in force ends only of its owner's cancel, of the end of its
\* remote subscription outside the platform, or of a reprice that failed, that
\* is about to be noted or that lost its note: a reprice that is noted keeps
\* it ACTIVE although its remote one was canceled.
EndsOnlyIfAsked ==
    [][\A s \in Sub :
         /\ row[s].status = "ACTIVE"
         /\ row'[s].status \in {"CANCEL_PENDING", "CANCELED"}
         => \/ s \in asked' \cup dropped \cup overwritten'
            \/ row[s].remote \in outside
            \/ \E w \in Request :
                 work[w].at \in {"ended", "flag", "undo"} /\ work[w].sub = s]_vars

\* A membership that its owner has canceled is not made active again, unless
\* a reprice was noted or a stale status written.
RevivedOnlyByReprice ==
    [][\A s \in asked :
         row[s].status # "ACTIVE" /\ row'[s].status = "ACTIVE"
         => s \in repricing \cup overwritten']_vars

\* A subscription of Flow whose create was answered and recorded does not go
\* on charging without a row in force: it is linked to one, or canceled.
OrphansEnd ==
    \A r \in Remote :
        r \in audited /\ Charging(r) ~> ~Charging(r) \/ Covered(r)

=============================================================================
