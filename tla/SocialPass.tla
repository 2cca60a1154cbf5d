----------------------------- MODULE SocialPass -----------------------------
(***************************************************************************)
(* The Pase Social of one person (social-pass.service.ts): subscribe,      *)
(* cancel, confirm and redeem, and the billing events of Stripe.           *)
(*                                                                         *)
(* Every handler reads the row, may ask Stripe, and writes the row later   *)
(* by its id. Stripe delivers an event at any time, in any order, any      *)
(* number of times or never; an event of a billing period is not delivered *)
(* after the next period began, because Stripe gives up within days.       *)
(***************************************************************************)
EXTENDS Naturals, FiniteSets

CONSTANTS
    Slot,        \* handlers that may run at the same time
    Credits,     \* creditsPerPeriod
    MaxSub,      \* bound on the Checkout sessions, each of one subscription
    MaxPeriod,   \* bound on the billing periods of each subscription
    MaxRow,      \* bound on the rows created for the person
    MaxReset,    \* bound on the RESET lines of one kind for a billing period
    MaxRedeem    \* bound on the credits redeemed when a checkout begins

ASSUME PassAssumption ==
    /\ {Credits, MaxSub, MaxRow, MaxReset, MaxRedeem} \subseteq Nat \ {0}
    /\ MaxPeriod \in [1..MaxSub -> Nat \ {0}]

Sub == 1..MaxSub
Pending == 0                         \* the placeholder pending:<personId>
Invoice == UNION {{s} \X (1..MaxPeriod[s]) : s \in Sub}
NoEnd == <<Pending, 0>>              \* currentPeriodEnd IS NULL

VARIABLES
    remote,     \* the session, then the subscription, as Stripe has it
    period,     \* billing period a subscription is in, 0 before the payment
    willEnd,    \* cancel_at_period_end at Stripe
    paid,       \* invoices paid
    declined,   \* invoices whose charge failed at least once
    opened,     \* sessions opened, the newest of them too
    pass,       \* the SocialPass row
    resets,     \* RESET lines of the ledger, by how they name their period
    redeemed,   \* REDEEM lines of the ledger
    job,        \* what each handler is doing
    raced,      \* history: a handler wrote over a row it had not read
    crossed     \* history: a handler acted on a subscription not the pass's own

stripeVars == <<remote, period, willEnd, paid, declined>>
ledgerVars == <<resets, redeemed>>
passVars == <<stripeVars, opened, pass, ledgerVars, job, raced, crossed>>

PassRow == [exists : BOOLEAN, id : 0..MaxRow,
        status : {"PENDING", "ACTIVE", "CANCEL_PENDING", "FAILED_CARD", "CANCELED"},
        sub : Sub \cup {Pending}, balance : 0..Credits,
        until : Invoice \cup {NoEnd}, ends : BOOLEAN]
Kind == {"none", "subscribe", "cancel", "confirm", "redeem",
         "paid", "failed", "deleted", "expired", "completed"}
PassStep == {"idle", "orphans", "upsert", "session", "provider", "ask", "activate", "write"}
Job == [at : PassStep, kind : Kind, row : PassRow, invoice : Invoice \cup {NoEnd}, ends : BOOLEAN]

PassTypeOK ==
    /\ remote \in [Sub -> {"none", "open", "expired", "ACTIVE", "past_due", "CANCELED"}]
    /\ period \in [Sub -> Nat] /\ \A s \in Sub : period[s] <= MaxPeriod[s]
    /\ willEnd \in [Sub -> BOOLEAN]
    /\ paid \subseteq Invoice /\ declined \subseteq Invoice
    /\ opened \in 0..MaxSub
    /\ pass \in PassRow
    /\ resets \in [Invoice -> [invoiced : 0..MaxReset, polled : 0..MaxReset]]
    /\ redeemed \in Nat
    /\ job \in [Slot -> Job]
    /\ raced \in BOOLEAN /\ crossed \in BOOLEAN

NoRow == [exists |-> FALSE, id |-> 0, status |-> "PENDING", sub |-> Pending,
          balance |-> 0, until |-> NoEnd, ends |-> FALSE]
NoJob == [at |-> "idle", kind |-> "none", row |-> NoRow, invoice |-> NoEnd, ends |-> FALSE]

PassInit ==
    /\ remote = [s \in Sub |-> "none"]
    /\ period = [s \in Sub |-> 0]
    /\ willEnd = [s \in Sub |-> FALSE]
    /\ paid = {} /\ declined = {}
    /\ opened = 0
    /\ pass = NoRow
    /\ resets = [i \in Invoice |-> [invoiced |-> 0, polled |-> 0]]
    /\ redeemed = 0
    /\ job = [c \in Slot |-> NoJob]
    /\ raced = FALSE /\ crossed = FALSE

-----------------------------------------------------------------------------
\* Stripe, as the gateway and the service use it.
Live(s) == remote[s] \in {"ACTIVE", "past_due"}
Current(s) == <<s, period[s]>>
SetRemote(s, state) == remote' = [remote EXCEPT ![s] = state]
ServiceUnchanged == UNCHANGED <<opened, pass, ledgerVars, job, raced, crossed>>

\* The person pays in the Checkout session: the subscription begins.
Pay(s) ==
    /\ remote[s] = "open"
    /\ SetRemote(s, "ACTIVE")
    /\ period' = [period EXCEPT ![s] = 1]
    /\ paid' = paid \cup {<<s, 1>>}
    /\ UNCHANGED <<willEnd, declined>> /\ ServiceUnchanged

Expire(s) ==
    /\ remote[s] = "open"
    /\ SetRemote(s, "expired")
    /\ UNCHANGED <<period, willEnd, paid, declined>> /\ ServiceUnchanged

\* The next period begins and its invoice is charged later, maybe repeatedly.
Renew(s) ==
    /\ remote[s] = "ACTIVE" /\ ~willEnd[s] /\ Current(s) \in paid
    /\ period[s] < MaxPeriod[s]
    /\ period' = [period EXCEPT ![s] = @ + 1]
    /\ UNCHANGED <<remote, willEnd, paid, declined>> /\ ServiceUnchanged

Charge(s) ==
    /\ Live(s) /\ Current(s) \notin paid
    /\ \/ /\ SetRemote(s, "ACTIVE")
          /\ paid' = paid \cup {Current(s)}
          /\ UNCHANGED declined
       \/ /\ SetRemote(s, "past_due")
          /\ declined' = declined \cup {Current(s)}
          /\ UNCHANGED paid
    /\ UNCHANGED <<period, willEnd>> /\ ServiceUnchanged

\* The period ends after a cancellation, or Stripe gives up on the charge.
End(s) ==
    /\ Live(s)
    /\ willEnd[s] \/ remote[s] = "past_due"
    /\ SetRemote(s, "CANCELED")
    /\ UNCHANGED <<period, willEnd, paid, declined>> /\ ServiceUnchanged

\* Events that may be delivered now, with the invoice or the subscription's period.
Deliverable(kind, s) ==
    CASE kind = "paid"      -> Current(s) \in paid
      [] kind = "failed"    -> Current(s) \in declined
      [] kind = "deleted"   -> remote[s] = "CANCELED"
      [] kind = "expired"   -> remote[s] = "expired"
      [] kind = "completed" -> period[s] = 1

Stripe == \E s \in Sub : Pay(s) \/ Expire(s) \/ Renew(s) \/ Charge(s) \/ End(s)

-----------------------------------------------------------------------------
IsActive(row) == row.exists /\ row.status \in {"ACTIVE", "CANCEL_PENDING"}

\* A handler begins by reading the row.
Begin(c, kind, at, invoice) ==
    /\ job[c].at = "idle"
    /\ job' = [job EXCEPT ![c] = [NoJob EXCEPT !.at = at, !.kind = kind, !.row = pass,
                                               !.invoice = invoice]]
    /\ UNCHANGED <<stripeVars, opened, pass, ledgerVars, raced>>

GoesTo(c, at) == job' = [job EXCEPT ![c].at = at]
Finish(c) == job' = [job EXCEPT ![c] = NoJob]

\* Redeeming only moves the balance and conflicts with nothing.
Unread(row) == [pass EXCEPT !.balance = row.balance] # row

\* prisma update by id: it throws when the row is gone.
Update(c, row) ==
    LET found == pass.exists /\ pass.id = job[c].row.id IN
    /\ pass' = IF found THEN row ELSE pass
    /\ raced' = (raced \/ (found /\ Unread(job[c].row)))
    /\ UNCHANGED <<stripeVars, opened, crossed>>

\* The subscription the pass is about: its own, or the one of the newest session.
Own(s) == s = (IF pass.sub = Pending THEN opened ELSE pass.sub)
NoteCrossing(s) == crossed' = (crossed \/ ~Own(s))

-----------------------------------------------------------------------------
\* subscribe: refused while the pass is active; it cancels what lives at Stripe,
\* resets the row and opens a session. A PENDING pass may subscribe again.
Subscribe(c) ==
    /\ ~IsActive(pass)
    /\ opened < MaxSub
    /\ Begin(c, "subscribe", "orphans", NoEnd)
    /\ UNCHANGED crossed

CancelOrphans(c) ==
    /\ job[c].at = "orphans"
    /\ remote' = [s \in Sub |-> IF Live(s) THEN "CANCELED" ELSE remote[s]]
    /\ GoesTo(c, "upsert")
    /\ UNCHANGED <<period, willEnd, paid, declined, opened, pass, ledgerVars, raced, crossed>>

FreshRow == [NoRow EXCEPT !.exists = TRUE, !.id = pass.id + 1]
\* Mutant of PendingRow: the flag of the old cancellation is kept.
PendingRowKeepingEnd == [pass EXCEPT !.status = "PENDING", !.sub = Pending]
\* The ledger, the balance and currentPeriodEnd of an old row are kept.
PendingRow == [pass EXCEPT !.status = "PENDING", !.sub = Pending, !.ends = FALSE]

Upsert(c) ==
    /\ job[c].at = "upsert"
    /\ pass.exists \/ pass.id < MaxRow
    /\ pass' = IF pass.exists THEN PendingRow ELSE FreshRow
    /\ raced' = (raced \/ Unread(job[c].row))
    /\ GoesTo(c, "session")
    /\ UNCHANGED <<stripeVars, opened, ledgerVars, crossed>>

OpenSession(c) ==
    /\ job[c].at = "session"
    /\ IF opened < MaxSub
         THEN /\ opened' = opened + 1
              /\ SetRemote(opened + 1, "open")
         ELSE UNCHANGED <<opened, remote>>
    /\ Finish(c)
    /\ UNCHANGED <<period, willEnd, paid, declined, pass, ledgerVars, raced, crossed>>

\* cancel: at the end of the period, first at Stripe and then in the row.
Cancel(c) ==
    /\ pass.exists
    /\ pass.status \in {"ACTIVE", "FAILED_CARD"} /\ ~pass.ends
    /\ Begin(c, "cancel", "provider", NoEnd)
    /\ UNCHANGED crossed

AskToEnd(c) ==
    LET s == job[c].row.sub IN
    /\ job[c].at = "provider"
    /\ IF s \in Sub /\ Live(s)
         THEN willEnd' = [willEnd EXCEPT ![s] = TRUE] /\ GoesTo(c, "write")
         ELSE Finish(c) /\ UNCHANGED willEnd
    /\ UNCHANGED <<remote, period, paid, declined, opened, pass, ledgerVars, raced, crossed>>

WriteCancel(c) ==
    /\ job[c].at = "write" /\ job[c].kind = "cancel"
    /\ Update(c, [pass EXCEPT !.status = "CANCEL_PENDING", !.ends = TRUE])
    /\ Finish(c)
    /\ UNCHANGED ledgerVars

\* confirm: a subscription of the customer, by the session or from the list.
Confirm(c, s) ==
    /\ pass.exists /\ ~IsActive(pass)
    /\ Live(s) \/ remote[s] = "CANCELED"
    /\ Begin(c, "confirm", "ask", <<s, period[s]>>)
    /\ NoteCrossing(s)

-----------------------------------------------------------------------------
\* Mutant of Relevant: a late payment_failed is applied to a canceled pass.
RelevantAfterCancel(kind) ==
    CASE kind = "failed"  -> pass.status # "FAILED_CARD"
      [] kind = "deleted" -> pass.status # "CANCELED"
      [] kind \in {"expired", "completed"} -> pass.status = "PENDING"
      [] OTHER -> TRUE

\* A webhook: findPass takes the row by the subscription or, the events of a pass
\* being marked, by the customer; so it takes the row whatever the subscription is.
Relevant(kind) ==
    CASE kind = "failed"  -> pass.status \notin {"CANCELED", "FAILED_CARD"}
      [] kind = "deleted" -> pass.status # "CANCELED"
      [] kind \in {"expired", "completed"} -> pass.status = "PENDING"
      [] OTHER -> TRUE

Handling(kind) == CASE kind = "paid" -> "activate" [] kind = "completed" -> "ask" [] OTHER -> "write"

Webhook(c, kind, s) ==
    /\ Deliverable(kind, s)
    /\ pass.exists /\ Relevant(kind)
    /\ Begin(c, kind, Handling(kind),
             IF kind = "expired" THEN NoEnd ELSE Current(s))
    /\ NoteCrossing(s)

\* getSubscription: Stripe's past_due counts as ACTIVE (normalizeSubscription).
Answers(s) == IF Live(s) THEN "ACTIVE" ELSE remote[s]

\* confirm and session.completed activate with what Stripe says; confirm also
\* marks the pass CANCELED when the subscription is.
AskRemote(c) ==
    LET s == job[c].invoice[1] IN
    /\ job[c].at = "ask"
    /\ IF Answers(s) # "ACTIVE" /\ (job[c].kind = "completed" \/ job[c].row.status = "CANCELED")
         THEN Finish(c)
         ELSE job' = [job EXCEPT ![c].at = IF Answers(s) = "ACTIVE" THEN "activate" ELSE "write",
                                 ![c].invoice = Current(s), ![c].ends = willEnd[s]]
    /\ UNCHANGED <<stripeVars, opened, pass, ledgerVars, raced, crossed>>

\* Mutant of Duplicate: only the ledger is looked up, not the period of the row.
DuplicateByLedger(c) == job[c].kind = "paid" /\ resets[job[c].invoice].invoiced > 0

\* activate: the line of this invoice is in the ledger, or the row that was read
\* is in this period already.
Duplicate(c) ==
    LET i == job[c].invoice IN
    \/ job[c].kind = "paid" /\ resets[i].invoiced > 0
    \/ job[c].row.until = i

\* Mutant of Activated: a retry fills the balance again, without a ledger line.
ActivatedRefilling(c, fills) ==
    [pass EXCEPT !.status = "ACTIVE", !.sub = job[c].invoice[1], !.until = job[c].invoice,
                 !.ends = job[c].row.ends, !.balance = Credits]

Activated(c, fills) ==
    [pass EXCEPT !.status = "ACTIVE", !.sub = job[c].invoice[1], !.until = job[c].invoice,
                 !.ends = IF job[c].kind = "paid" THEN job[c].row.ends ELSE job[c].ends,
                 !.balance = IF fills THEN Credits ELSE @]

AddReset(c) ==
    IF job[c].kind = "paid"
      THEN [resets EXCEPT ![job[c].invoice].invoiced = @ + 1]
      ELSE [resets EXCEPT ![job[c].invoice].polled = @ + 1]

\* One transaction: the row, the hard reset of the balance and its ledger line.
Activate(c) ==
    LET resetting == pass.exists /\ pass.id = job[c].row.id /\ ~Duplicate(c) IN
    /\ job[c].at = "activate"
    /\ resetting => /\ resets[job[c].invoice].invoiced < MaxReset
                    /\ resets[job[c].invoice].polled < MaxReset
    /\ Update(c, Activated(c, ~Duplicate(c)))
    /\ resets' = IF resetting THEN AddReset(c) ELSE resets
    /\ Finish(c)
    /\ UNCHANGED redeemed

\* payment_failed, subscription.deleted, and confirm of a canceled subscription.
WriteStatus(c) ==
    /\ job[c].at = "write" /\ job[c].kind \in {"failed", "deleted", "confirm"}
    /\ Update(c, IF job[c].kind = "failed"
                   THEN [pass EXCEPT !.status = "FAILED_CARD"]
                   ELSE [pass EXCEPT !.status = "CANCELED", !.ends = FALSE])
    /\ Finish(c)
    /\ UNCHANGED ledgerVars

\* session.expired deletes the row; ledger lines of the pass forbid it.
DeleteRow(c) ==
    /\ job[c].at = "write" /\ job[c].kind = "expired"
    /\ IF \A i \in Invoice : resets[i].invoiced = 0 /\ resets[i].polled = 0
         THEN Update(c, [NoRow EXCEPT !.id = pass.id])
         ELSE UNCHANGED <<stripeVars, opened, pass, raced, crossed>>
    /\ Finish(c)
    /\ UNCHANGED ledgerVars

-----------------------------------------------------------------------------
\* A checkout paid with a credit: the pass is read active and with balance, and
\* the decrement is conditional on the balance alone.
Redeem(c) ==
    /\ IsActive(pass) /\ pass.balance > 0 /\ redeemed < MaxRedeem
    /\ Begin(c, "redeem", "write", NoEnd)
    /\ UNCHANGED crossed

WriteRedeem(c) ==
    /\ job[c].at = "write" /\ job[c].kind = "redeem"
    /\ IF pass.exists /\ pass.id = job[c].row.id /\ pass.balance > 0
         THEN pass' = [pass EXCEPT !.balance = @ - 1] /\ redeemed' = redeemed + 1
         ELSE UNCHANGED <<pass, redeemed>>
    /\ Finish(c)
    /\ UNCHANGED <<stripeVars, opened, resets, raced, crossed>>

\* A handler may stop between two steps: the process dies or a call throws.
Die(c) ==
    /\ job[c].at # "idle"
    /\ Finish(c)
    /\ UNCHANGED <<stripeVars, opened, pass, ledgerVars, raced, crossed>>

Handler(c) ==
    \/ Subscribe(c) \/ CancelOrphans(c) \/ Upsert(c) \/ OpenSession(c)
    \/ Cancel(c) \/ AskToEnd(c) \/ WriteCancel(c)
    \/ \E s \in Sub : Confirm(c, s)
    \/ \E s \in Sub, kind \in {"paid", "failed", "deleted", "expired", "completed"} :
          Webhook(c, kind, s)
    \/ AskRemote(c) \/ Activate(c) \/ WriteStatus(c) \/ DeleteRow(c)
    \/ Redeem(c) \/ WriteRedeem(c) \/ Die(c)

PassNext == Stripe \/ \E c \in Slot : Handler(c)
PassSpec == PassInit /\ [][PassNext]_passVars

-----------------------------------------------------------------------------
Lines(i) == resets[i].invoiced + resets[i].polled

\* The lines themselves: one for each number up to the count of their kind.
ResetLines ==
    {l \in (Invoice \X {"invoiced", "polled"}) \X (1..MaxReset) :
        l[2] <= resets[l[1][1]][l[1][2]]}

\* Credits come from nowhere but a RESET line: what was redeemed and what is left
\* never exceed the allotments of the ledger, whichever handlers interleave
\* (redeemPassCredits and activate change the balance and the ledger together).
CreditsExplained ==
    redeemed + pass.balance <= Credits * Cardinality(ResetLines)

\* A billing period fills the balance once, whether the webhook, its redelivery or
\* the polling of confirm comes first, as long as no handler writes over a row it
\* did not read and the subscriptions are not mixed up (activate's two dedups).
PeriodFillsOnce ==
    ~raced /\ ~crossed => \A i \in Invoice : Lines(i) <= 1

\* When the row says that the pass will end, Stripe was told so: else the person
\* is charged for ever, because cancel answers early (cancel, subscribe, activate).
EndIsKnownToStripe ==
    ~raced /\ ~crossed /\ pass.ends /\ pass.sub # Pending
        => willEnd[pass.sub] \/ remote[pass.sub] = "CANCELED"

\* A canceled pass comes back by a payment or a new subscription only: the comment
\* of handleBillingEvent says that a payment_failed after the delete is noise.
CanceledWins ==
    [][pass.exists /\ pass.status = "CANCELED" /\ ~raced'
         => pass'.status \in {"CANCELED", "PENDING", "ACTIVE"}]_passVars

=============================================================================
