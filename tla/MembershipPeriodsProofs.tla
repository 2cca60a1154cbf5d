----------------------- MODULE MembershipPeriodsProofs -----------------------
(***************************************************************************)
(* Proofs about MembershipPeriods, for any requests, invoices, orders,     *)
(* proofs and bounds: what a payment gives, which order a proof pays, and  *)
(* that one order waits at a time.                                         *)
(***************************************************************************)
EXTENDS MembershipPeriods, TLAPS

\* What each worker that owes a write has in its hands.
WorkKnown ==
    \A w \in Worker :
        /\ work[w].at \in {"settle", "commit"} => work[w].pay \in Payment
        /\ work[w].at \in {"examine", "collect", "fail", "mark"} => work[w].pay \in Invoice
        /\ At(w, "reject") => work[w].proof \in Proof /\ proof[work[w].proof].status # "NONE"
        /\ At(w, "issue") => work[w].sub \in Sub

\* A proof that was uploaded is of an order that was created.
ProofKnown ==
    \A f \in Proof :
        proof[f].status # "NONE" =>
            proof[f].order \in Order /\ payment[proof[f].order] # "NONE"

\* What is settled or collected is an order that has not been deleted, and no
\* other pass is collecting it: the one that created it may delete it.
OrderIsThere ==
    \A w \in Worker :
        /\ work[w].at \in {"settle", "commit", "collect"} => payment[work[w].pay] # "NONE"
        /\ At(w, "collect") =>
             \A u \in Worker \ {w} : ~(At(u, "collect") /\ work[u].pay = work[w].pay)

\* A transaction that settles a payment is alone with it until it commits,
\* and the payment is not PAID until then.
CommitAlone ==
    \A w \in Worker :
        At(w, "commit") =>
            /\ payment[work[w].pay] # "PAID"
            /\ \A u \in Worker \ {w} : ~(At(u, "commit") /\ work[u].pay = work[w].pay)

Approved(o) == \E f \in Proof : proof[f].status = "APPROVED" /\ proof[f].order = o
Settles(w, o) == work[w].at \in {"settle", "commit"} /\ work[w].pay = o

\* An order that is PAID has its proof, and so has one that a request is
\* about to settle, unless a rejection was written over it.
PaidIsApproved ==
    \A o \in Order :
        payment[o] = "PAID" \/ (\E w \in Worker : Settles(w, o))
            => Approved(o) \/ o \in stranded

\* An approved order is PAID, is about to be, or lost the request that was
\* to settle it.
ApprovedIsPaid ==
    \A o \in Order :
        Approved(o) => \/ payment[o] = "PAID" \/ o \in stranded
                       \/ \E w \in Worker : Settles(w, o)

Disturbed == torn \/ \E w \in Worker : At(w, "void")

\* Between cancellations the rows and the orders go together: no two orders
\* wait, an attempt has its order, and an order that waits has its row.
OrdersMatchRows ==
    \/ Disturbed
    \/ /\ \A o, q \in Waiting : o = q
       /\ (\E s \in Sub : sub[s] = "PENDING_PAYMENT") => Waiting # {}
       /\ Waiting # {} => LiveSubs # {}

IInv ==
    /\ TypeOK /\ WorkKnown /\ ProofKnown /\ OrderIsThere /\ CommitAlone
    /\ PaidIsApproved /\ ApprovedIsPaid /\ OrdersMatchRows

-----------------------------------------------------------------------------
(* The frame of a step: one worker moves and the others stay.              *)

LEMMA PaymentFacts ==
    /\ Order \subseteq Payment /\ Invoice \subseteq Payment
    /\ Order \cap Invoice = {}
    /\ \A p \in Payment : p # None
BY ConstantsAssumption DEF Order, Payment, None

LEMMA BoundFacts ==
    MaxTime \in Nat /\ MaxCall \in Nat /\ MaxCrash \in Nat /\ Months \in Nat \ {0}
BY ConstantsAssumption

\* The noon that ends the plan begun at t is the last one of its months.
LEMMA Halves ==
    \A t \in Nat : /\ CutOff(t) \in Nat /\ CutOff(t) % 2 = 1
                  /\ CutOff(t) \div 2 + 1 = t \div 2 + Months
BY BoundFacts DEF CutOff

LEMMA CalledCounts ==
    ASSUME TypeOK, NEW w \in Worker, Called(w)
    PROVE  calls' \in 0..MaxCall /\ work[w].at = "idle"
<1>1. calls \in 0..MaxCall /\ work[w].at = "idle"
  BY DEF TypeOK, Called, At
<1>2. CASE w \in Job
  BY <1>1, <1>2 DEF Called
<1>3. CASE w \notin Job
  BY <1>1, <1>3, BoundFacts DEF Called
<1> QED
  BY <1>1, <1>2, <1>3

LEMMA IdleWork == Idle \in Work
BY DEF Idle, Work, Step, None

LEMMA DoFrame ==
    ASSUME TypeOK, NEW w \in Worker, NEW job \in Work, Do(w, job)
    PROVE  /\ work' \in [Worker -> Work]
           /\ work'[w] = job
           /\ \A u \in Worker \ {w} : work'[u] = work[u]
<1> HIDE DEF Work
<1>1. work \in [Worker -> Work] /\ work' = [work EXCEPT ![w] = job]
  BY DEF TypeOK, Do
<1> QED
  BY <1>1

LEMMA DoneFrame ==
    ASSUME TypeOK, NEW w \in Worker, Done(w)
    PROVE  /\ work' \in [Worker -> Work]
           /\ work'[w] = Idle
           /\ \A u \in Worker \ {w} : work'[u] = work[u]
BY DoFrame, IdleWork DEF Done

LEMMA ThenFrame ==
    ASSUME TypeOK, NEW w \in Worker, NEW step \in Step, Then(w, step)
    PROVE  /\ work' \in [Worker -> Work]
           /\ work'[w].at = step
           /\ work'[w].pay = work[w].pay /\ work'[w].proof = work[w].proof
           /\ \A u \in Worker \ {w} : work'[u] = work[u]
<1> DEFINE job == [work[w] EXCEPT !.at = step]
<1>1. work[w] \in Work
  BY DEF TypeOK
<1>2. /\ job \in Work /\ job.at = step
      /\ job.pay = work[w].pay /\ job.proof = work[w].proof
  BY <1>1 DEF Work
<1>3. Do(w, job)
  BY DEF Then
<1> HIDE DEF job
<1>4. work' \in [Worker -> Work] /\ work'[w] = job /\ \A u \in Worker \ {w} : work'[u] = work[u]
  BY <1>2, <1>3, DoFrame
<1> QED
  BY <1>2, <1>4

-----------------------------------------------------------------------------
(* The invariant holds at first, and every step preserves it.              *)

LEMMA InitInv == ASSUME Init PROVE IInv
<1> DEFINE blank == [status |-> "NONE", order |-> None]
<1>a. blank \in [status : ProofStatus, order : Order \cup {None}]
  BY DEF ProofStatus
<1> HIDE DEF blank
<1>b. proof \in [Proof -> [status : ProofStatus, order : Order \cup {None}]]
  BY <1>a DEF Init, blank
<1>c. work \in [Worker -> Work]
  BY IdleWork DEF Init
<1>d. /\ sub \in [Sub -> SubStatus] /\ dueAt \in [Sub -> Nat]
      /\ payment \in [Payment -> PaymentStatus]
      /\ invoice \in [Invoice -> {"none", "unpaid", "paid"}]
  BY DEF Init, SubStatus, PaymentStatus
<1>e. now \in 0..MaxTime /\ calls \in 0..MaxCall /\ crashes \in 0..MaxCrash
  BY BoundFacts DEF Init
<1>1. TypeOK
  BY <1>b, <1>c, <1>d, <1>e DEF Init, TypeOK
<1>2. \A w \in Worker : work[w].at = "idle" /\ work[w].pay = None
  BY DEF Init, Idle
<1>3. WorkKnown /\ OrderIsThere /\ CommitAlone /\ OrdersMatchRows
  BY <1>2, PaymentFacts DEF Init, WorkKnown, OrderIsThere, CommitAlone, OrdersMatchRows, At, Waiting
<1>4. ProofKnown
  BY DEF Init, ProofKnown
<1>5. PaidIsApproved /\ ApprovedIsPaid
  BY <1>2, PaymentFacts DEF Init, PaidIsApproved, ApprovedIsPaid, Approved, Settles
<1> QED
  BY <1>1, <1>3, <1>4, <1>5 DEF IInv

LEMMA StaysInv ==
    ASSUME IInv, UNCHANGED <<subVars, payment, proof, work, torn, stranded>>, TypeOK'
    PROVE  IInv'
BY DEF IInv, subVars, WorkKnown, ProofKnown, OrderIsThere, CommitAlone, PaidIsApproved, ApprovedIsPaid,
       OrdersMatchRows, Disturbed, Approved, Settles, At, Waiting, LiveSubs

LEMMA SubscribeInv == ASSUME IInv, NEW w \in Worker, Subscribe(w) PROVE IInv'
<1> PICK s \in Sub, o \in Order :
       /\ NextSub(s) /\ NextOrder(o)
       /\ sub' = [t \in Sub |-> IF t = s THEN "PENDING_PAYMENT"
                                ELSE IF t \in LiveSubs THEN "CANCELED" ELSE sub[t]]
       /\ payment' = [payment EXCEPT ![o] = "PENDING"]
  BY DEF Subscribe
<1> USE PaymentFacts
<1>0. calls' \in 0..MaxCall
  BY CalledCounts DEF IInv, Subscribe
<1>1. TypeOK'
  BY <1>0 DEF IInv, TypeOK, periodVars, countVars, Subscribe, SubStatus, PaymentStatus, cardVars, historyVars
<1>2. /\ payment[o] = "NONE" /\ payment'[o] = "PENDING"
      /\ \A p \in Payment \ {o} : payment'[p] = payment[p]
      /\ UNCHANGED <<work, proof, stranded, torn>>
  BY DEF NextOrder, Subscribe, historyVars, IInv, TypeOK
<1>3. WorkKnown' /\ ProofKnown' /\ OrderIsThere' /\ PaidIsApproved' /\ ApprovedIsPaid'
  BY <1>2 DEF IInv, WorkKnown, ProofKnown, OrderIsThere, PaidIsApproved, ApprovedIsPaid, Approved, Settles, At
<1>4. CommitAlone'
  BY <1>2 DEF IInv, CommitAlone, WorkKnown, At
<1>5. OrdersMatchRows'
  <2>1. CASE Disturbed
    BY <2>1, <1>2 DEF OrdersMatchRows, Disturbed, At
  <2>2. CASE ~Disturbed
    <3>1. Waiting = {}
      BY <2>2 DEF IInv, OrdersMatchRows, Subscribe, NoOpenAttempt, LiveSubs
    <3>2. Waiting' = {o}
      BY <3>1, <1>2 DEF Waiting
    <3>3. s \in LiveSubs'
      BY DEF LiveSubs, Live
    <3> QED
      BY <3>2, <3>3 DEF OrdersMatchRows
  <2> QED
    BY <2>1, <2>2
<1> QED
  BY <1>1, <1>3, <1>4, <1>5 DEF IInv

\* What a step that voids the orders that wait leaves as it was.
LEMMA VoidFrame ==
    ASSUME IInv, payment' = Voided(Waiting), \A o \in Waiting : ~Held(o)
    PROVE  /\ payment' \in [Payment -> PaymentStatus]
           /\ \A p \in Payment : /\ payment'[p] = "PAID" <=> payment[p] = "PAID"
                                 /\ payment'[p] = "NONE" <=> payment[p] = "NONE"
           /\ \A w \in Worker : At(w, "commit") => payment'[work[w].pay] # "PAID"
           /\ Waiting' = {}
<1> USE PaymentFacts
<1>1. payment' \in [Payment -> PaymentStatus]
  BY DEF IInv, TypeOK, PaymentStatus, Voided
<1>2. \A p \in Payment : /\ payment'[p] = "PAID" <=> payment[p] = "PAID"
                         /\ payment'[p] = "NONE" <=> payment[p] = "NONE"
  BY DEF Voided, Waiting
<1>3. \A w \in Worker : At(w, "commit") => payment'[work[w].pay] # "PAID"
  BY <1>2 DEF IInv, CommitAlone, WorkKnown, At
<1>4. Waiting' = {}
  BY DEF Waiting, Voided
<1> QED
  BY <1>1, <1>2, <1>3, <1>4

LEMMA SwitchToCardInv == ASSUME IInv, NEW w \in Worker, SwitchToCard(w) PROVE IInv'
<1> USE PaymentFacts
<1>1. /\ payment' \in [Payment -> PaymentStatus]
      /\ \A p \in Payment : /\ payment'[p] = "PAID" <=> payment[p] = "PAID"
                            /\ payment'[p] = "NONE" <=> payment[p] = "NONE"
      /\ \A u \in Worker : At(u, "commit") => payment'[work[u].pay] # "PAID"
      /\ Waiting' = {}
  BY VoidFrame DEF SwitchToCard
<1>2. UNCHANGED <<work, proof, stranded, torn>>
  BY DEF SwitchToCard, historyVars
<1>0. calls' \in 0..MaxCall
  BY CalledCounts DEF IInv, SwitchToCard
<1>3. TypeOK'
  BY <1>0, <1>1 DEF IInv, TypeOK, periodVars, countVars, SwitchToCard, SubStatus, cardVars, historyVars
<1>4. WorkKnown' /\ ProofKnown' /\ OrderIsThere' /\ PaidIsApproved' /\ ApprovedIsPaid'
  BY <1>1, <1>2 DEF IInv, TypeOK, WorkKnown, ProofKnown, OrderIsThere, PaidIsApproved,
     ApprovedIsPaid, Approved, Settles, At
<1>5. CommitAlone'
  BY <1>1, <1>2 DEF IInv, CommitAlone, At
<1>6. \A s \in Sub : sub'[s] # "PENDING_PAYMENT"
  BY DEF SwitchToCard, LiveSubs, Live
<1>7. OrdersMatchRows'
  BY <1>1, <1>6 DEF OrdersMatchRows
<1> QED
  BY <1>3, <1>4, <1>5, <1>7 DEF IInv

LEMMA CancelInv == ASSUME IInv, NEW w \in Worker, NEW s \in Sub, Cancel(w, s) PROVE IInv'
<1> DEFINE job == [Idle EXCEPT !.at = "void"]
<1>1. job \in Work /\ job.at = "void"
  BY DEF Idle, Work, Step, None
<1> HIDE DEF job
<1>2. /\ Do(w, job) /\ work[w].at = "idle"
      /\ UNCHANGED <<payment, proof, stranded, torn>>
  BY DEF Cancel, Called, At, historyVars, job
<1>3. /\ work' \in [Worker -> Work] /\ work'[w].at = "void"
      /\ \A u \in Worker \ {w} : work'[u] = work[u]
  BY <1>1, <1>2, DoFrame DEF IInv
<1>0. calls' \in 0..MaxCall
  BY CalledCounts DEF IInv, Cancel
<1>4. TypeOK'
  BY <1>0, <1>3 DEF IInv, TypeOK, periodVars, countVars, Cancel, SubStatus, cardVars, historyVars
<1>5. WorkKnown' /\ ProofKnown' /\ OrderIsThere' /\ CommitAlone'
  BY <1>2, <1>3 DEF IInv, WorkKnown, ProofKnown, OrderIsThere, CommitAlone, At
<1>6. PaidIsApproved' /\ ApprovedIsPaid'
  BY <1>2, <1>3 DEF IInv, PaidIsApproved, ApprovedIsPaid, Approved, Settles
<1>7. OrdersMatchRows'
  BY <1>3 DEF OrdersMatchRows, Disturbed, At
<1> QED
  BY <1>4, <1>5, <1>6, <1>7 DEF IInv

LEMMA CancelVoidsInv == ASSUME IInv, NEW w \in Worker, CancelVoids(w) PROVE IInv'
<1> USE PaymentFacts
<1>1. /\ payment' \in [Payment -> PaymentStatus]
      /\ \A p \in Payment : /\ payment'[p] = "PAID" <=> payment[p] = "PAID"
                            /\ payment'[p] = "NONE" <=> payment[p] = "NONE"
      /\ \A u \in Worker : At(u, "commit") => payment'[work[u].pay] # "PAID"
      /\ Waiting' = {}
  BY VoidFrame DEF CancelVoids
<1>2. /\ work[w].at = "void" /\ Done(w)
      /\ UNCHANGED <<proof, stranded, sub>> /\ torn' = (torn \/ LiveSubs # {})
  BY DEF CancelVoids, historyVars, At, subVars
<1>3. /\ work' \in [Worker -> Work] /\ work'[w] = Idle
      /\ \A u \in Worker \ {w} : work'[u] = work[u]
  BY <1>2, DoneFrame DEF IInv
<1>4. work'[w].at = "idle"
  BY <1>3 DEF Idle
<1>5. TypeOK'
  BY <1>1, <1>3 DEF IInv, TypeOK, periodVars, countVars, CancelVoids, cardVars, boundVars, subVars
<1>6. WorkKnown' /\ ProofKnown' /\ OrderIsThere' /\ CommitAlone'
  BY <1>1, <1>2, <1>3, <1>4 DEF IInv, WorkKnown, ProofKnown, OrderIsThere, CommitAlone, At
<1>7. PaidIsApproved' /\ ApprovedIsPaid'
  BY <1>1, <1>2, <1>3, <1>4 DEF IInv, PaidIsApproved, ApprovedIsPaid, Approved, Settles
<1>8. OrdersMatchRows'
  <2>1. CASE LiveSubs # {}
    BY <1>2, <2>1 DEF OrdersMatchRows, Disturbed
  <2>2. CASE LiveSubs = {}
    BY <1>1, <1>2, <2>2 DEF OrdersMatchRows, LiveSubs, Live
  <2> QED
    BY <2>1, <2>2
<1> QED
  BY <1>5, <1>6, <1>7, <1>8 DEF IInv

\* A step of a worker that neither held a payment nor was between the writes
\* of a cancellation, and that takes no payment of an order.
LEMMA AsideInv ==
    ASSUME IInv, NEW w \in Worker,
           UNCHANGED <<subVars, payment, proof, stranded, torn>>,
           TypeOK', work[w].at \notin {"settle", "commit", "void"},
           \A u \in Worker \ {w} : work'[u] = work[u],
           work'[w].at \notin {"commit", "collect"},
           work'[w].at = "settle" => payment[work'[w].pay] # "NONE",
           work'[w].at \in {"settle", "examine", "collect", "fail", "mark"}
               => work'[w].pay \in Invoice,
           work'[w].at = "reject" => /\ work'[w].proof \in Proof
                                     /\ proof[work'[w].proof].status # "NONE",
           work'[w].at = "issue" => work'[w].sub \in Sub
    PROVE  IInv'
<1> USE PaymentFacts
<1>1. WorkKnown' /\ ProofKnown' /\ OrderIsThere' /\ CommitAlone'
  BY DEF IInv, WorkKnown, ProofKnown, OrderIsThere, CommitAlone, At
<1>2. PaidIsApproved' /\ ApprovedIsPaid'
  BY DEF IInv, PaidIsApproved, ApprovedIsPaid, Approved, Settles
<1>3. OrdersMatchRows'
  BY DEF IInv, OrdersMatchRows, Disturbed, Waiting, LiveSubs, subVars, At
<1> QED
  BY <1>1, <1>2, <1>3 DEF IInv

LEMMA IssueReadInv == ASSUME IInv, NEW w \in Worker, NEW s \in Sub, IssueRead(w, s) PROVE IInv'
<1> DEFINE job == [Idle EXCEPT !.at = "issue", !.sub = s]
<1>1. job \in Work /\ job.at = "issue" /\ job.sub = s
  BY DEF Idle, Work, Step, None
<1> HIDE DEF job
<1>2. Do(w, job) /\ work[w].at = "idle" /\ calls' \in 0..MaxCall
  BY CalledCounts DEF IInv, IssueRead, job
<1>3. /\ work' \in [Worker -> Work] /\ work'[w].at = "issue" /\ work'[w].sub = s
      /\ \A u \in Worker \ {w} : work'[u] = work[u]
  BY <1>1, <1>2, DoFrame DEF IInv
<1>4. TypeOK'
  BY <1>2, <1>3 DEF IInv, TypeOK, periodVars, countVars, IssueRead, subVars, cardVars, historyVars
<1> QED
  BY <1>2, <1>3, <1>4, AsideInv DEF IssueRead, historyVars

LEMMA RejectReadInv == ASSUME IInv, NEW w \in Worker, NEW f \in Proof, RejectRead(w, f) PROVE IInv'
<1> DEFINE job == [Idle EXCEPT !.at = "reject", !.proof = f]
<1>1. job \in Work /\ job.at = "reject" /\ job.proof = f
  BY DEF Idle, Work, Step, None
<1> HIDE DEF job
<1>2. Do(w, job) /\ work[w].at = "idle" /\ calls' \in 0..MaxCall
  BY CalledCounts DEF IInv, RejectRead, job
<1>3. /\ work' \in [Worker -> Work] /\ work'[w].at = "reject" /\ work'[w].proof = f
      /\ \A u \in Worker \ {w} : work'[u] = work[u]
  BY <1>1, <1>2, DoFrame DEF IInv
<1>4. TypeOK'
  BY <1>2, <1>3 DEF IInv, TypeOK, periodVars, countVars, RejectRead, subVars, cardVars, historyVars
<1>5. proof[f].status # "NONE"
  BY DEF RejectRead
<1> QED
  BY <1>2, <1>3, <1>4, <1>5, AsideInv DEF RejectRead, historyVars

LEMMA FetchInv == ASSUME IInv, NEW w \in Worker, NEW i \in Invoice, Fetch(w, i) PROVE IInv'
<1> DEFINE job == [Idle EXCEPT !.at = "examine", !.pay = i, !.told = invoice[i]]
<1>0. invoice[i] \in {"none", "unpaid", "paid"}
  BY DEF IInv, TypeOK
<1>1. job \in Work /\ job.at = "examine" /\ job.pay = i
  BY <1>0, PaymentFacts DEF Idle, Work, Step, None
<1> HIDE DEF job
<1>2. Do(w, job) /\ work[w].at = "idle" /\ calls' \in 0..MaxCall
  BY CalledCounts DEF IInv, Fetch, job
<1>3. /\ work' \in [Worker -> Work] /\ work'[w].at = "examine" /\ work'[w].pay = i
      /\ \A u \in Worker \ {w} : work'[u] = work[u]
  BY <1>1, <1>2, DoFrame DEF IInv
<1>4. TypeOK'
  BY <1>2, <1>3 DEF IInv, TypeOK, periodVars, countVars, Fetch, subVars, cardVars, historyVars
<1> QED
  BY <1>2, <1>3, <1>4, AsideInv DEF Fetch, historyVars

LEMMA LinkPaidInv == ASSUME IInv, NEW w \in Worker, NEW i \in Invoice, LinkPaid(w, i) PROVE IInv'
<1> DEFINE job == [Idle EXCEPT !.at = "settle", !.pay = i]
<1>1. job \in Work /\ job.at = "settle" /\ job.pay = i
  BY PaymentFacts DEF Idle, Work, Step, None
<1> HIDE DEF job
<1>2. Do(w, job) /\ work[w].at = "idle" /\ calls' \in 0..MaxCall
  BY CalledCounts DEF IInv, LinkPaid, job
<1>3. /\ work' \in [Worker -> Work] /\ work'[w].at = "settle" /\ work'[w].pay = i
      /\ \A u \in Worker \ {w} : work'[u] = work[u]
  BY <1>1, <1>2, DoFrame DEF IInv
<1>4. TypeOK'
  BY <1>2, <1>3 DEF IInv, TypeOK, periodVars, countVars, LinkPaid, subVars, historyVars
<1>5. payment[i] # "NONE"
  BY DEF LinkPaid
<1> QED
  BY <1>2, <1>3, <1>4, <1>5, AsideInv DEF LinkPaid, historyVars

LEMMA CollectInv == ASSUME IInv, NEW w \in Worker, Collect(w) PROVE IInv'
<1>1. work[w].at = "collect" /\ work[w].pay \in Invoice /\ payment[work[w].pay] # "NONE"
  BY DEF Collect, At, IInv, WorkKnown, OrderIsThere
<1>2. /\ work' \in [Worker -> Work]
      /\ work'[w].at \in {"settle", "fail", "idle"}
      /\ work'[w].at # "idle" => work'[w].pay = work[w].pay
      /\ \A u \in Worker \ {w} : work'[u] = work[u]
  <2>1. CASE Then(w, "settle")
    BY <2>1, ThenFrame DEF IInv, Step
  <2>2. CASE Then(w, "fail")
    BY <2>2, ThenFrame DEF IInv, Step
  <2>3. CASE Done(w)
    BY <2>3, DoneFrame DEF IInv, Idle
  <2> QED
    BY <2>1, <2>2, <2>3 DEF Collect
<1>3. links' \subseteq Invoice
  BY <1>1 DEF Collect, IInv, TypeOK
<1>4. TypeOK'
  BY <1>2, <1>3 DEF IInv, TypeOK, periodVars, countVars, Collect, subVars, boundVars, historyVars
<1> QED
  BY <1>1, <1>2, <1>4, AsideInv DEF Collect, historyVars

LEMMA MarkInv == ASSUME IInv, NEW w \in Worker, Mark(w) PROVE IInv'
<1>1. work[w].at = "mark" /\ work[w].pay \in Invoice
  BY DEF Mark, At, IInv, WorkKnown
<1>2. /\ work' \in [Worker -> Work] /\ work'[w].at = "idle"
      /\ \A u \in Worker \ {w} : work'[u] = work[u]
  BY DoneFrame DEF IInv, Idle, Mark
<1>3. TypeOK'
  BY <1>1, <1>2 DEF IInv, TypeOK, periodVars, countVars, Mark, subVars, boundVars, historyVars
<1> QED
  BY <1>1, <1>2, <1>3, AsideInv DEF Mark, historyVars

LEMMA IssueInv == ASSUME IInv, NEW w \in Worker, Issue(w) PROVE IInv'
<1> USE PaymentFacts
<1>1. /\ work[w].at = "issue" /\ Done(w)
      /\ UNCHANGED <<sub, proof, stranded, torn>>
  BY DEF Issue, At, historyVars, subVars
<1>2. /\ work' \in [Worker -> Work] /\ work'[w].at = "idle"
      /\ \A u \in Worker \ {w} : work'[u] = work[u]
  BY <1>1, DoneFrame DEF IInv, Idle
<1>3. CASE UNCHANGED payment
  <2>1. TypeOK'
    BY <1>2, <1>3 DEF IInv, TypeOK, periodVars, countVars, Issue, cardVars, subVars, boundVars, historyVars
  <2> QED
    BY <1>1, <1>2, <1>3, <2>1, AsideInv DEF Issue, historyVars
<1>4. CASE StillIssues(work[w].sub) /\ payment' # payment
  <2>1. PICK o \in Order : NextOrder(o) /\ payment' = [payment EXCEPT ![o] = "PENDING"]
    BY <1>4 DEF Issue
  <2>2. /\ payment[o] = "NONE" /\ payment'[o] = "PENDING"
        /\ payment' \in [Payment -> PaymentStatus]
        /\ \A p \in Payment \ {o} : payment'[p] = payment[p]
    BY <2>1 DEF NextOrder, IInv, TypeOK, PaymentStatus
  <2>3. TypeOK'
    BY <1>2, <2>2 DEF IInv, TypeOK, periodVars, countVars, Issue, cardVars, subVars, boundVars, historyVars
  <2>4. WorkKnown' /\ ProofKnown' /\ OrderIsThere' /\ CommitAlone'
    BY <1>1, <1>2, <2>2 DEF IInv, WorkKnown, ProofKnown, OrderIsThere, CommitAlone, At
  <2>5. PaidIsApproved' /\ ApprovedIsPaid'
    BY <1>1, <1>2, <2>2 DEF IInv, PaidIsApproved, ApprovedIsPaid, Approved, Settles
  <2>6. OrdersMatchRows'
    <3>1. CASE Disturbed
      BY <3>1, <1>1, <1>2 DEF OrdersMatchRows, Disturbed, At
    <3>2. CASE ~Disturbed
      <4>1. Waiting' = {o}
        BY <1>4, <2>2 DEF Waiting, StillIssues
      <4>2. work[w].sub \in Sub
        BY <1>1 DEF IInv, WorkKnown, At
      <4>3. LiveSubs' # {}
        BY <1>1, <1>4, <4>2 DEF StillIssues, LiveSubs, Live
      <4> QED
        BY <4>1, <4>3 DEF OrdersMatchRows
    <3> QED
      BY <3>1, <3>2
  <2> QED
    BY <2>3, <2>4, <2>5, <2>6 DEF IInv
<1> QED
  BY <1>3, <1>4 DEF Issue

LEMMA UploadInv ==
    ASSUME IInv, NEW w \in Worker, NEW f \in Proof, NEW o \in Order, Upload(w, f, o)
    PROVE  IInv'
<1> DEFINE new == [status |-> "PENDING", order |-> o]
<1>1. new \in [status : ProofStatus, order : Order \cup {None}]
      /\ new.status = "PENDING" /\ new.order = o
  BY DEF ProofStatus
<1>2. proof' = [proof EXCEPT ![f] = new] /\ proof[f].status = "NONE" /\ payment[o] = "PENDING"
      /\ UNCHANGED <<subVars, payment, work, stranded, torn>>
  BY DEF Upload, historyVars
<1> HIDE DEF new
<1>3. /\ proof' \in [Proof -> [status : ProofStatus, order : Order \cup {None}]]
      /\ proof'[f] = new /\ \A g \in Proof \ {f} : proof'[g] = proof[g]
  BY <1>1, <1>2 DEF IInv, TypeOK
<1>4. calls' \in 0..MaxCall
  BY CalledCounts DEF IInv, Upload
<1>5. TypeOK'
  BY <1>3, <1>4 DEF IInv, TypeOK, periodVars, countVars, Upload, subVars, cardVars, historyVars
<1>6. \A q \in Order : Approved(q)' <=> Approved(q)
  BY <1>1, <1>2, <1>3 DEF Approved
<1>7. WorkKnown' /\ ProofKnown' /\ OrderIsThere' /\ CommitAlone'
  BY <1>1, <1>2, <1>3 DEF IInv, WorkKnown, ProofKnown, OrderIsThere, CommitAlone, At
<1>8. PaidIsApproved' /\ ApprovedIsPaid'
  BY <1>2, <1>6 DEF IInv, PaidIsApproved, ApprovedIsPaid, Settles
<1>9. OrdersMatchRows'
  BY <1>2 DEF IInv, OrdersMatchRows, Disturbed, Waiting, LiveSubs, subVars, At
<1> QED
  BY <1>5, <1>7, <1>8, <1>9 DEF IInv

LEMMA ApproveInv == ASSUME IInv, NEW w \in Worker, NEW f \in Proof, Approve(w, f) PROVE IInv'
<1> USE PaymentFacts
<1>0. PICK o \in Order : /\ proof[f].order = o /\ proof[f].status = "PENDING"
                         /\ payment[o] # "NONE"
  BY DEF IInv, ProofKnown, Approve
<1> DEFINE job == [Idle EXCEPT !.at = "settle", !.pay = o]
<1>1. job \in Work /\ job.at = "settle" /\ job.pay = o
  BY <1>0 DEF Idle, Work, Step, None
<1>2. Do(w, job) /\ work[w].at = "idle" /\ calls' \in 0..MaxCall
  BY CalledCounts, <1>0 DEF IInv, Approve
<1> HIDE DEF job
<1>3. /\ work' \in [Worker -> Work] /\ work'[w].at = "settle" /\ work'[w].pay = o
      /\ \A u \in Worker \ {w} : work'[u] = work[u]
  BY <1>1, <1>2, DoFrame DEF IInv
<1>4. /\ proof' \in [Proof -> [status : ProofStatus, order : Order \cup {None}]]
      /\ proof'[f].status = "APPROVED" /\ proof'[f].order = o
      /\ \A g \in Proof \ {f} : proof'[g] = proof[g]
  BY <1>0 DEF IInv, TypeOK, Approve, ProofStatus
<1>5. UNCHANGED <<subVars, payment, stranded, torn>>
  BY DEF Approve, historyVars
<1>6. TypeOK'
  BY <1>2, <1>3, <1>4 DEF IInv, TypeOK, periodVars, countVars, Approve, subVars, cardVars, historyVars
<1>7. /\ Approved(o)'
      /\ \A q \in Order \ {o} : Approved(q)' <=> Approved(q)
      /\ \A q \in Order : Approved(q) => Approved(q)'
  BY <1>0, <1>4 DEF Approved
<1>8. WorkKnown' /\ ProofKnown' /\ OrderIsThere' /\ CommitAlone'
  BY <1>0, <1>2, <1>3, <1>4, <1>5 DEF IInv, WorkKnown, ProofKnown, OrderIsThere, CommitAlone, At
<1>s. \A u \in Worker, q \in Order :
        /\ Settles(u, q) => Settles(u, q)'
        /\ Settles(u, q)' /\ q # o => Settles(u, q)
  BY <1>2, <1>3 DEF Settles
<1>9. PaidIsApproved'
  <2> SUFFICES ASSUME NEW q \in Order, (payment[q] = "PAID" \/ (\E u \in Worker : Settles(u, q)))'
               PROVE  Approved(q)' \/ q \in stranded'
    BY DEF PaidIsApproved
  <2>1. CASE q = o
    BY <2>1, <1>7
  <2>2. CASE q # o
    BY <2>2, <1>s, <1>5, <1>7 DEF IInv, PaidIsApproved
  <2> QED
    BY <2>1, <2>2
<1>10. ApprovedIsPaid'
  <2> SUFFICES ASSUME NEW q \in Order, Approved(q)'
               PROVE  (payment[q] = "PAID" \/ q \in stranded \/ \E u \in Worker : Settles(u, q))'
    BY DEF ApprovedIsPaid
  <2>1. CASE q = o
    BY <2>1, <1>3 DEF Settles
  <2>2. CASE q # o
    BY <2>2, <1>s, <1>5, <1>7 DEF IInv, ApprovedIsPaid
  <2> QED
    BY <2>1, <2>2
<1>11. OrdersMatchRows'
  BY <1>2, <1>3, <1>5 DEF IInv, OrdersMatchRows, Disturbed, Waiting, LiveSubs, subVars, At
<1> QED
  BY <1>6, <1>8, <1>9, <1>10, <1>11 DEF IInv

LEMMA RejectInv == ASSUME IInv, NEW w \in Worker, Reject(w) PROVE IInv'
<1> USE PaymentFacts
<1> DEFINE f == work[w].proof
           o == proof[f].order
<1>0. f \in Proof /\ work[w].at = "reject" /\ Done(w)
      /\ UNCHANGED <<subVars, payment, torn>>
  BY DEF IInv, WorkKnown, Reject, At
<1>1. /\ work' \in [Worker -> Work] /\ work'[w].at = "idle"
      /\ \A u \in Worker \ {w} : work'[u] = work[u]
  BY <1>0, DoneFrame DEF IInv, Idle
<1>2. /\ proof' \in [Proof -> [status : ProofStatus, order : Order \cup {None}]]
      /\ proof'[f].status = "REJECTED" /\ proof'[f].order = o
      /\ \A g \in Proof \ {f} : proof'[g] = proof[g]
  BY <1>0 DEF IInv, TypeOK, Reject, ProofStatus
<1>3. stranded' = IF proof[f].status = "APPROVED" THEN stranded \cup {o} ELSE stranded
  BY DEF Reject
<1>4. proof[f].status = "APPROVED" => o \in Order
  BY <1>0 DEF IInv, ProofKnown
<1>b. stranded' \subseteq Payment
  BY <1>3, <1>4 DEF IInv, TypeOK
<1>5. TypeOK'
  BY <1>1, <1>2, <1>b DEF IInv, TypeOK, periodVars, countVars, Reject, subVars, cardVars, boundVars
<1>6. \A q \in Order : /\ Approved(q)' => Approved(q)
                       /\ Approved(q) => Approved(q)' \/ q \in stranded'
  BY <1>0, <1>2, <1>3 DEF Approved
<1>c. stranded \subseteq stranded'
  BY <1>3
<1>7. WorkKnown' /\ OrderIsThere' /\ CommitAlone'
  BY <1>0, <1>1, <1>2 DEF IInv, WorkKnown, OrderIsThere, CommitAlone, At
<1>d. ProofKnown'
  <2>1. o \in Order /\ payment[o] # "NONE"
    BY <1>0 DEF IInv, ProofKnown, WorkKnown, At
  <2> QED
    BY <1>0, <2>1, <1>2 DEF IInv, ProofKnown
<1> HIDE DEF f, o
<1>8. PaidIsApproved' /\ ApprovedIsPaid'
  BY <1>0, <1>1, <1>6, <1>c DEF IInv, PaidIsApproved, ApprovedIsPaid, Settles
<1>9. OrdersMatchRows'
  BY <1>0, <1>1 DEF IInv, OrdersMatchRows, Disturbed, Waiting, LiveSubs, subVars, At
<1> QED
  BY <1>5, <1>7, <1>d, <1>8, <1>9 DEF IInv

LEMMA SettleBeginsInv == ASSUME IInv, NEW w \in Worker, SettleBegins(w) PROVE IInv'
<1> USE PaymentFacts
<1> DEFINE p == work[w].pay
           end == IF InForce THEN endsAt ELSE 0
           claim == [work[w] EXCEPT !.at = "commit", !.read = end]
<1>0. /\ p \in Payment /\ work[w].at = "settle" /\ ~Held(p)
      /\ UNCHANGED <<subVars, payment, proof, stranded, torn>>
  BY DEF IInv, WorkKnown, SettleBegins, At, historyVars
<1>1. work[w] \in Work /\ end \in Nat
  BY DEF IInv, TypeOK
<1>2. CASE Claimable(p)
  <2>1. claim \in Work /\ claim.at = "commit" /\ claim.pay = p
    BY <1>1 DEF Work, Step
  <2>2. Do(w, claim)
    BY <1>2 DEF SettleBegins
  <2> HIDE DEF claim
  <2>3. /\ work' \in [Worker -> Work] /\ work'[w].at = "commit" /\ work'[w].pay = p
        /\ \A u \in Worker \ {w} : work'[u] = work[u]
    BY <2>1, <2>2, DoFrame DEF IInv
  <2>4. TypeOK'
    BY <2>3 DEF IInv, TypeOK, periodVars, countVars, SettleBegins, subVars, cardVars, boundVars, historyVars
  <2>5. WorkKnown' /\ ProofKnown' /\ OrderIsThere'
    BY <1>0, <2>3 DEF IInv, WorkKnown, ProofKnown, OrderIsThere, At
  <2>6. CommitAlone'
    BY <1>0, <1>2, <2>3 DEF IInv, CommitAlone, Held, Claimable, At
  <2>7. \A u \in Worker, o \in Order : Settles(u, o)' <=> Settles(u, o)
    BY <1>0, <2>3 DEF Settles
  <2>8. PaidIsApproved' /\ ApprovedIsPaid'
    BY <1>0, <2>7 DEF IInv, PaidIsApproved, ApprovedIsPaid, Approved
  <2>9. OrdersMatchRows'
    BY <1>0, <2>3 DEF IInv, OrdersMatchRows, Disturbed, Waiting, LiveSubs, subVars, At
  <2> QED
    BY <2>4, <2>5, <2>6, <2>8, <2>9 DEF IInv
<1>3. CASE ~Claimable(p)
  <2>1. /\ work' \in [Worker -> Work] /\ work'[w].at \in {"mark", "idle"}
        /\ work'[w].at = "mark" => work'[w].pay = p /\ p \in Invoice
        /\ \A u \in Worker \ {w} : work'[u] = work[u]
    <3>0. Do(w, IF p \in Invoice THEN [work[w] EXCEPT !.at = "mark"] ELSE Idle)
      BY <1>3 DEF SettleBegins
    <3>1. CASE p \in Invoice
      <4>1. Then(w, "mark")
        BY <3>0, <3>1 DEF Then
      <4> QED
        BY <3>1, <4>1, ThenFrame DEF IInv, Step
    <3>2. CASE p \notin Invoice
      <4>1. Done(w)
        BY <3>0, <3>2 DEF Done
      <4> QED
        BY <4>1, DoneFrame DEF IInv, Idle
    <3> QED
      BY <3>1, <3>2
  <2>2. TypeOK'
    BY <2>1 DEF IInv, TypeOK, periodVars, countVars, SettleBegins, subVars, cardVars, boundVars, historyVars
  <2>3. WorkKnown' /\ ProofKnown' /\ OrderIsThere' /\ CommitAlone'
    BY <1>0, <2>1 DEF IInv, WorkKnown, ProofKnown, OrderIsThere, CommitAlone, At
  <2>4. payment[p] = "PAID"
    BY <1>3 DEF Claimable
  <2>5. PaidIsApproved' /\ ApprovedIsPaid'
    BY <1>0, <2>1, <2>4 DEF IInv, PaidIsApproved, ApprovedIsPaid, Approved, Settles
  <2>6. OrdersMatchRows'
    BY <1>0, <2>1 DEF IInv, OrdersMatchRows, Disturbed, Waiting, LiveSubs, subVars, At
  <2> QED
    BY <2>2, <2>3, <2>5, <2>6 DEF IInv
<1> QED
  BY <1>2, <1>3

LEMMA SettleCommitsInv == ASSUME IInv, NEW w \in Worker, SettleCommits(w) PROVE IInv'
<1> USE PaymentFacts
<1>0. PICK p \in Payment : work[w].pay = p
  BY DEF IInv, WorkKnown, SettleCommits, At
<1>1. /\ work[w].at = "commit" /\ UNCHANGED <<proof, stranded, torn>>
      /\ payment' = [payment EXCEPT ![p] = "PAID"]
  BY <1>0 DEF SettleCommits, At, historyVars
<1>2. /\ work' \in [Worker -> Work] /\ work'[w].at \in {"mark", "idle"}
      /\ work'[w].at = "mark" => work'[w].pay = p /\ p \in Invoice
      /\ \A u \in Worker \ {w} : work'[u] = work[u]
  <2>1. CASE p \in Invoice
    BY <1>0, <2>1, ThenFrame DEF IInv, Step, SettleCommits
  <2>2. CASE p \notin Invoice
    BY <1>0, <2>2, DoneFrame DEF IInv, Idle, SettleCommits
  <2> QED
    BY <2>1, <2>2
<1>3. /\ payment' \in [Payment -> PaymentStatus] /\ payment'[p] = "PAID"
      /\ \A q \in Payment \ {p} : payment'[q] = payment[q]
  BY <1>1 DEF IInv, TypeOK, PaymentStatus
<1>4. endsAt' \in Nat /\ dueAt' \in [Sub -> Nat]
  <2>1. work[w].read \in Nat /\ now \in Nat
    BY DEF IInv, TypeOK, Work
  <2>2. endsAt' = Extended(work[w].read) /\ Extended(work[w].read) \in Nat
    BY <2>1, Halves DEF SettleCommits, Extended
  <2>3. dueAt' = [s \in Sub |-> IF s \in (IF p \in Order THEN LiveSubs ELSE {})
                                  THEN endsAt' ELSE dueAt[s]]
    BY <1>0, <2>2 DEF SettleCommits
  <2> QED
    BY <2>2, <2>3 DEF IInv, TypeOK
<1>5. sub' = [s \in Sub |-> IF s \in (IF p \in Order THEN LiveSubs ELSE {})
                              THEN "ACTIVE" ELSE sub[s]]
  BY <1>0 DEF SettleCommits
<1>6. sub' \in [Sub -> SubStatus]
  BY <1>5 DEF IInv, TypeOK, SubStatus
<1>7. TypeOK'
  BY <1>2, <1>3, <1>4, <1>6 DEF IInv, TypeOK, periodVars, countVars, SettleCommits, cardVars, boundVars, historyVars
<1>8. WorkKnown' /\ ProofKnown' /\ OrderIsThere'
  BY <1>0, <1>1, <1>2, <1>3 DEF IInv, WorkKnown, ProofKnown, OrderIsThere, At
<1>9. CommitAlone'
  BY <1>0, <1>1, <1>2, <1>3 DEF IInv, CommitAlone, WorkKnown, At
<1>10. PaidIsApproved' /\ ApprovedIsPaid'
  BY <1>0, <1>1, <1>2, <1>3 DEF IInv, PaidIsApproved, ApprovedIsPaid, Approved, Settles
<1>11. OrdersMatchRows'
  <2>1. Disturbed' <=> Disturbed
    BY <1>1, <1>2 DEF Disturbed, At
  <2>2. Waiting' \subseteq Waiting
    BY <1>3 DEF Waiting
  <2>3. CASE p \in Order
    <3>1. \A s \in Sub : sub'[s] # "PENDING_PAYMENT"
      BY <1>5, <2>3 DEF LiveSubs, Live
    <3>2. LiveSubs' = LiveSubs
      BY <1>5, <2>3 DEF LiveSubs, Live
    <3> QED
      BY <2>1, <2>2, <3>1, <3>2 DEF IInv, OrdersMatchRows
  <2>4. CASE p \notin Order
    <3>1. Waiting' = Waiting
      BY <1>3, <2>4 DEF Waiting
    <3>2. sub' = sub
      BY <1>5, <2>4 DEF IInv, TypeOK
    <3> QED
      BY <2>1, <3>1, <3>2 DEF IInv, OrdersMatchRows, LiveSubs
  <2> QED
    BY <2>3, <2>4
<1> QED
  BY <1>7, <1>8, <1>9, <1>10, <1>11 DEF IInv

LEMMA EditEnrollmentInv == ASSUME IInv, NEW w \in Worker, EditEnrollment(w) PROVE IInv'
<1>1. calls' \in 0..MaxCall
  BY CalledCounts DEF IInv, EditEnrollment
<1>2. TypeOK'
  BY <1>1 DEF IInv, TypeOK, EditEnrollment, subVars, cardVars, historyVars
<1> QED
  BY <1>2, StaysInv DEF EditEnrollment, historyVars

\* A step of a worker over the order of an invoice that nobody holds, which
\* does not become PAID by it.
LEMMA InvoiceStepInv ==
    ASSUME IInv, NEW w \in Worker, NEW i \in Invoice,
           work[w].at \in {"examine", "fail"}, TypeOK',
           UNCHANGED <<subVars, proof, stranded, torn>>,
           ~Held(i) \/ payment'[i] = payment[i],
           payment'[i] # "PAID" \/ payment'[i] = payment[i],
           payment'[i] # "NONE" \/ payment'[i] = payment[i],
           \A p \in Payment \ {i} : payment'[p] = payment[p],
           \A u \in Worker \ {w} : work'[u] = work[u],
           work'[w].at \in {"idle", "settle", "collect", "mark"},
           work'[w].at # "idle" => work'[w].pay = i,
           work'[w].at = "collect" => payment[i] = "NONE",
           work'[w].at \in {"settle", "collect"} => payment'[i] # "NONE"
    PROVE  IInv'
<1> USE PaymentFacts
<1>1. WorkKnown' /\ ProofKnown'
  BY DEF IInv, WorkKnown, ProofKnown, At
<1>o. OrderIsThere'
  <2>1. \A u \in Worker :
          work'[u].at \in {"settle", "commit", "collect"} => payment'[work'[u].pay] # "NONE"
    BY DEF IInv, WorkKnown, OrderIsThere
  <2>2. \A u, v \in Worker :
          u # v /\ work'[u].at = "collect" /\ work'[v].at = "collect"
            => work'[u].pay # work'[v].pay
    BY DEF IInv, OrderIsThere, At
  <2> QED
    BY <2>1, <2>2 DEF OrderIsThere, At
<1>2. CommitAlone'
  BY DEF IInv, CommitAlone, WorkKnown, Held, At
<1>3. \A u \in Worker, o \in Order : Settles(u, o)' <=> Settles(u, o)
  BY DEF Settles
<1>4. \A o \in Order : payment'[o] = payment[o]
  OBVIOUS
<1>5. PaidIsApproved' /\ ApprovedIsPaid'
  BY <1>3, <1>4 DEF IInv, PaidIsApproved, ApprovedIsPaid, Approved
<1>6. Waiting' = Waiting /\ LiveSubs' = LiveSubs /\ (Disturbed' <=> Disturbed)
  BY <1>4 DEF Waiting, LiveSubs, Disturbed, subVars, At
<1>7. OrdersMatchRows'
  BY <1>6 DEF IInv, OrdersMatchRows, subVars
<1> QED
  BY <1>1, <1>o, <1>2, <1>5, <1>7 DEF IInv

LEMMA ExamineInv == ASSUME IInv, NEW w \in Worker, Examine(w) PROVE IInv'
<1> USE PaymentFacts
<1>0. PICK i \in Invoice : work[w].pay = i
  BY DEF IInv, WorkKnown, Examine, At
<1>1. /\ work[w].at = "examine" /\ UNCHANGED <<subVars, proof, stranded, torn>>
      /\ payment' = IF payment[i] = "NONE" THEN [payment EXCEPT ![i] = "PENDING"] ELSE payment
  BY <1>0 DEF Examine, At, historyVars
<1>2. /\ payment' \in [Payment -> PaymentStatus]
      /\ payment'[i] # "PAID" \/ payment'[i] = payment[i]
      /\ payment'[i] # "NONE"
      /\ \A p \in Payment \ {i} : payment'[p] = payment[p]
  BY <1>1 DEF IInv, TypeOK, PaymentStatus
<1>3. ~Held(i) \/ payment'[i] = payment[i]
  BY <1>1 DEF IInv, OrderIsThere, Held, At
<1>4. /\ work' \in [Worker -> Work]
      /\ work'[w].at \in {"settle", "collect", "mark", "idle"}
      /\ work'[w].at # "idle" => work'[w].pay = i
      /\ work'[w].at = "collect" => payment[i] = "NONE"
      /\ \A u \in Worker \ {w} : work'[u] = work[u]
  <2>1. \/ Then(w, "settle")
        \/ Then(w, "collect") /\ payment[i] = "NONE"
        \/ Then(w, "mark")
        \/ Done(w)
    <3>1. CASE payment[i] = "NONE" /\ work[w].told = "paid"
      BY <1>0, <3>1 DEF Examine
    <3>2. CASE payment[i] = "NONE" /\ work[w].told # "paid"
      BY <1>0, <3>2 DEF Examine
    <3>3. CASE payment[i] # "NONE" /\ work[w].told = "paid" /\ Retries(i)
      BY <1>0, <3>3 DEF Examine
    <3>4. CASE payment[i] # "NONE" /\ work[w].told = "paid" /\ ~Retries(i)
      BY <1>0, <3>4 DEF Examine
    <3>5. CASE payment[i] # "NONE" /\ work[w].told # "paid"
      BY <1>0, <3>5 DEF Examine
    <3> QED
      BY <3>1, <3>2, <3>3, <3>4, <3>5
  <2> QED
    BY <1>0, <2>1, ThenFrame, DoneFrame DEF IInv, Idle, Step
<1>5. TypeOK'
  BY <1>2, <1>4 DEF IInv, TypeOK, periodVars, countVars, Examine, subVars, cardVars, boundVars, historyVars
<1> QED
  BY <1>1, <1>2, <1>3, <1>4, <1>5, InvoiceStepInv

LEMMA CollectThrowsInv == ASSUME IInv, NEW w \in Worker, CollectThrows(w) PROVE IInv'
<1> USE PaymentFacts
<1>0. PICK i \in Invoice : work[w].pay = i
  BY DEF IInv, WorkKnown, CollectThrows, At
<1>1. PICK late \in SUBSET Worker :
         /\ late = {u \in Worker : At(u, "settle") /\ work[u].pay = i}
         /\ stranded' = IF payment[i] = "PAID" \/ late # {} THEN stranded \cup {i} ELSE stranded
         /\ work' = [u \in Worker |-> IF u = w THEN Idle
                                      ELSE IF u \in late THEN [work[u] EXCEPT !.at = "mark"]
                                      ELSE work[u]]
  BY <1>0 DEF CollectThrows
<1>2. /\ work[w].at = "collect" /\ UNCHANGED <<subVars, proof, torn>> /\ ~Held(i)
      /\ payment' = [payment EXCEPT ![i] = "NONE"]
      /\ stranded \subseteq stranded' /\ stranded' \subseteq stranded \cup {i}
  BY <1>0, <1>1 DEF CollectThrows, At
<1>3. /\ payment' \in [Payment -> PaymentStatus] /\ payment'[i] = "NONE"
      /\ \A p \in Payment \ {i} : payment'[p] = payment[p]
  BY <1>2 DEF IInv, TypeOK, PaymentStatus
<1>4. \A u \in Worker :
        [work[u] EXCEPT !.at = "mark"] \in Work
        /\ [work[u] EXCEPT !.at = "mark"].at = "mark"
        /\ [work[u] EXCEPT !.at = "mark"].pay = work[u].pay
  BY DEF IInv, TypeOK, Work, Step
<1>5. /\ work' \in [Worker -> Work] /\ work'[w].at = "idle"
      /\ \A u \in late : work'[u].at = "mark" /\ work'[u].pay = i
      /\ \A u \in Worker \ {w} : u \notin late => work'[u] = work[u]
  <2> DEFINE marks(u) == [work[u] EXCEPT !.at = "mark"]
  <2>1. \A u \in Worker : marks(u) \in Work /\ marks(u).at = "mark" /\ marks(u).pay = work[u].pay
    BY <1>4
  <2>2. work' = [u \in Worker |-> IF u = w THEN Idle ELSE IF u \in late THEN marks(u) ELSE work[u]]
    BY <1>1
  <2>3. w \notin late /\ \A u \in late : u \in Worker /\ work[u].pay = i
    BY <1>1, <1>2 DEF At
  <2>4. Idle.at = "idle" /\ \A u \in Worker : work[u] \in Work
    BY DEF Idle, IInv, TypeOK
  <2> HIDE DEF marks, Work
  <2> QED
    BY <2>1, <2>2, <2>3, <2>4, IdleWork
<1>6. TypeOK'
  BY <1>2, <1>3, <1>5 DEF IInv, TypeOK, periodVars, countVars, CollectThrows, subVars, cardVars, boundVars
<1>7. \A u \in Worker : work[u].at = "settle" /\ work[u].pay = i => u \in late
  BY <1>1 DEF At
<1>8. WorkKnown' /\ ProofKnown'
  BY <1>2, <1>3, <1>5 DEF IInv, WorkKnown, ProofKnown, At
<1>9. OrderIsThere'
  <2> SUFFICES ASSUME NEW u \in Worker, work'[u].at \in {"settle", "commit", "collect"}
               PROVE  /\ payment'[work'[u].pay] # "NONE"
                      /\ At(u, "collect")' =>
                           \A v \in Worker \ {u} : ~(At(v, "collect") /\ work[v].pay = work[u].pay)'
    BY DEF OrderIsThere, At
  <2>1. u # w /\ u \notin late /\ work'[u] = work[u]
    BY <1>5
  <2>2. work[u].pay # i
    BY <1>0, <1>2, <1>7, <2>1 DEF IInv, OrderIsThere, Held, At
  <2>3. work[u].pay \in Payment /\ payment[work[u].pay] # "NONE"
    BY <2>1 DEF IInv, WorkKnown, OrderIsThere
  <2>4. payment'[work'[u].pay] # "NONE"
    BY <1>3, <2>1, <2>2, <2>3
  <2>5. \A v \in Worker : work'[v].at = "collect" => work'[v] = work[v]
    BY <1>5
  <2> QED
    BY <2>1, <2>4, <2>5 DEF IInv, OrderIsThere, At
<1>10. CommitAlone'
  BY <1>2, <1>3, <1>5 DEF IInv, CommitAlone, WorkKnown, At
<1>11. \A u \in Worker, o \in Order : Settles(u, o)' <=> Settles(u, o)
  BY <1>1, <1>2, <1>5 DEF Settles, At
<1>12. \A o \in Order : payment'[o] = payment[o]
  BY <1>3
<1>13. PaidIsApproved' /\ ApprovedIsPaid'
  BY <1>2, <1>11, <1>12 DEF IInv, PaidIsApproved, ApprovedIsPaid, Approved
<1>14. Waiting' = Waiting /\ LiveSubs' = LiveSubs /\ (Disturbed' <=> Disturbed)
  BY <1>1, <1>2, <1>5, <1>12 DEF Waiting, LiveSubs, Disturbed, subVars, At
<1>15. OrdersMatchRows'
  BY <1>2, <1>14 DEF IInv, OrdersMatchRows, subVars
<1> QED
  BY <1>6, <1>8, <1>9, <1>10, <1>13, <1>15 DEF IInv

LEMMA FailInv == ASSUME IInv, NEW w \in Worker, Fail(w) PROVE IInv'
<1> USE PaymentFacts
<1>0. PICK i \in Invoice : work[w].pay = i
  BY DEF IInv, WorkKnown, Fail, At
<1>1. /\ work[w].at = "fail" /\ UNCHANGED <<subVars, proof, stranded, torn>> /\ ~Held(i) /\ Done(w)
      /\ payment' = IF payment[i] = "PENDING" THEN [payment EXCEPT ![i] = "FAILED"] ELSE payment
  BY <1>0 DEF Fail, At, historyVars
<1>2. /\ payment' \in [Payment -> PaymentStatus]
      /\ payment'[i] # "PAID" \/ payment'[i] = payment[i]
      /\ \A p \in Payment \ {i} : payment'[p] = payment[p]
  BY <1>1 DEF IInv, TypeOK, PaymentStatus
<1>3. /\ work' \in [Worker -> Work] /\ work'[w].at = "idle"
      /\ \A u \in Worker \ {w} : work'[u] = work[u]
  BY <1>1, DoneFrame DEF IInv, Idle
<1>5. TypeOK'
  BY <1>1, <1>2, <1>3 DEF IInv, TypeOK, periodVars, countVars, Fail, subVars, cardVars, boundVars, historyVars
<1> QED
  BY <1>1, <1>2, <1>3, <1>5, InvoiceStepInv

LEMMA CrashInv == ASSUME IInv, NEW w \in Worker, Crash(w) PROVE IInv'
<1> USE PaymentFacts
<1>1. /\ Done(w) /\ UNCHANGED <<subVars, payment, proof>>
      /\ torn' = (torn \/ At(w, "void"))
      /\ stranded' = IF work[w].at \in {"settle", "commit"} /\ work[w].pay \in Order
                       THEN stranded \cup {work[w].pay} ELSE stranded
  BY DEF Crash
<1>2. /\ work' \in [Worker -> Work] /\ work'[w].at = "idle"
      /\ \A u \in Worker \ {w} : work'[u] = work[u]
  BY <1>1, DoneFrame DEF IInv, Idle
<1>3. crashes' \in 0..MaxCrash
  BY BoundFacts DEF Crash, IInv, TypeOK
<1>4. stranded \subseteq stranded' /\ stranded' \subseteq Payment
  BY <1>1 DEF IInv, TypeOK
<1>5. TypeOK'
  BY <1>1, <1>2, <1>3, <1>4 DEF IInv, TypeOK, periodVars, countVars, Crash, subVars, cardVars
<1>6. WorkKnown' /\ ProofKnown' /\ OrderIsThere' /\ CommitAlone'
  BY <1>1, <1>2 DEF IInv, WorkKnown, ProofKnown, OrderIsThere, CommitAlone, At
<1>7. PaidIsApproved' /\ ApprovedIsPaid'
  BY <1>1, <1>2 DEF IInv, PaidIsApproved, ApprovedIsPaid, Approved, Settles
<1>8. OrdersMatchRows'
  <2>1. Disturbed' <=> Disturbed
    BY <1>1, <1>2 DEF Disturbed, At
  <2>2. Waiting' = Waiting /\ LiveSubs' = LiveSubs
    BY <1>1 DEF Waiting, LiveSubs, subVars
  <2> QED
    BY <1>1, <2>1, <2>2 DEF IInv, OrdersMatchRows, subVars
<1> QED
  BY <1>5, <1>6, <1>7, <1>8 DEF IInv

LEMMA RestInv ==
    ASSUME IInv, Tick \/ \E i \in Invoice : Bills(i) \/ Recovers(i)
    PROVE  IInv'
<1>1. TypeOK'
  <2>1. CASE Tick
    BY <2>1, BoundFacts DEF IInv, TypeOK, periodVars, countVars, Tick, subVars, cardVars, boundVars, historyVars
  <2>2. ASSUME NEW i \in Invoice, Bills(i) \/ Recovers(i) PROVE TypeOK'
    BY <2>2 DEF IInv, TypeOK, periodVars, countVars, Bills, Recovers, subVars, boundVars, historyVars
  <2> QED
    BY <2>1, <2>2
<1>2. UNCHANGED <<subVars, payment, proof, work, torn, stranded>>
  BY DEF Tick, Bills, Recovers, historyVars
<1> QED
  BY <1>1, <1>2, StaysInv

LEMMA NextInv == ASSUME IInv, [Next]_vars PROVE IInv'
<1>1. ASSUME NEW w \in Worker, Works(w) \/ Crash(w) PROVE IInv'
  BY <1>1, CancelVoidsInv, IssueInv, RejectInv, SettleBeginsInv, SettleCommitsInv,
     ExamineInv, CollectInv, CollectThrowsInv, FailInv, MarkInv, CrashInv DEF Works
<1>2. ASSUME NEW w \in Request, RequestCalls(w) PROVE IInv'
  <2>1. w \in Worker
    BY DEF Worker
  <2> QED
    BY <1>2, <2>1, SubscribeInv, SwitchToCardInv, EditEnrollmentInv, CancelInv, UploadInv, ApproveInv,
       RejectReadInv, LinkPaidInv, FetchInv DEF RequestCalls
<1>3. ASSUME NEW w \in Job, JobCalls(w) PROVE IInv'
  <2>1. w \in Worker
    BY DEF Worker
  <2> QED
    BY <1>3, <2>1, IssueReadInv, FetchInv DEF JobCalls
<1>4. CASE UNCHANGED vars
  <2>1. TypeOK'
    BY <1>4 DEF IInv, TypeOK, periodVars, countVars, vars, subVars, cardVars, boundVars, historyVars
  <2> QED
    BY <1>4, <2>1, StaysInv DEF vars, subVars, historyVars
<1> QED
  BY <1>1, <1>2, <1>3, <1>4, RestInv DEF Next

-----------------------------------------------------------------------------
(* The theorems.                                                           *)

\* The variables keep their types.
THEOREM TypeCorrect == Spec => []TypeOK
<1>1. IInv => TypeOK
  BY DEF IInv
<1> QED
  BY <1>1, InitInv, NextInv, PTL DEF Spec

\* The order of a transfer is PAID exactly when a proof of it is APPROVED,
\* but for a settlement under way, one that died and a rejection that was
\* written over an approval.
THEOREM OrderFollowsItsProof == Spec => []ProofTellsOrder
<1>1. IInv => ProofTellsOrder
  <2> SUFFICES ASSUME IInv, NEW o \in Order, o \notin stranded,
                      \A w \in Worker : ~Settles(w, o)
               PROVE  (payment[o] = "PAID")
                        = (\E f \in Proof : proof[f] = [status |-> "APPROVED", order |-> o])
    BY DEF ProofTellsOrder, Settles
  <2>1. payment[o] = "PAID" <=> Approved(o)
    BY DEF IInv, PaidIsApproved, ApprovedIsPaid
  <2>2. \A f \in Proof : proof[f] = [status |-> "APPROVED", order |-> o]
                         <=> proof[f].status = "APPROVED" /\ proof[f].order = o
    BY DEF IInv, TypeOK
  <2>3. (payment[o] = "PAID")
          <=> \E f \in Proof : proof[f] = [status |-> "APPROVED", order |-> o]
    BY <2>1, <2>2 DEF Approved
  <2> QED
    BY <2>3
<1> QED
  BY <1>1, InitInv, NextInv, PTL DEF Spec

\* Away from a cancellation that is between its two writes, and from one that
\* was torn, at most one order waits and an attempt has its order.
THEOREM OneOrderWaitsForTransfer == Spec => []OneOrderWaits
<1>1. IInv => OneOrderWaits
  BY DEF IInv, OrdersMatchRows, Disturbed, OneOrderWaits
<1> QED
  BY <1>1, InitInv, NextInv, PTL DEF Spec

-----------------------------------------------------------------------------
(* What a payment gives.                                                   *)

\* A payment that gave its period is PAID ever after, unless it is stranded.
GivenOnce ==
    \A p \in Payment :
        p \in stranded \/ given[p] = 0 \/ (given[p] = 1 /\ payment[p] = "PAID")

\* An end is the noon of the last day of a month.
AtNoon(end) == end = 0 \/ end % 2 = 1

\* What a settlement has read is at most what was paid, and while nothing
\* went adrift it is what the enrollment still has, if that is in force.
ReadKnown(w) ==
    At(w, "commit") =>
        /\ AtNoon(work[w].read)
        /\ work[w].read > now => work[w].read \div 2 + 1 <= now \div 2 + Months * settled
        /\ \/ adrift
           \/ work[w].read = endsAt /\ endsAt > now
           \/ work[w].read = 0 /\ endsAt <= now

MonthsAddUp ==
    /\ AtNoon(endsAt)
    /\ standing = "NONE" => endsAt = 0
    /\ PaidMonthsAreGiven
    /\ \A w \in Worker : ReadKnown(w)
    /\ adrift \/ \A u, w \in Worker : At(u, "commit") /\ At(w, "commit") => u = w

PInv == IInv /\ GivenOnce /\ MonthsAddUp

LEMMA Products ==
    \A k \in Nat : Months * k \in Nat /\ Months * (k + 1) = Months * k + Months
BY BoundFacts

\* What a step leaves that is about other things than the enrollment.
Elsewhere ==
    /\ UNCHANGED <<periodVars, now>>
    /\ \A u \in Worker : work'[u].at = "commit" => work'[u] = work[u]
    /\ \A p \in Payment : payment[p] = "PAID" => payment'[p] = "PAID" \/ p \in stranded'
    /\ stranded \subseteq stranded'

LEMMA ElsewhereInv == ASSUME PInv, Elsewhere PROVE GivenOnce' /\ MonthsAddUp'
<1>1. GivenOnce'
  BY DEF PInv, Elsewhere, GivenOnce, periodVars, countVars
<1>2. UNCHANGED <<endsAt, standing, settled, missed, adrift, now>>
  BY DEF Elsewhere, periodVars, countVars
<1>3. PaidMonthsAreGiven'
  BY <1>2 DEF PInv, MonthsAddUp, PaidMonthsAreGiven, Covered
<1>4. \A w \in Worker : ReadKnown(w)'
  BY <1>2 DEF PInv, MonthsAddUp, ReadKnown, Elsewhere, At, AtNoon
<1>5. (adrift \/ \A u, w \in Worker : At(u, "commit") /\ At(w, "commit") => u = w)'
  BY <1>2 DEF PInv, MonthsAddUp, Elsewhere, At
<1> QED
  BY <1>1, <1>2, <1>3, <1>4, <1>5 DEF PInv, MonthsAddUp, AtNoon

\* A step that gives a worker something else to do than to commit.
LEMMA NoCommitBegun ==
    ASSUME IInv, NEW w \in Worker, NEW job, Do(w, job), job.at # "commit"
    PROVE  \A u \in Worker : work'[u].at = "commit" => work'[u] = work[u]
BY DEF IInv, TypeOK, Do

LEMMA WorksElsewhere ==
    ASSUME IInv, NEW w \in Worker, Works(w) \/ Crash(w),
           ~SettleBegins(w), ~SettleCommits(w)
    PROVE  Elsewhere
<1> USE PaymentFacts
<1>i. Idle.at # "commit"
  BY DEF Idle
<1>d. Done(w) => \A u \in Worker : work'[u].at = "commit" => work'[u] = work[u]
  BY <1>i, NoCommitBegun DEF Done
<1>t. ASSUME NEW step \in Step \ {"commit"}, Then(w, step)
      PROVE  \A u \in Worker : work'[u].at = "commit" => work'[u] = work[u]
  <2>1. work[w] \in Work
    BY DEF IInv, TypeOK
  <2>2. [work[w] EXCEPT !.at = step].at = step
    BY <2>1 DEF Work
  <2> QED
    BY <1>t, <2>2, NoCommitBegun DEF Then
<1>1. CASE CancelVoids(w)
  BY <1>1, <1>d DEF Elsewhere, CancelVoids, Voided, Waiting
<1>2. CASE Issue(w)
  <2>1. UNCHANGED payment
        \/ \E o \in Order : payment[o] = "NONE" /\ payment' = [payment EXCEPT ![o] = "PENDING"]
    BY <1>2 DEF Issue, NextOrder
  <2>3. \A p \in Payment : payment[p] = "PAID" => payment'[p] = "PAID"
    BY <2>1 DEF IInv, TypeOK
  <2> QED
    BY <1>2, <2>3, <1>d DEF Elsewhere, Issue, historyVars
<1>3. CASE Reject(w)
  BY <1>3, <1>d DEF Elsewhere, Reject
<1>4. CASE Examine(w)
  <2>1. \/ Then(w, "settle") \/ Then(w, "collect") \/ Then(w, "mark") \/ Done(w)
    BY <1>4 DEF Examine
  <2>2. \A u \in Worker : work'[u].at = "commit" => work'[u] = work[u]
    BY <2>1, <1>d, <1>t DEF Step
  <2>3. \A p \in Payment : payment[p] = "PAID" => payment'[p] = "PAID"
    BY <1>4 DEF Examine
  <2> QED
    BY <1>4, <2>2, <2>3 DEF Elsewhere, Examine, historyVars
<1>5. CASE Collect(w)
  <2>1. \A u \in Worker : work'[u].at = "commit" => work'[u] = work[u]
    BY <1>5, <1>d, <1>t DEF Collect, Step
  <2> QED
    BY <1>5, <2>1 DEF Elsewhere, Collect, historyVars
<1>6. CASE CollectThrows(w)
  <2>1. PICK i \in Invoice : work[w].pay = i
    BY <1>6 DEF IInv, WorkKnown, CollectThrows, At
  <2>2. /\ payment' = [payment EXCEPT ![i] = "NONE"]
        /\ stranded \subseteq stranded'
        /\ payment[i] = "PAID" => i \in stranded'
    BY <1>6, <2>1 DEF CollectThrows
  <2>3. \A p \in Payment : payment[p] = "PAID" => payment'[p] = "PAID" \/ p \in stranded'
    BY <2>2 DEF IInv, TypeOK
  <2>4. \A u \in Worker : [work[u] EXCEPT !.at = "mark"].at = "mark"
    BY DEF IInv, TypeOK, Work
  <2>5. \A u \in Worker : \/ work'[u] = Idle
                          \/ work'[u] = [work[u] EXCEPT !.at = "mark"]
                          \/ work'[u] = work[u]
    BY <1>6 DEF CollectThrows
  <2>6. \A u \in Worker : work'[u].at = "commit" => work'[u] = work[u]
    BY <1>i, <2>4, <2>5
  <2> QED
    BY <1>6, <2>2, <2>3, <2>6 DEF Elsewhere, CollectThrows
<1>7. CASE Fail(w)
  <2>1. \A p \in Payment : payment[p] = "PAID" => payment'[p] = "PAID"
    BY <1>7 DEF Fail
  <2> QED
    BY <1>7, <2>1, <1>d DEF Elsewhere, Fail, historyVars
<1>8. CASE Mark(w)
  BY <1>8, <1>d DEF Elsewhere, Mark, historyVars
<1>9. CASE Crash(w)
  BY <1>9, <1>d DEF Elsewhere, Crash
<1> QED
  BY <1>1, <1>2, <1>3, <1>4, <1>5, <1>6, <1>7, <1>8, <1>9 DEF Works

LEMMA CallsElsewhere ==
    ASSUME IInv, NEW w \in Worker,
           RequestCalls(w) \/ JobCalls(w), ~EditEnrollment(w)
    PROVE  Elsewhere
<1> USE PaymentFacts
<1>1. ASSUME NEW job, Do(w, job), job.at # "commit",
             UNCHANGED <<payment, periodVars, now, historyVars>>
      PROVE  Elsewhere
  BY <1>1, NoCommitBegun DEF Elsewhere, historyVars
<1>2. ASSUME UNCHANGED <<work, periodVars, now, historyVars>>,
             \A p \in Payment : payment[p] = "PAID" => payment'[p] = "PAID"
      PROVE  Elsewhere
  BY <1>2 DEF Elsewhere, historyVars
<1>3. CASE Subscribe(w)
  <2>1. \A p \in Payment : payment[p] = "PAID" => payment'[p] = "PAID"
    BY <1>3 DEF Subscribe, NextOrder
  <2> QED
    BY <1>2, <1>3, <2>1 DEF Subscribe
<1>4. CASE SwitchToCard(w)
  BY <1>2, <1>4 DEF SwitchToCard, Voided, Waiting
<1>5. CASE \E f \in Proof, o \in Order : Upload(w, f, o)
  BY <1>2, <1>5 DEF Upload
<1>6. CASE \E s \in Sub : Cancel(w, s)
  <2>1. [Idle EXCEPT !.at = "void"].at # "commit"
    BY DEF Idle
  <2> QED
    BY <1>1, <1>6, <2>1 DEF Cancel
<1>7. CASE \E s \in Sub : IssueRead(w, s)
  <2>1. \A s \in Sub : [Idle EXCEPT !.at = "issue", !.sub = s].at # "commit"
    BY DEF Idle
  <2> QED
    BY <1>1, <1>7, <2>1 DEF IssueRead
<1>8. CASE \E f \in Proof : Approve(w, f) \/ RejectRead(w, f)
  <2>1. \A f \in Proof : /\ [Idle EXCEPT !.at = "settle", !.pay = proof[f].order].at # "commit"
                         /\ [Idle EXCEPT !.at = "reject", !.proof = f].at # "commit"
    BY DEF Idle
  <2> QED
    BY <1>1, <1>8, <2>1 DEF Approve, RejectRead
<1>9. CASE \E i \in Invoice : LinkPaid(w, i) \/ Fetch(w, i)
  <2>1. \A i \in Invoice :
           /\ [Idle EXCEPT !.at = "settle", !.pay = i].at # "commit"
           /\ [Idle EXCEPT !.at = "examine", !.pay = i, !.told = invoice[i]].at # "commit"
    BY DEF Idle
  <2> QED
    BY <1>1, <1>9, <2>1 DEF LinkPaid, Fetch
<1> QED
  BY <1>3, <1>4, <1>5, <1>6, <1>7, <1>8, <1>9 DEF RequestCalls, JobCalls

LEMMA BeginsGiven == ASSUME PInv, NEW w \in Worker, SettleBegins(w) PROVE GivenOnce' /\ MonthsAddUp'
<1> DEFINE p == work[w].pay
           end == IF InForce THEN endsAt ELSE 0
           claim == [work[w] EXCEPT !.at = "commit", !.read = end]
<1>0. /\ UNCHANGED <<endsAt, standing, given, settled, missed, now, payment, stranded>>
      /\ work[w] \in Work /\ work[w].at = "settle" /\ endsAt \in Nat /\ now \in Nat
  BY DEF SettleBegins, historyVars, PInv, IInv, TypeOK, At
<1>1. GivenOnce'
  BY <1>0 DEF PInv, GivenOnce
<1>2. CASE ~Claimable(p)
  <2>1. UNCHANGED adrift /\ Do(w, IF p \in Invoice THEN [work[w] EXCEPT !.at = "mark"] ELSE Idle)
    BY <1>2 DEF SettleBegins
  <2>2. (IF p \in Invoice THEN [work[w] EXCEPT !.at = "mark"] ELSE Idle).at # "commit"
    BY <1>0 DEF Work, Idle
  <2>3. \A u \in Worker : work'[u].at = "commit" => work'[u] = work[u]
    BY <2>1, <2>2, NoCommitBegun DEF PInv
  <2>4. Elsewhere
    BY <1>0, <2>1, <2>3 DEF Elsewhere, periodVars, countVars
  <2> QED
    BY <2>4, ElsewhereInv
<1>3. CASE Claimable(p)
  <2>1. /\ Do(w, claim)
        /\ adrift' = (adrift \/ (\E u \in Worker : At(u, "commit"))
                             \/ (standing = "PAUSED" /\ endsAt > now))
    BY <1>3 DEF SettleBegins
  <2>2. claim.at = "commit" /\ claim.read = end
    BY <1>0 DEF Work
  <2> HIDE DEF claim
  <2>3. /\ work'[w] = claim /\ \A u \in Worker \ {w} : work'[u] = work[u]
    BY <2>1 DEF Do, PInv, IInv, TypeOK
  <2>4. PaidMonthsAreGiven'
    BY <1>0, <2>1 DEF PInv, MonthsAddUp, PaidMonthsAreGiven, Covered
  <2>5. adrift' \/ \A u \in Worker : ~At(u, "commit")
    BY <2>1
  <2>6. ReadKnown(w)'
    <3>1. AtNoon(end)
      BY DEF PInv, MonthsAddUp, AtNoon
    <3>2. end > now => end \div 2 + 1 <= now \div 2 + Months * settled
      BY <1>0 DEF PInv, MonthsAddUp, PaidMonthsAreGiven, Covered
    <3>3. \/ adrift' \/ (end = endsAt /\ endsAt > now) \/ (end = 0 /\ endsAt <= now)
      <4>1. CASE standing = "PAUSED" /\ endsAt > now
        BY <2>1, <4>1
      <4>2. CASE standing # "PAUSED" \/ ~(endsAt > now)
        <5>1. standing \in {"NONE", "ACTIVE", "PAUSED"} /\ (standing = "NONE" => endsAt = 0)
          BY DEF PInv, IInv, TypeOK, MonthsAddUp
        <5>2. endsAt > now \/ endsAt <= now
          BY <1>0
        <5>3. endsAt = 0 => ~(endsAt > now)
          BY <1>0
        <5>4. CASE InForce
          BY <5>4 DEF InForce
        <5>5. CASE ~InForce
          BY <4>2, <5>1, <5>2, <5>3, <5>5 DEF InForce
        <5> QED
          BY <5>4, <5>5
      <4> QED
        BY <4>1, <4>2
    <3> HIDE DEF end
    <3> QED
      BY <1>0, <2>2, <2>3, <3>1, <3>2, <3>3 DEF ReadKnown, AtNoon
  <2>7. ASSUME NEW u \in Worker \ {w} PROVE ReadKnown(u)'
    <3>1. ReadKnown(u) /\ work'[u] = work[u]
      BY <2>3 DEF PInv, MonthsAddUp
    <3>2. At(u, "commit") => adrift'
      BY <2>5
    <3> QED
      BY <1>0, <3>1, <3>2 DEF ReadKnown, At, AtNoon
  <2>8. (adrift \/ \A u, v \in Worker : At(u, "commit") /\ At(v, "commit") => u = v)'
    BY <2>3, <2>5 DEF At
  <2> QED
    BY <1>0, <1>1, <2>4, <2>6, <2>7, <2>8 DEF PInv, MonthsAddUp, AtNoon
<1> QED
  BY <1>2, <1>3

LEMMA CommitsGiven == ASSUME PInv, NEW w \in Worker, SettleCommits(w) PROVE GivenOnce' /\ MonthsAddUp'
<1> DEFINE p == work[w].pay
           read == work[w].read
<1>0. /\ work[w].at = "commit" /\ p \in Payment /\ payment[p] # "PAID"
      /\ payment' = [payment EXCEPT ![p] = "PAID"]
      /\ given' = [given EXCEPT ![p] = @ + 1]
      /\ settled' = settled + 1
      /\ missed' = IF LastAfternoon /\ read <= now THEN missed + 1 ELSE missed
      /\ endsAt' = Extended(read) /\ standing' = "ACTIVE"
      /\ UNCHANGED <<adrift, now, stranded>>
  BY DEF SettleCommits, PInv, IInv, WorkKnown, CommitAlone, At, historyVars
<1>1. /\ endsAt \in Nat /\ now \in Nat /\ read \in Nat /\ settled \in Nat /\ missed \in Nat
      /\ Months \in Nat \ {0} /\ adrift \in BOOLEAN
  BY BoundFacts DEF PInv, IInv, TypeOK, Work
<1>2. GivenOnce'
  BY <1>0 DEF PInv, IInv, TypeOK, GivenOnce
<1>3. \A u \in Worker : work'[u].at = "commit" => work'[u] = work[u] /\ u # w
  <2>1. CASE p \in Invoice
    BY <2>1, ThenFrame DEF PInv, IInv, Step, SettleCommits
  <2>2. CASE p \notin Invoice
    BY <2>2, DoneFrame DEF PInv, IInv, Idle, SettleCommits
  <2> QED
    BY <2>1, <2>2
<1>4. ReadKnown(w) /\ AtNoon(endsAt) /\ PaidMonthsAreGiven
  BY DEF PInv, MonthsAddUp
<1>5. /\ endsAt' \in Nat /\ endsAt' % 2 = 1
      /\ Covered' = Months + (IF read > now THEN (read + 1) \div 2 ELSE now \div 2)
  <2>1. endsAt' = CutOff(IF read > now THEN read + 1 ELSE now)
    BY <1>0 DEF Extended
  <2>2. endsAt' \in Nat /\ endsAt' % 2 = 1 
        /\ endsAt' \div 2 + 1 = Months + (IF read > now THEN (read + 1) \div 2 ELSE now \div 2)
    BY <1>1, <2>1, Halves
  <2>3. endsAt' # 0
    BY <2>2
  <2>4. Covered' = endsAt' \div 2 + 1
    BY <2>3 DEF Covered
  <2> QED
    BY <2>2, <2>4
<1>6. read > now => (read + 1) \div 2 = read \div 2 + 1
  <2>1. AtNoon(read)
    BY <1>0, <1>4 DEF ReadKnown, At
  <2>2. read > now => read % 2 = 1
    BY <1>1, <2>1 DEF AtNoon
  <2> QED
    BY <1>1, <2>2
<1> DEFINE paid == Months * settled
<1>7. paid \in Nat /\ Months * settled' = paid + Months
  BY <1>0, <1>1, Products
<1>8. read > now => read \div 2 + 1 <= now \div 2 + paid
  BY <1>0, <1>4 DEF ReadKnown, At
<1>9. Covered <= now \div 2 + paid /\ (adrift \/ Covered + missed >= paid)
  BY <1>4 DEF PaidMonthsAreGiven
<1>10. adrift \/ (read = endsAt /\ endsAt > now) \/ (read = 0 /\ endsAt <= now)
  BY <1>0, <1>4 DEF ReadKnown, At
<1> HIDE DEF paid
<1>11. Covered' <= now' \div 2 + Months * settled'
  BY <1>0, <1>1, <1>5, <1>6, <1>7, <1>8
<1>12. adrift' \/ Covered' + missed' >= Months * settled'
  <2>1. CASE adrift
    BY <1>0, <2>1
  <2>2. CASE ~adrift /\ read = endsAt /\ endsAt > now
    <3>1. Covered = read \div 2 + 1 /\ missed' >= missed
      BY <1>0, <1>1, <2>2 DEF Covered
    <3> QED
      BY <1>0, <1>1, <1>5, <1>6, <1>7, <1>9, <2>2, <3>1
  <2>3. CASE ~adrift /\ read = 0 /\ endsAt <= now
    <3>1. Covered \in Nat /\ Covered + missed >= paid
      BY <1>1, <1>9, <2>3 DEF Covered
    <3>2. Covered' = Months + now \div 2
      BY <1>1, <1>5, <2>3
    <3>3. Covered + missed <= now \div 2 + missed'
      <4>1. CASE now % 2 = 1
        <5>1. missed' = missed + 1
          BY <1>0, <1>1, <2>3, <4>1 DEF LastAfternoon
        <5>2. Covered <= now \div 2 + 1
          BY <1>1, <2>3 DEF Covered
        <5> QED
          BY <1>1, <3>1, <5>1, <5>2
      <4>2. CASE now % 2 # 1
        <5>1. missed' = missed
          BY <1>0, <1>1, <4>2 DEF LastAfternoon
        <5>2. Covered <= now \div 2
          BY <1>1, <1>4, <2>3, <4>2 DEF Covered, AtNoon
        <5> QED
          BY <1>1, <3>1, <5>1, <5>2
      <4> QED
        BY <4>1, <4>2
    <3>4. missed' \in Nat
      BY <1>0, <1>1
    <3> QED
      <4>1. Covered' + missed' = Months + (now \div 2 + missed') /\ now \div 2 \in Nat
        BY <1>1, <3>2, <3>4
      <4>2. PICK n \in Nat : n = now \div 2 + missed'
        BY <3>4, <4>1
      <4>3. paid <= n
        BY <1>1, <1>7, <3>1, <3>3, <4>2
      <4>4. Covered' + missed' = Months + n
        BY <4>1, <4>2
      <4>5. Covered' + missed' >= paid + Months
        BY <1>1, <1>7, <4>3, <4>4
      <4> QED
        BY <1>7, <4>5
  <2> QED
    BY <1>1, <1>10, <2>1, <2>2, <2>3
<1>13. PaidMonthsAreGiven'
  BY <1>11, <1>12 DEF PaidMonthsAreGiven
<1>14. ASSUME NEW u \in Worker PROVE ReadKnown(u)'
  <2>1. SUFFICES ASSUME At(u, "commit")' PROVE ReadKnown(u)'
    BY DEF ReadKnown
  <2>2. work'[u] = work[u] /\ u # w /\ At(u, "commit") /\ ReadKnown(u)
    BY <1>3, <2>1 DEF At, PInv, MonthsAddUp
  <2>3. adrift
    BY <1>0, <2>2 DEF PInv, MonthsAddUp, At
  <2>4. work[u].read \in Nat
    BY DEF PInv, IInv, TypeOK, Work
  <2>5. work[u].read > now => work[u].read \div 2 + 1 <= now \div 2 + paid
    BY <2>2 DEF ReadKnown, paid
  <2>6. work[u].read > now => work[u].read \div 2 + 1 <= now \div 2 + Months * settled'
    BY <1>1, <1>7, <2>4, <2>5
  <2> QED
    BY <1>0, <2>2, <2>3, <2>6 DEF ReadKnown, AtNoon, At
<1>15. (adrift \/ \A u, v \in Worker : At(u, "commit") /\ At(v, "commit") => u = v)'
  BY <1>0, <1>3 DEF PInv, MonthsAddUp, At
<1> QED
  BY <1>0, <1>2, <1>5, <1>13, <1>14, <1>15 DEF MonthsAddUp, AtNoon

LEMMA EditGiven == ASSUME PInv, NEW w \in Worker, EditEnrollment(w) PROVE GivenOnce' /\ MonthsAddUp'
<1>0. /\ UNCHANGED <<payment, given, settled, missed, now, work, stranded>>
      /\ standing # "NONE" /\ standing' # "NONE" /\ endsAt' \in {endsAt, 0}
      /\ adrift' = (adrift \/ endsAt' # endsAt)
  BY DEF EditEnrollment, historyVars
<1>1. endsAt \in Nat /\ now \in Nat /\ settled \in Nat /\ missed \in Nat
      /\ Months * settled \in Nat
  BY Products DEF PInv, IInv, TypeOK
<1> DEFINE paid == Months * settled
<1>2. Covered <= now \div 2 + paid /\ (adrift \/ Covered + missed >= paid)
  BY DEF PInv, MonthsAddUp, PaidMonthsAreGiven
<1>3. paid' = paid /\ paid \in Nat
  BY <1>0, <1>1
<1> HIDE DEF paid
<1>4. Covered' <= now' \div 2 + paid' /\ (adrift' \/ Covered' + missed' >= paid')
  <2>1. CASE endsAt' = endsAt
    <3>1. Covered' = Covered
      BY <2>1 DEF Covered
    <3> QED
      BY <1>0, <1>2, <1>3, <2>1, <3>1
  <2>2. CASE endsAt' # endsAt
    <3>1. Covered' = 0 /\ adrift'
      BY <1>0, <2>2 DEF Covered
    <3> QED
      BY <1>0, <1>1, <1>3, <3>1
  <2> QED
    BY <2>1, <2>2
<1>5. PaidMonthsAreGiven'
  BY <1>4 DEF PaidMonthsAreGiven, paid
<1>6. \A u \in Worker : ReadKnown(u)'
  BY <1>0 DEF PInv, MonthsAddUp, ReadKnown, At, AtNoon
<1> QED
  BY <1>0, <1>5, <1>6 DEF PInv, GivenOnce, MonthsAddUp, AtNoon, At

LEMMA TickGiven == ASSUME PInv, Tick PROVE GivenOnce' /\ MonthsAddUp'
<1>0. /\ UNCHANGED <<payment, endsAt, standing, given, settled, missed, adrift, work, stranded>>
      /\ now' = now + 1 /\ \A w \in Worker : ~At(w, "commit")
  BY DEF Tick, periodVars, countVars, historyVars
<1>1. endsAt \in Nat /\ now \in Nat /\ settled \in Nat /\ missed \in Nat
      /\ Months * settled \in Nat
  BY Products DEF PInv, IInv, TypeOK
<1> DEFINE paid == Months * settled
<1>2. Covered <= now \div 2 + paid /\ (adrift \/ Covered + missed >= paid)
  BY DEF PInv, MonthsAddUp, PaidMonthsAreGiven
<1>3. paid' = paid /\ paid \in Nat /\ Covered \in Nat
  BY <1>0, <1>1 DEF Covered
<1> HIDE DEF paid
<1>4. Covered' <= now' \div 2 + paid' /\ (adrift' \/ Covered' + missed' >= paid')
  <2>1. Covered' = Covered
    BY <1>0 DEF Covered
  <2>2. now \div 2 <= (now + 1) \div 2
    BY <1>1
  <2> QED
    BY <1>0, <1>1, <1>2, <1>3, <2>1, <2>2
<1>5. PaidMonthsAreGiven'
  BY <1>4 DEF PaidMonthsAreGiven, paid
<1>6. \A w \in Worker : ~At(w, "commit")'
  BY <1>0 DEF At
<1> QED
  BY <1>0, <1>5, <1>6 DEF PInv, GivenOnce, MonthsAddUp, ReadKnown, AtNoon

LEMMA InitGiven == ASSUME Init PROVE PInv
<1>1. IInv
  BY InitInv
<1>2. GivenOnce
  BY DEF Init, GivenOnce
<1>3. \A w \in Worker : work[w].at = "idle"
  BY DEF Init, Idle
<1>4. PaidMonthsAreGiven
  BY BoundFacts DEF Init, PaidMonthsAreGiven, Covered
<1> QED
  BY <1>1, <1>2, <1>3, <1>4 DEF PInv, MonthsAddUp, ReadKnown, AtNoon, Init, At

LEMMA NextGiven == ASSUME PInv, [Next]_vars PROVE PInv'
<1>0. IInv'
  BY NextInv DEF PInv
<1>1. ASSUME NEW w \in Worker, Works(w) \/ Crash(w) PROVE GivenOnce' /\ MonthsAddUp'
  BY <1>1, BeginsGiven, CommitsGiven, WorksElsewhere, ElsewhereInv DEF PInv
<1>2. ASSUME NEW w \in Worker, RequestCalls(w) \/ JobCalls(w) PROVE GivenOnce' /\ MonthsAddUp'
  BY <1>2, EditGiven, CallsElsewhere, ElsewhereInv DEF PInv
<1>3. ASSUME NEW i \in Invoice, Bills(i) \/ Recovers(i) PROVE GivenOnce' /\ MonthsAddUp'
  <2>1. Elsewhere
    BY <1>3 DEF Elsewhere, Bills, Recovers, historyVars
  <2> QED
    BY <2>1, ElsewhereInv
<1>4. ASSUME UNCHANGED vars PROVE GivenOnce' /\ MonthsAddUp'
  <2>1. Elsewhere
    BY <1>4 DEF Elsewhere, vars, historyVars
  <2> QED
    BY <2>1, ElsewhereInv
<1>5. GivenOnce' /\ MonthsAddUp'
  BY <1>1, <1>2, <1>3, <1>4, TickGiven DEF Next, Worker
<1> QED
  BY <1>0, <1>5 DEF PInv

\* A payment gives one period however often it is settled, unless its PAID
\* order was deleted by a collect that threw.
THEOREM EachPaymentOnce == Spec => []OnePeriodPerPayment
<1>1. PInv => OnePeriodPerPayment
  BY DEF PInv, GivenOnce, OnePeriodPerPayment
<1> QED
  BY <1>1, InitGiven, NextGiven, PTL DEF Spec

\* The enrollment never runs longer than the months that were paid, and runs
\* for all of them but those that the exceptions count.
THEOREM MonthsPaidAreGiven == Spec => []PaidMonthsAreGiven
<1>1. PInv => PaidMonthsAreGiven
  BY DEF PInv, MonthsAddUp
<1> QED
  BY <1>1, InitGiven, NextGiven, PTL DEF Spec
=============================================================================
