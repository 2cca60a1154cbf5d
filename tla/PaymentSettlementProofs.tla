---------------------- MODULE PaymentSettlementProofs ----------------------
(***************************************************************************)
(* Proofs about PaymentSettlement, for any number of orders, calls and     *)
(* codes. The argument is that an open settlement transaction holds the    *)
(* lock of its row from its claim to its commit, so that what its claim    *)
(* found out about the row is still true when it commits.                  *)
(***************************************************************************)
EXTENDS PaymentSettlement, TLAPS

\* Steps at which a call has an open transaction that claimed its order.
OpenTx == PaidTx \cup {"failClaimed"}

\* The claim holds the row lock, and the row is as the claim found it.
ClaimInv ==
    \A k \in Call : pc[k] \in OpenTx =>
        /\ orderLock[job[k].order] = k
        /\ pc[k] \in PaidTx => status[job[k].order] # "PAID"
        /\ pc[k] = "failClaimed" => status[job[k].order] = "PENDING"

\* A transaction about to commit holds its code, which still had a use left.
CodeInv ==
    \A k \in Call : pc[k] = "ready" =>
        LET c == CodeOf[job[k].order] IN
        c # NoCode =>
            /\ codeLock[c] = k
            /\ c \in SingleUse => uses[c] < MaxUses[c]

IInv == TypeOK /\ ClaimInv /\ CodeInv /\ TicketsIffPaid /\ SingleUseRespected

-----------------------------------------------------------------------------
\* The initial state satisfies the invariant.
LEMMA InitInv == Init => IInv
<1> SUFFICES ASSUME Init PROVE IInv
  OBVIOUS
<1> USE ConstantsAssumption DEF Init
<1>1. TypeOK
  <2>1. NoJob \in Job
    BY DEF NoJob, Job, Verdict, Status, Answer
  <2>2. QED
    BY <2>1 DEF TypeOK, Status, Step, PaidTx
<1>2. ClaimInv /\ CodeInv
  BY DEF ClaimInv, CodeInv, OpenTx, PaidTx
<1>3. TicketsIffPaid /\ SingleUseRespected
  BY DEF TicketsIffPaid, SingleUseRespected
<1>4. QED
  BY <1>1, <1>2, <1>3 DEF IInv

-----------------------------------------------------------------------------
\* Whatever a step does beyond the tables, a call does it.
LEMMA Steps ==
    ASSUME [Next]_vars
    PROVE  \/ \E k \in Call : Arrive(k) \/ Progress(k) \/ Crash(k)
           \/ UNCHANGED settleVars
<1>1. \A k \in Call : CallStep(k) => Arrive(k) \/ Progress(k) \/ Crash(k)
  BY DEF CallStep
<1>2. \A t \in Table : TableStep(t) => UNCHANGED settleVars
  BY DEF TableStep
<1>3. UNCHANGED vars => UNCHANGED settleVars
  BY DEF vars, settleVars, dbVars
<1>4. QED
  BY <1>1, <1>2, <1>3 DEF Next

\* The helpers of the actions, and what each leaves alone.

\* Goto moves one call.
LEMMA GotoFrame ==
    ASSUME pc \in [Call -> Step], NEW k \in Call, NEW s \in Step, Goto(k, s)
    PROVE  /\ pc' \in [Call -> Step]
           /\ pc'[k] = s
           /\ \A j \in Call \ {k} : pc'[j] = pc[j]
  BY DEF Goto

\* Finish ends a call and keeps what it was about.
LEMMA FinishFrame ==
    ASSUME pc \in [Call -> Step], job \in [Call -> Job],
           NEW k \in Call, NEW a \in Answer, Finish(k, a)
    PROVE  /\ pc' \in [Call -> Step]
           /\ job' \in [Call -> Job]
           /\ pc'[k] = "done"
           /\ job'[k].answer = a
           /\ \A j \in Call \ {k} : pc'[j] = pc[j] /\ job'[j] = job[j]
           /\ \A j \in Call : job'[j].order = job[j].order
<1>1. Goto(k, "done") /\ "done" \in Step
  BY DEF Finish, Step
<1>2. job' = [job EXCEPT ![k].answer = a]
  BY DEF Finish
<1>3. job[k] \in Job
  OBVIOUS
<1>4. [job[k] EXCEPT !.answer = a] \in Job
  BY <1>3 DEF Job
<1>5. job'[k].answer = a /\ job'[k].order = job[k].order
  BY <1>2, <1>3 DEF Job
<1>6. job' \in [Call -> Job] /\ \A j \in Call \ {k} : job'[j] = job[j]
  BY <1>2, <1>4
<1>7. QED
  BY <1>1, <1>5, <1>6, GotoFrame

\* ReleaseLocks frees the locks of one call and of no other.
LEMMA ReleaseFrame ==
    ASSUME orderLock \in [Order -> Call \cup {NoCall}],
           codeLock \in [Code -> Call \cup {NoCall}],
           NEW k \in Call, ReleaseLocks(k)
    PROVE  /\ orderLock' \in [Order -> Call \cup {NoCall}]
           /\ codeLock' \in [Code -> Call \cup {NoCall}]
           /\ \A o \in Order, j \in Call \ {k} :
                 orderLock[o] = j => orderLock'[o] = j
           /\ \A c \in Code, j \in Call \ {k} :
                 codeLock[c] = j => codeLock'[c] = j
  BY DEF ReleaseLocks

\* Open starts an idle call.
LEMMA OpenFrame ==
    ASSUME TypeOK, NEW k \in Call, NEW o \in Order, NEW v \in Verdict,
           NEW mm \in BOOLEAN, NEW s \in Step, Open(k, o, v, mm, s)
    PROVE  /\ pc' \in [Call -> Step]
           /\ job' \in [Call -> Job]
           /\ pc'[k] = s
           /\ job'[k].answer = "none"
           /\ \A j \in Call \ {k} : pc'[j] = pc[j] /\ job'[j] = job[j]
           /\ UNCHANGED <<dbVars, lockVars, noticeVars>>
<1> DEFINE new == [NoJob EXCEPT !.order = o, !.verdict = v,
                                !.seen = status[o], !.mismatch = mm]
<1>1. /\ Goto(k, s)
      /\ job' = [job EXCEPT ![k] = new]
      /\ UNCHANGED <<dbVars, lockVars, noticeVars>>
  BY DEF Open
<1>2. pc \in [Call -> Step] /\ job \in [Call -> Job] /\ status[o] \in Status
  BY DEF TypeOK
<1>3. new \in Job /\ new.answer = "none"
  BY <1>2, ConstantsAssumption DEF NoJob, Job, Answer
<1> HIDE DEF new
<1>4. QED
  BY <1>1, <1>2, <1>3, GotoFrame

\* What the type invariant says of the order a call is about.
LEMMA JobFacts ==
    ASSUME TypeOK, NEW k \in Call
    PROVE  /\ job[k].order \in Order
           /\ CodeOf[job[k].order] \in Code \cup {NoCode}
           /\ TableOf[job[k].order] \in Table \cup {NoTable}
           /\ Quantity[job[k].order] \in Nat
  BY ConstantsAssumption DEF TypeOK, Job

\* Every step keeps the types.
LEMMA TypeStep == TypeOK /\ [Next]_vars => TypeOK'
<1> SUFFICES ASSUME TypeOK, [Next]_vars PROVE TypeOK'
  OBVIOUS
<1> USE DEF dbVars, lockVars, noticeVars, tableVars, Step, PaidTx
<1>1. ASSUME NEW k \in Call, Arrive(k), UNCHANGED tableVars
      PROVE  TypeOK'
  <2>1. PICK o \in Order, v \in Verdict, mm \in BOOLEAN, s \in Step :
           Open(k, o, v, mm, s)
    BY <1>1 DEF Arrive, Confirm, GetPayment, ApproveOrder, Verdict
  <2>2. QED
    BY <1>1, <2>1, OpenFrame DEF TypeOK
<1>2. ASSUME NEW k \in Call, RecordWebhookReceived(k), UNCHANGED tableVars
      PROVE  TypeOK'
  <2>1. log' \in [Order -> Seq(EventType)]
    BY <1>2, JobFacts DEF TypeOK, RecordWebhookReceived, EventType
  <2>2. QED
    BY <1>2, <2>1, GotoFrame DEF TypeOK, RecordWebhookReceived
<1>3. ASSUME NEW k \in Call, SettleDuplicated(k), UNCHANGED tableVars
      PROVE  TypeOK'
  BY <1>3, FinishFrame DEF TypeOK, SettleDuplicated, Answer
<1>4. ASSUME NEW k \in Call, ClaimFailed(k), UNCHANGED tableVars
      PROVE  TypeOK'
  <2>1. CASE status[job[k].order] = "PENDING"
    BY <1>4, <2>1, GotoFrame DEF TypeOK, ClaimFailed
  <2>2. CASE status[job[k].order] # "PENDING"
    BY <1>4, <2>2, FinishFrame DEF TypeOK, ClaimFailed, Answer
  <2>3. QED
    BY <2>1, <2>2
<1>5. ASSUME NEW k \in Call, CommitFailed(k), UNCHANGED tableVars
      PROVE  TypeOK'
  <2>1. status' \in [Order -> Status]
    BY <1>5 DEF TypeOK, CommitFailed, Status
  <2>2. <<"STATUS_CONFIRMED", "FAILED">> \in Seq(EventType)
    BY DEF EventType
  <2>3. log' \in [Order -> Seq(EventType)]
    BY <1>5, <2>2, JobFacts DEF TypeOK, CommitFailed
  <2>4. QED
    BY <1>5, <2>1, <2>3, GotoFrame, ReleaseFrame DEF TypeOK, CommitFailed
<1>6. ASSUME NEW k \in Call, NotifyFailed(k), UNCHANGED tableVars
      PROVE  TypeOK'
  <2>1. failNotices' \in [Order -> Nat]
    BY <1>6, JobFacts DEF TypeOK, NotifyFailed
  <2>2. QED
    BY <1>6, <2>1, FinishFrame DEF TypeOK, NotifyFailed, Answer
<1>7. ASSUME NEW k \in Call, ClaimPaid(k), UNCHANGED tableVars
      PROVE  TypeOK'
  <2>1. CASE status[job[k].order] # "PAID"
    <3>1. orderLock' \in [Order -> Call \cup {NoCall}]
      BY <1>7, <2>1, JobFacts DEF TypeOK, ClaimPaid
    <3>2. Goto(k, "claimed") /\ UNCHANGED <<dbVars, codeLock, noticeVars, job>>
      BY <1>7, <2>1 DEF ClaimPaid
    <3>3. QED
      BY <1>7, <3>1, <3>2, GotoFrame DEF TypeOK
  <2>2. CASE status[job[k].order] = "PAID"
    BY <1>7, <2>2, FinishFrame DEF TypeOK, ClaimPaid, Answer
  <2>3. QED
    BY <2>1, <2>2
<1>8. ASSUME NEW k \in Call, EmitSettleEvents(k), UNCHANGED tableVars
      PROVE  TypeOK'
  BY <1>8, GotoFrame DEF TypeOK, EmitSettleEvents
<1>9. ASSUME NEW k \in Call, IssueTickets(k), UNCHANGED tableVars
      PROVE  TypeOK'
  <2> DEFINE t == TableOf[job[k].order]
             b == t # NoTable /\ reservations[t] = 0
  <2>1. job' = [job EXCEPT ![k].books = b]
    BY <1>9 DEF IssueTickets
  <2>2. b \in BOOLEAN
    OBVIOUS
  <2> HIDE DEF b
  <2>3. [job[k] EXCEPT !.books = b] \in Job
    BY <2>2 DEF TypeOK, Job
  <2>4. job' \in [Call -> Job]
    BY <2>1, <2>3 DEF TypeOK
  <2>5. QED
    BY <1>9, <2>4, GotoFrame DEF TypeOK, IssueTickets
<1>10. ASSUME NEW k \in Call, SkipCode(k), UNCHANGED tableVars
      PROVE  TypeOK'
  BY <1>10, GotoFrame DEF TypeOK, SkipCode
<1>11. ASSUME NEW k \in Call, ConsumeCode(k), UNCHANGED tableVars
      PROVE  TypeOK'
  BY <1>11, GotoFrame DEF TypeOK, ConsumeCode
<1>12. ASSUME NEW k \in Call, RejectCode(k), UNCHANGED tableVars
      PROVE  TypeOK'
  BY <1>12, FinishFrame, ReleaseFrame DEF TypeOK, RejectCode, Answer
<1>13. ASSUME NEW k \in Call, CommitPaid(k), UNCHANGED tableVars
      PROVE  TypeOK'
  <2>1. status' \in [Order -> Status]
    BY <1>13 DEF TypeOK, CommitPaid, Status
  <2>2. SettleEvents(k) \in Seq(EventType)
    <3>1. /\ <<"STATUS_CONFIRMED", "AMOUNT_MISMATCH", "SETTLED">>
                \in Seq(EventType)
          /\ <<"STATUS_CONFIRMED", "SETTLED">> \in Seq(EventType)
      BY DEF EventType
    <3>2. QED
      BY <3>1, Zenon DEF SettleEvents
  <2>3. log' \in [Order -> Seq(EventType)]
    <3>1. /\ log \in [Order -> Seq(EventType)]
          /\ log' = [log EXCEPT ![job[k].order] = @ \o SettleEvents(k)]
      BY <1>13 DEF TypeOK, CommitPaid
    <3>2. QED
      BY <3>1, <2>2, JobFacts
  <2>4. tickets' \in [Order -> Nat] /\ redemptions' \in [Order -> Nat]
    <3> DEFINE o == job[k].order
    <3>1. /\ tickets' = [tickets EXCEPT ![o] = @ + Quantity[o]]
          /\ redemptions' = [redemptions EXCEPT ![o] =
                                IF CodeOf[o] = NoCode THEN @ ELSE @ + 1]
      BY <1>13 DEF CommitPaid
    <3>2. o \in Order /\ Quantity[o] \in Nat
      BY JobFacts
    <3> HIDE DEF o
    <3>3. tickets[o] \in Nat /\ redemptions[o] \in Nat
      BY <3>2 DEF TypeOK
    <3>4. QED
      BY <3>1, <3>2, <3>3 DEF TypeOK
  <2>5. uses' \in [Code -> Nat] /\ reservations' \in [Table -> Nat]
    BY <1>13 DEF TypeOK, CommitPaid
  <2>6. QED
    BY <1>13, <2>1, <2>3, <2>4, <2>5, GotoFrame, ReleaseFrame
    DEF TypeOK, CommitPaid
<1>14. ASSUME NEW k \in Call, NotifyPaid(k), UNCHANGED tableVars
      PROVE  TypeOK'
  <2>1. receipts' \in [Order -> Nat]
    BY <1>14, JobFacts DEF TypeOK, NotifyPaid
  <2>2. QED
    BY <1>14, <2>1, FinishFrame DEF TypeOK, NotifyPaid, Answer
<1>15. ASSUME NEW k \in Call, Crash(k), UNCHANGED tableVars
      PROVE  TypeOK'
  BY <1>15, FinishFrame, ReleaseFrame DEF TypeOK, Crash, Answer
<1>16. CASE UNCHANGED vars
  BY <1>16 DEF TypeOK, vars
<1>17. ASSUME NEW u \in Table, TableStep(u) PROVE TypeOK'
  <2>1. /\ reservations' \in [Table -> Nat]
        /\ withdrawn' \in [Table -> Nat]
        /\ asking' \subseteq Table
        /\ unseated' \subseteq Order
    <3> USE DEF TypeOK
    <3>1. CASE AskTable(u)
      BY <3>1 DEF AskTable
    <3>2. CASE GrantTable(u)
      BY <3>2 DEF GrantTable
    <3>3. CASE CancelTable(u)
      <4>1. reservations[u] \in Nat /\ reservations[u] > 0
        BY <3>3 DEF CancelTable
      <4>2. reservations[u] - 1 \in Nat
        BY <4>1
      <4>3. QED
        BY <3>3, <4>2 DEF CancelTable
    <3>4. CASE ConfirmTable(u)
      <4>1. withdrawn[u] \in Nat /\ withdrawn[u] > 0
        BY <3>4 DEF ConfirmTable
      <4>2. withdrawn[u] - 1 \in Nat
        BY <4>1
      <4>3. QED
        BY <3>4, <4>2 DEF ConfirmTable
    <3>5. QED
      BY <1>17, <3>1, <3>2, <3>3, <3>4 DEF TableStep
  <2>2. QED
    BY <1>17, <2>1 DEF TypeOK, TableStep, settleVars
<1>18. ASSUME NEW k \in Call, CallStep(k) PROVE TypeOK'
  BY <1>18, <1>1, <1>2, <1>3, <1>4, <1>5, <1>6, <1>7, <1>8, <1>9, <1>10,
     <1>11, <1>12, <1>13, <1>14, <1>15 DEF CallStep, Progress
<1>19. QED
  BY <1>16, <1>17, <1>18 DEF Next

-----------------------------------------------------------------------------
\* What a step of call k cannot do: move another call, change what a call
\* is about, or take a lock that another call holds.
LEMMA OthersFrame ==
    ASSUME TypeOK, NEW k \in Call, Arrive(k) \/ Progress(k) \/ Crash(k)
    PROVE  \A j \in Call \ {k} :
              /\ pc'[j] = pc[j]
              /\ job'[j] = job[j]
              /\ \A o \in Order : orderLock[o] = j => orderLock'[o] = j
              /\ \A c \in Code : codeLock[c] = j => codeLock'[c] = j
<1> USE DEF lockVars, Step, PaidTx
<1>1. CASE Arrive(k)
  <2>1. PICK o \in Order, v \in Verdict, mm \in BOOLEAN, s \in Step :
           Open(k, o, v, mm, s)
    BY <1>1 DEF Arrive, Confirm, GetPayment, ApproveOrder, Verdict
  <2>2. QED
    BY <2>1, OpenFrame
<1>2. CASE \/ RecordWebhookReceived(k) \/ EmitSettleEvents(k) \/ SkipCode(k)
  BY <1>2, GotoFrame
  DEF TypeOK, RecordWebhookReceived, EmitSettleEvents, SkipCode
<1>3. CASE SettleDuplicated(k) \/ NotifyFailed(k) \/ NotifyPaid(k)
  BY <1>3, FinishFrame
  DEF TypeOK, SettleDuplicated, NotifyFailed, NotifyPaid, Answer
<1>4. CASE CommitFailed(k) \/ CommitPaid(k)
  BY <1>4, GotoFrame, ReleaseFrame DEF TypeOK, CommitFailed, CommitPaid
<1>5. CASE RejectCode(k) \/ Crash(k)
  BY <1>5, FinishFrame, ReleaseFrame DEF TypeOK, RejectCode, Crash, Answer
<1>6. CASE ClaimFailed(k) \/ ClaimPaid(k)
  <2> DEFINE o == job[k].order
  <2>1. /\ orderLock[o] = NoCall
        /\ UNCHANGED codeLock
        /\ \/ /\ orderLock' = [orderLock EXCEPT ![o] = k]
              /\ \E s \in Step : Goto(k, s)
              /\ UNCHANGED job
           \/ /\ UNCHANGED orderLock
              /\ \E a \in Answer : Finish(k, a)
    BY <1>6 DEF ClaimFailed, ClaimPaid, Answer
  <2>2. \A x \in Order, j \in Call : orderLock[x] = j => orderLock'[x] = j
    BY <2>1, JobFacts, ConstantsAssumption DEF TypeOK
  <2>3. QED
    BY <2>1, <2>2, GotoFrame, FinishFrame DEF TypeOK
<1>7. CASE IssueTickets(k)
  BY <1>7, GotoFrame DEF TypeOK, IssueTickets
<1>8. CASE ConsumeCode(k)
  BY <1>8, GotoFrame, ConstantsAssumption DEF TypeOK, ConsumeCode
<1>9. QED
  BY <1>1, <1>2, <1>3, <1>4, <1>5, <1>6, <1>7, <1>8 DEF Progress

\* A call's order is fixed once it has started.
LEMMA SameOrder ==
    ASSUME TypeOK, NEW k \in Call, Progress(k) \/ Crash(k)
    PROVE  job'[k].order = job[k].order
<1>1. CASE Crash(k)
  BY <1>1, FinishFrame DEF TypeOK, Crash, Answer
<1>2. CASE IssueTickets(k)
  BY <1>2 DEF TypeOK, IssueTickets, Job
<1>3. CASE Progress(k) /\ ~IssueTickets(k)
  <2>1. UNCHANGED job \/ \E a \in Answer : Finish(k, a)
    BY <1>3 DEF Progress, RecordWebhookReceived, SettleDuplicated,
         ClaimFailed, CommitFailed, NotifyFailed, ClaimPaid,
         EmitSettleEvents, SkipCode, ConsumeCode, RejectCode, CommitPaid,
         NotifyPaid, Answer, dbVars, lockVars, noticeVars
  <2>2. QED
    BY <2>1, FinishFrame DEF TypeOK
<1>4. QED
  BY <1>1, <1>2, <1>3

\* A step changes the status of no row that another call has locked, and
\* none at all unless it is a commit.
LEMMA StatusFrame ==
    ASSUME TypeOK, NEW k \in Call, Arrive(k) \/ Progress(k) \/ Crash(k)
    PROVE  \/ UNCHANGED <<status, tickets>>
           \/ CommitFailed(k)
           \/ CommitPaid(k)
<1>1. CASE Arrive(k)
  BY <1>1 DEF Arrive, Confirm, GetPayment, ApproveOrder, Open, dbVars
<1>2. CASE Progress(k)
  BY <1>2 DEF Progress, RecordWebhookReceived, SettleDuplicated,
       ClaimFailed, NotifyFailed, ClaimPaid, EmitSettleEvents, IssueTickets,
       SkipCode, ConsumeCode, RejectCode, NotifyPaid, dbVars
<1>3. CASE Crash(k)
  BY <1>3 DEF Crash, dbVars
<1>4. QED
  BY <1>1, <1>2, <1>3

\* What the claims establish, and that the steps after them keep it.
LEMMA ClaimStep == TypeOK /\ ClaimInv /\ [Next]_vars => ClaimInv'
<1> SUFFICES ASSUME TypeOK, ClaimInv, [Next]_vars,
                    NEW j \in Call, pc'[j] \in OpenTx
             PROVE  /\ orderLock'[job'[j].order] = j
                    /\ pc'[j] \in PaidTx => status'[job'[j].order] # "PAID"
                    /\ pc'[j] = "failClaimed" =>
                          status'[job'[j].order] = "PENDING"
  BY DEF ClaimInv
<1>1. CASE UNCHANGED settleVars
  BY <1>1 DEF settleVars, lockVars, ClaimInv
<1>2. ASSUME NEW k \in Call, Arrive(k) \/ Progress(k) \/ Crash(k), j # k
      PROVE  /\ orderLock'[job'[j].order] = j
             /\ pc'[j] \in PaidTx => status'[job'[j].order] # "PAID"
             /\ pc'[j] = "failClaimed" => status'[job'[j].order] = "PENDING"
  <2>1. /\ pc'[j] = pc[j]
        /\ job'[j] = job[j]
        /\ job[j].order \in Order
        /\ orderLock[job[j].order] = j
        /\ orderLock'[job[j].order] = j
    BY <1>2, OthersFrame, JobFacts DEF ClaimInv
  <2>2. status'[job[j].order] = status[job[j].order]
    <3>1. CASE CommitFailed(k) \/ CommitPaid(k)
      <4>1. orderLock[job[k].order] = k
        BY <3>1 DEF ClaimInv, OpenTx, PaidTx, CommitFailed, CommitPaid
      <4>2. job[j].order # job[k].order
        BY <4>1, <2>1, <1>2
      <4>3. QED
        BY <3>1, <4>2, <2>1 DEF TypeOK, CommitFailed, CommitPaid
    <3>2. QED
      BY <1>2, <3>1, StatusFrame
  <2>3. QED
    BY <2>1, <2>2 DEF ClaimInv
<1>3. ASSUME Arrive(j) PROVE FALSE
  <2>1. PICK o \in Order, v \in Verdict, mm \in BOOLEAN,
             s \in {"received", "settle"} : Open(j, o, v, mm, s)
    BY <1>3 DEF Arrive, Confirm, GetPayment, ApproveOrder, Verdict
  <2>2. pc'[j] = s
    BY <2>1, OpenFrame DEF Step
  <2>3. QED
    BY <2>2 DEF OpenTx, PaidTx
<1>4. ASSUME Crash(j) PROVE FALSE
  BY <1>4, FinishFrame DEF TypeOK, Crash, Answer, OpenTx, PaidTx
<1>5. ASSUME Progress(j)
      PROVE  /\ orderLock'[job'[j].order] = j
             /\ pc'[j] \in PaidTx => status'[job'[j].order] # "PAID"
             /\ pc'[j] = "failClaimed" => status'[job'[j].order] = "PENDING"
  <2> DEFINE o == job[j].order
  <2>1. job'[j].order = o /\ o \in Order
    BY <1>5, SameOrder, JobFacts
  <2>2. CASE ClaimFailed(j)
    <3>1. status[o] = "PENDING"
      BY <2>2, FinishFrame DEF TypeOK, ClaimFailed, Answer, OpenTx, PaidTx
    <3>2. QED
      BY <2>1, <2>2, <3>1 DEF TypeOK, ClaimFailed, Goto, dbVars, PaidTx
  <2>3. CASE ClaimPaid(j)
    <3>1. status[o] # "PAID"
      BY <2>3, FinishFrame DEF TypeOK, ClaimPaid, Answer, OpenTx, PaidTx
    <3>2. QED
      BY <2>1, <2>3, <3>1 DEF TypeOK, ClaimPaid, Goto, dbVars, PaidTx
  <2>4. CASE \/ EmitSettleEvents(j) \/ IssueTickets(j)
             \/ SkipCode(j) \/ ConsumeCode(j)
    <3>1. /\ pc[j] \in PaidTx /\ pc'[j] \in PaidTx
          /\ UNCHANGED <<status, orderLock>>
      BY <2>4, GotoFrame
      DEF TypeOK, EmitSettleEvents, IssueTickets, SkipCode, ConsumeCode,
          dbVars, lockVars, PaidTx, Step
    <3>2. QED
      BY <2>1, <3>1 DEF ClaimInv, OpenTx, PaidTx
  <2>5. CASE \/ RecordWebhookReceived(j) \/ CommitFailed(j) \/ CommitPaid(j)
    BY <2>5, GotoFrame
    DEF TypeOK, RecordWebhookReceived, CommitFailed, CommitPaid, OpenTx,
        PaidTx, Step
  <2>6. CASE \/ SettleDuplicated(j) \/ NotifyFailed(j) \/ RejectCode(j)
             \/ NotifyPaid(j)
    BY <2>6, FinishFrame
    DEF TypeOK, SettleDuplicated, NotifyFailed, RejectCode, NotifyPaid,
        OpenTx, PaidTx, Answer
  <2>7. QED
    BY <1>5, <2>2, <2>3, <2>4, <2>5, <2>6 DEF Progress
<1>6. QED
  BY <1>1, <1>2, <1>3, <1>4, <1>5, Steps

-----------------------------------------------------------------------------
\* Tickets are issued with the payment and with nothing else.
LEMMA TicketsStep ==
    TypeOK /\ ClaimInv /\ TicketsIffPaid /\ [Next]_vars => TicketsIffPaid'
<1> SUFFICES ASSUME TypeOK, ClaimInv, TicketsIffPaid, [Next]_vars
             PROVE  TicketsIffPaid'
  OBVIOUS
<1>1. CASE UNCHANGED settleVars
  BY <1>1 DEF settleVars, TicketsIffPaid
<1>2. ASSUME NEW k \in Call, Arrive(k) \/ Progress(k) \/ Crash(k)
      PROVE  TicketsIffPaid'
  <2> DEFINE o == job[k].order
  <2>1. o \in Order /\ Quantity[o] \in Nat
    BY JobFacts
  <2>2. CASE UNCHANGED <<status, tickets>>
    BY <2>2 DEF TicketsIffPaid
  <2>3. CASE CommitFailed(k)
    <3>1. status[o] = "PENDING"
      BY <2>3 DEF ClaimInv, OpenTx, CommitFailed
    <3>2. QED
      BY <2>1, <2>3, <3>1 DEF TypeOK, TicketsIffPaid, CommitFailed
  <2>4. CASE CommitPaid(k)
    <3>1. status[o] # "PAID"
      BY <2>4 DEF ClaimInv, OpenTx, PaidTx, CommitPaid
    <3>2. tickets[o] = 0
      BY <2>1, <3>1 DEF TicketsIffPaid
    <3>3. tickets' = [tickets EXCEPT ![o] = @ + Quantity[o]]
          /\ status' = [status EXCEPT ![o] = "PAID"]
      BY <2>4 DEF CommitPaid
    <3> HIDE DEF o
    <3>4. QED
      BY <2>1, <3>2, <3>3 DEF TypeOK, TicketsIffPaid
  <2>5. QED
    BY <1>2, <2>2, <2>3, <2>4, StatusFrame
<1>3. QED
  BY <1>1, <1>2, Steps

\* Only a commit raises usedCount.
LEMMA UsesFrame ==
    ASSUME TypeOK, NEW k \in Call, Arrive(k) \/ Progress(k) \/ Crash(k)
    PROVE  UNCHANGED uses \/ CommitPaid(k)
<1>1. CASE Arrive(k)
  BY <1>1 DEF Arrive, Confirm, GetPayment, ApproveOrder, Open, dbVars
<1>2. CASE Progress(k)
  BY <1>2 DEF Progress, RecordWebhookReceived, SettleDuplicated,
       ClaimFailed, CommitFailed, NotifyFailed, ClaimPaid, EmitSettleEvents,
       IssueTickets, SkipCode, ConsumeCode, RejectCode, NotifyPaid, dbVars
<1>3. CASE Crash(k)
  BY <1>3 DEF Crash, dbVars
<1>4. QED
  BY <1>1, <1>2, <1>3

\* The transaction that is about to commit still holds its code, and the use
\* it reserved is still there.
LEMMA CodeStep ==
    TypeOK /\ CodeInv /\ [Next]_vars => CodeInv'
<1> SUFFICES ASSUME TypeOK, CodeInv, [Next]_vars,
                    NEW j \in Call, pc'[j] = "ready",
                    CodeOf[job'[j].order] # NoCode
             PROVE  /\ codeLock'[CodeOf[job'[j].order]] = j
                    /\ CodeOf[job'[j].order] \in SingleUse =>
                          uses'[CodeOf[job'[j].order]]
                             < MaxUses[CodeOf[job'[j].order]]
  BY DEF CodeInv
<1>1. CASE UNCHANGED settleVars
  BY <1>1 DEF settleVars, lockVars, CodeInv
<1>2. ASSUME NEW k \in Call, Arrive(k) \/ Progress(k) \/ Crash(k), j # k
      PROVE  /\ codeLock'[CodeOf[job'[j].order]] = j
             /\ CodeOf[job'[j].order] \in SingleUse =>
                   uses'[CodeOf[job'[j].order]]
                      < MaxUses[CodeOf[job'[j].order]]
  <2> DEFINE c == CodeOf[job[j].order]
  <2>1. /\ pc[j] = "ready"
        /\ job'[j] = job[j]
        /\ c \in Code
    BY <1>2, OthersFrame, JobFacts
  <2>2. /\ codeLock[c] = j
        /\ c \in SingleUse => uses[c] < MaxUses[c]
    BY <2>1 DEF CodeInv
  <2>3. codeLock'[c] = j
    BY <1>2, <2>1, <2>2, OthersFrame
  <2>4. uses'[c] = uses[c]
    <3>1. CASE CommitPaid(k)
      <4>1. c # CodeOf[job[k].order]
        BY <3>1, <2>1, <2>2, <1>2, ConstantsAssumption DEF CodeInv, CommitPaid
      <4>2. uses' = [d \in Code |-> IF d = CodeOf[job[k].order]
                                      THEN uses[d] + 1 ELSE uses[d]]
        BY <3>1 DEF CommitPaid
      <4>3. QED
        BY <4>1, <4>2, <2>1
    <3>2. QED
      BY <1>2, <3>1, UsesFrame
  <2>5. QED
    BY <2>1, <2>2, <2>3, <2>4
<1>3. ASSUME Arrive(j) PROVE FALSE
  <2>1. PICK o \in Order, v \in Verdict, mm \in BOOLEAN,
             s \in {"received", "settle"} : Open(j, o, v, mm, s)
    BY <1>3 DEF Arrive, Confirm, GetPayment, ApproveOrder, Verdict
  <2>2. QED
    BY <2>1, OpenFrame DEF Step
<1>4. ASSUME Crash(j) PROVE FALSE
  BY <1>4, FinishFrame DEF TypeOK, Crash, Answer
<1>5. ASSUME Progress(j)
      PROVE  /\ codeLock'[CodeOf[job'[j].order]] = j
             /\ CodeOf[job'[j].order] \in SingleUse =>
                   uses'[CodeOf[job'[j].order]]
                      < MaxUses[CodeOf[job'[j].order]]
  <2>1. /\ job'[j].order = job[j].order
        /\ CodeOf[job[j].order] \in Code
    BY <1>5, SameOrder, JobFacts
  <2>2. CASE ConsumeCode(j)
    BY <2>1, <2>2 DEF TypeOK, ConsumeCode, dbVars
  <2>3. CASE SkipCode(j)
    BY <2>1, <2>3 DEF SkipCode
  <2>4. CASE Progress(j) /\ ~ConsumeCode(j) /\ ~SkipCode(j)
    <3>1. \/ \E s \in Step \ {"ready"} : Goto(j, s)
          \/ \E a \in Answer : Finish(j, a)
      BY <2>4 DEF Progress, RecordWebhookReceived, SettleDuplicated,
           ClaimFailed, CommitFailed, NotifyFailed, ClaimPaid,
           EmitSettleEvents, IssueTickets, RejectCode, CommitPaid,
           NotifyPaid, Answer, Step, PaidTx
    <3>2. pc'[j] # "ready"
      BY <3>1, GotoFrame, FinishFrame DEF TypeOK
    <3>3. QED
      BY <3>2
  <2>5. QED
    BY <1>5, <2>2, <2>3, <2>4
<1>6. QED
  BY <1>1, <1>2, <1>3, <1>4, <1>5, Steps

\* A single-use code is used up only by a transaction that holds a use.
LEMMA SingleUseStep ==
    TypeOK /\ CodeInv /\ SingleUseRespected /\ [Next]_vars
        => SingleUseRespected'
<1> SUFFICES ASSUME TypeOK, CodeInv, SingleUseRespected, [Next]_vars,
                    NEW c \in SingleUse
             PROVE  uses'[c] <= MaxUses[c]
  BY DEF SingleUseRespected
<1>0. c \in Code /\ c # NoCode /\ uses[c] \in Nat /\ MaxUses[c] \in Nat
  BY ConstantsAssumption DEF TypeOK
<1>1. CASE UNCHANGED uses
  BY <1>1 DEF SingleUseRespected
<1>2. ASSUME NEW k \in Call, CommitPaid(k) PROVE uses'[c] <= MaxUses[c]
  <2>1. uses' = [d \in Code |-> IF d = CodeOf[job[k].order]
                                  THEN uses[d] + 1 ELSE uses[d]]
    BY <1>2 DEF CommitPaid
  <2>2. CASE c = CodeOf[job[k].order]
    <3>1. uses[c] < MaxUses[c]
      BY <1>0, <1>2, <2>2 DEF CodeInv, CommitPaid
    <3>2. QED
      BY <1>0, <2>1, <3>1
  <2>3. CASE c # CodeOf[job[k].order]
    BY <1>0, <2>1, <2>3 DEF SingleUseRespected
  <2>4. QED
    BY <2>2, <2>3
<1>3. QED
  BY <1>1, <1>2, UsesFrame, Steps DEF settleVars

-----------------------------------------------------------------------------
\* The whole invariant is inductive.
LEMMA StepInv == IInv /\ [Next]_vars => IInv'
  BY TypeStep, ClaimStep, CodeStep, TicketsStep, SingleUseStep DEF IInv

\* The types of the state, for every number of orders, calls and codes.
THEOREM TypeCorrect == Spec => []TypeOK
<1>1. Init => TypeOK
  BY InitInv DEF IInv
<1>2. QED
  BY <1>1, TypeStep, PTL DEF Spec

\* The inductive invariant holds in every behaviour of the specification.
THEOREM Invariance == Spec => []IInv
  BY InitInv, StepInv, PTL DEF Spec

\* However many notifications, polls and approvals settle an order at the
\* same time, and wherever they die, its tickets exist exactly when it is
\* PAID and exactly as many as were bought.
THEOREM TicketsExactlyOnce == Spec => []TicketsIffPaid
<1>1. IInv => TicketsIffPaid
  BY DEF IInv
<1>2. QED
  BY Invariance, <1>1, PTL

\* An academy's single-use code is never redeemed more often than allowed.
THEOREM SingleUseSafe == Spec => []SingleUseRespected
<1>1. IInv => SingleUseRespected
  BY DEF IInv
<1>2. QED
  BY Invariance, <1>1, PTL

\* A step from a good state never takes a payment or its tickets back.
LEMMA PaidStep == IInv /\ [Next]_vars => [KeepsPaid]_vars
<1> SUFFICES ASSUME IInv, [Next]_vars, NEW o \in Order, status[o] = "PAID"
             PROVE  status'[o] = "PAID" /\ tickets'[o] = tickets[o]
  BY DEF KeepsPaid
<1>1. CASE UNCHANGED <<status, tickets>>
  BY <1>1
<1>2. ASSUME NEW k \in Call, CommitFailed(k) \/ CommitPaid(k)
      PROVE  status'[o] = "PAID" /\ tickets'[o] = tickets[o]
  <2>1. job[k].order # o
    BY <1>2 DEF IInv, ClaimInv, OpenTx, PaidTx, CommitFailed, CommitPaid
  <2>2. QED
    BY <1>2, <2>1 DEF IInv, TypeOK, CommitFailed, CommitPaid
<1>3. QED
  BY <1>1, <1>2, StatusFrame, Steps DEF IInv, settleVars

\* A paid order stays paid, with its tickets, whatever arrives later.
THEOREM PaidIsFinalTheorem == Spec => PaidIsFinal
  BY Invariance, PaidStep, PTL DEF Spec, PaidIsFinal

-----------------------------------------------------------------------------
\* Whatever makes a call say that its order is paid: it read it so, it is the
\* one that committed the payment, or it has answered so.
AnswerInv ==
    \A k \in Call :
        \/ job[k].seen = "PAID"
        \/ pc[k] = "notifyPaid"
        \/ job[k].answer \in {"PAID", "duplicated"}
        => status[job[k].order] = "PAID"

\* A call that goes on keeps what it read; it gets to the notices by its
\* commit only, and answers PAID only if it knows from one of three sources.
LEMMA AnswerFrame ==
    ASSUME TypeOK, NEW k \in Call, Progress(k) \/ Crash(k)
    PROVE  /\ job'[k].seen = job[k].seen
           /\ pc'[k] = "notifyPaid" => CommitPaid(k)
           /\ job'[k].answer \in {"PAID", "duplicated"} =>
                \/ job'[k].answer = job[k].answer
                \/ job[k].seen = "PAID"
                \/ pc[k] = "notifyPaid"
                \/ status[job[k].order] = "PAID"
<1> USE DEF TypeOK
<1>1. CASE Crash(k)
  BY <1>1 DEF Crash, Finish, Goto, Job
<1>2. CASE \/ SettleDuplicated(k) \/ NotifyFailed(k) \/ NotifyPaid(k)
           \/ RejectCode(k)
  BY <1>2 DEF SettleDuplicated, NotifyFailed, NotifyPaid, RejectCode, Finish,
       Goto, Job
<1>3. CASE ClaimFailed(k) \/ ClaimPaid(k)
  <2>1. CASE UNCHANGED job /\ \E s \in {"failClaimed", "claimed"} : Goto(k, s)
    BY <2>1 DEF Goto
  <2>2. CASE Finish(k, "FAILED")
    BY <2>2 DEF Finish, Goto, Job
  <2>3. CASE Finish(k, "PAID") /\ status[job[k].order] = "PAID"
    BY <2>3 DEF Finish, Goto, Job
  <2>4. QED
    BY <1>3, <2>1, <2>2, <2>3 DEF ClaimFailed, ClaimPaid
<1>4. CASE IssueTickets(k)
  BY <1>4 DEF IssueTickets, Goto, Job
<1>5. CASE \/ RecordWebhookReceived(k) \/ CommitFailed(k)
           \/ EmitSettleEvents(k) \/ SkipCode(k) \/ ConsumeCode(k)
  BY <1>5 DEF RecordWebhookReceived, CommitFailed, EmitSettleEvents,
       SkipCode, ConsumeCode, Goto
<1>6. CASE CommitPaid(k)
  BY <1>6 DEF CommitPaid
<1>7. QED
  BY <1>1, <1>2, <1>3, <1>4, <1>5, <1>6 DEF Progress

\* What calls say of their orders stays true.
LEMMA AnswerStep == IInv /\ AnswerInv /\ [Next]_vars => AnswerInv'
<1> SUFFICES ASSUME IInv, AnswerInv, [Next]_vars, NEW j \in Call,
                    \/ job'[j].seen = "PAID"
                    \/ pc'[j] = "notifyPaid"
                    \/ job'[j].answer \in {"PAID", "duplicated"}
             PROVE  status'[job'[j].order] = "PAID"
  BY DEF AnswerInv
<1>0. TypeOK /\ job[j].order \in Order
  BY JobFacts DEF IInv
<1>1. \A o \in Order : status[o] = "PAID" => status'[o] = "PAID"
  BY PaidStep DEF KeepsPaid, vars, dbVars
<1>2. CASE pc'[j] = pc[j] /\ job'[j] = job[j]
  BY <1>0, <1>1, <1>2 DEF AnswerInv
<1>3. CASE Arrive(j)
  <2>1. PICK o \in Order, v \in Verdict, mm \in BOOLEAN,
             s \in {"received", "settle"} : Open(j, o, v, mm, s)
    BY <1>3 DEF Arrive, Confirm, GetPayment, ApproveOrder, Verdict
  <2>2. /\ job'[j].seen = status[o] /\ job'[j].order = o
        /\ job'[j].answer = "none" /\ pc'[j] = s
    BY <1>0, <2>1 DEF Open, Goto, NoJob, TypeOK
  <2>3. QED
    BY <1>1, <2>2
<1>4. CASE Progress(j) \/ Crash(j)
  <2>1. job'[j].order = job[j].order
    BY <1>0, <1>4, SameOrder
  <2>2. CASE CommitPaid(j)
    BY <1>0, <2>1, <2>2 DEF CommitPaid, TypeOK
  <2>3. CASE ~CommitPaid(j)
    <3>1. status[job[j].order] = "PAID"
      BY <1>0, <1>4, <2>3, AnswerFrame DEF AnswerInv
    <3>2. QED
      BY <1>0, <1>1, <2>1, <3>1
  <2>4. QED
    BY <2>2, <2>3
<1>5. QED
  BY <1>0, <1>2, <1>3, <1>4, OthersFrame, Steps DEF settleVars

\* A call that answered PAID or "duplicated", the loser of a race for the claim
\* included, speaks of a payment that is committed together with its tickets.
THEOREM AnswersAreTrue == Spec => []AnsweredPaidIsPaid
<1>1. Init => AnswerInv
  BY DEF Init, NoJob, AnswerInv
<1>2. IInv /\ AnswerInv => AnsweredPaidIsPaid
  <2> SUFFICES ASSUME IInv, AnswerInv PROVE AnsweredPaidIsPaid
    OBVIOUS
  <2>1. \A k \in Call : job[k].order \in Order
    BY JobFacts DEF IInv
  <2>2. QED
    BY <2>1 DEF IInv, AnswerInv, AnsweredPaidIsPaid, TicketsIffPaid
<1>3. QED
  BY Invariance, <1>1, <1>2, AnswerStep, PTL DEF Spec

-----------------------------------------------------------------------------
\* Who is about to send a notice of an order is the only one, and nobody has
\* sent it before.
NoticeInv ==
    /\ \A k \in Call : pc[k] = "notifyPaid" =>
          status[job[k].order] = "PAID" /\ receipts[job[k].order] = 0
    /\ \A k \in Call : pc[k] = "notifyFailed" =>
          status[job[k].order] # "PENDING" /\ failNotices[job[k].order] = 0
    /\ \A j, k \in Call :
          /\ pc[j] \in {"notifyPaid", "notifyFailed"}
          /\ pc[k] = pc[j]
          /\ job[k].order = job[j].order
          => k = j
    /\ \A o \in Order :
          /\ receipts[o] \in {0, 1}
          /\ failNotices[o] \in {0, 1}
          /\ receipts[o] = 1 => status[o] = "PAID"
          /\ failNotices[o] = 1 => status[o] # "PENDING"

\* Only commits lead to notices, and only notices are counted.
LEMMA NoticeFrame ==
    ASSUME TypeOK, NEW k \in Call, Arrive(k) \/ Progress(k) \/ Crash(k)
    PROVE  \/ CommitPaid(k) \/ CommitFailed(k)
           \/ NotifyPaid(k) \/ NotifyFailed(k)
           \/ UNCHANGED noticeVars /\ pc'[k] \notin {"notifyPaid", "notifyFailed"}
<1> USE DEF TypeOK
<1>1. CASE Arrive(k)
  BY <1>1 DEF Arrive, Confirm, GetPayment, ApproveOrder, Open, Goto
<1>2. CASE \/ SettleDuplicated(k) \/ RejectCode(k) \/ Crash(k)
  BY <1>2 DEF SettleDuplicated, RejectCode, Crash, Finish, Goto, noticeVars
<1>3. CASE ClaimFailed(k) \/ ClaimPaid(k)
  BY <1>3 DEF ClaimFailed, ClaimPaid, Finish, Goto, noticeVars
<1>4. CASE \/ RecordWebhookReceived(k) \/ EmitSettleEvents(k)
           \/ IssueTickets(k) \/ SkipCode(k) \/ ConsumeCode(k)
  BY <1>4 DEF RecordWebhookReceived, EmitSettleEvents, IssueTickets, SkipCode,
       ConsumeCode, Goto, noticeVars
<1>5. QED
  BY <1>1, <1>2, <1>3, <1>4 DEF Progress

\* A row leaves PENDING, and a payment is taken, for good.
LEMMA StatusStep ==
    ASSUME IInv, [Next]_vars, NEW o \in Order
    PROVE  /\ status[o] = "PAID" => status'[o] = "PAID"
           /\ status[o] # "PENDING" => status'[o] # "PENDING"
<1>1. status[o] = "PAID" => status'[o] = "PAID"
  BY PaidStep DEF KeepsPaid, vars, dbVars
<1>2. \/ UNCHANGED status
      \/ \E k \in Call : CommitFailed(k) \/ CommitPaid(k)
  BY StatusFrame, Steps DEF IInv, settleVars
<1>3. QED
  BY <1>1, <1>2 DEF CommitFailed, CommitPaid, IInv, TypeOK

\* Every step keeps the notices unique.
LEMMA NoticeStep == IInv /\ NoticeInv /\ [Next]_vars => NoticeInv'
<1> SUFFICES ASSUME IInv, NoticeInv, [Next]_vars PROVE NoticeInv'
  OBVIOUS
<1>0. TypeOK /\ \A j \in Call : job[j].order \in Order
  BY JobFacts DEF IInv
<1>1. CASE UNCHANGED settleVars
  BY <1>1 DEF NoticeInv, settleVars, noticeVars
<1>2. ASSUME NEW k \in Call, Arrive(k) \/ Progress(k) \/ Crash(k)
      PROVE  NoticeInv'
  <2> DEFINE o == job[k].order
  <2>1. \A j \in Call \ {k} : pc'[j] = pc[j] /\ job'[j] = job[j]
    BY <1>0, <1>2, OthersFrame
  <2>2. \A x \in Order : /\ status[x] = "PAID" => status'[x] = "PAID"
                         /\ status[x] # "PENDING" => status'[x] # "PENDING"
    BY StatusStep
  <2>3. CASE UNCHANGED noticeVars /\ pc'[k] \notin {"notifyPaid", "notifyFailed"}
    BY <1>0, <2>1, <2>2, <2>3 DEF NoticeInv, noticeVars
  <2>4. CASE CommitPaid(k)
    <3>1. /\ status[o] # "PAID"
          /\ status'[o] = "PAID" /\ UNCHANGED <<job, noticeVars>>
          /\ pc'[k] = "notifyPaid"
      BY <1>0, <2>4 DEF CommitPaid, IInv, ClaimInv, OpenTx, PaidTx, TypeOK, Goto
    <3>2. QED
      BY <1>0, <2>1, <2>2, <3>1 DEF NoticeInv, noticeVars
  <2>5. CASE CommitFailed(k)
    <3>1. /\ status[o] = "PENDING"
          /\ status'[o] = "FAILED" /\ UNCHANGED <<job, noticeVars>>
          /\ pc'[k] = "notifyFailed"
      BY <1>0, <2>5 DEF CommitFailed, IInv, ClaimInv, OpenTx, PaidTx, TypeOK, Goto
    <3>2. QED
      BY <1>0, <2>1, <2>2, <3>1 DEF NoticeInv, noticeVars
  <2>6. CASE NotifyPaid(k)
    <3>1. /\ pc[k] = "notifyPaid" /\ pc'[k] = "done"
          /\ receipts' = [receipts EXCEPT ![o] = @ + 1]
          /\ UNCHANGED <<status, failNotices>>
      BY <1>0, <2>6 DEF NotifyPaid, Finish, Goto, TypeOK, dbVars
    <3>2. receipts[o] = 0 /\ status[o] = "PAID"
      BY <3>1 DEF NoticeInv
    <3>3. receipts'[o] = 1 /\ \A x \in Order \ {o} : receipts'[x] = receipts[x]
      BY <1>0, <3>1, <3>2 DEF TypeOK
    <3>4. \A j \in Call \ {k} : pc[j] = "notifyPaid" => job[j].order # o
      BY <3>1 DEF NoticeInv
    <3>5. QED
      BY <1>0, <2>1, <3>1, <3>2, <3>3, <3>4 DEF NoticeInv
  <2>7. CASE NotifyFailed(k)
    <3>1. /\ pc[k] = "notifyFailed" /\ pc'[k] = "done"
          /\ failNotices' = [failNotices EXCEPT ![o] = @ + 1]
          /\ UNCHANGED <<status, receipts>>
      BY <1>0, <2>7 DEF NotifyFailed, Finish, Goto, TypeOK, dbVars
    <3>2. failNotices[o] = 0 /\ status[o] # "PENDING"
      BY <3>1 DEF NoticeInv
    <3>3. failNotices'[o] = 1 /\ \A x \in Order \ {o} : failNotices'[x] = failNotices[x]
      BY <1>0, <3>1, <3>2 DEF TypeOK
    <3>4. \A j \in Call \ {k} : pc[j] = "notifyFailed" => job[j].order # o
      BY <3>1 DEF NoticeInv
    <3>5. QED
      BY <1>0, <2>1, <3>1, <3>2, <3>3, <3>4 DEF NoticeInv
  <2>8. QED
    BY <1>0, <1>2, <2>3, <2>4, <2>5, <2>6, <2>7, NoticeFrame
<1>3. QED
  BY <1>1, <1>2, Steps

\* Receipts and notices of failure are sent once at most for each order, and a
\* receipt only for a payment that happened.
THEOREM NoticesOnce == Spec => []NoticesAtMostOnce
<1>1. Init => NoticeInv
  BY DEF Init, NoticeInv
<1>2. NoticeInv => NoticesAtMostOnce
  BY DEF NoticeInv, NoticesAtMostOnce
<1>3. QED
  BY Invariance, <1>1, <1>2, NoticeStep, PTL DEF Spec

-----------------------------------------------------------------------------
\* A settlement that decided not to book a table saw an active reservation, and
\* either it is still there or one was cancelled since.
TableInv ==
    \A k \in Call : pc[k] \in {"issued", "ready"} =>
        LET o == job[k].order
            t == TableOf[o]
        IN  (t # NoTable /\ ~job[k].books) =>
                reservations[t] >= 1 \/ o \in unseated

\* Calls only add reservations, by commits; and a settlement keeps its decision.
LEMMA TableFrame ==
    ASSUME TypeOK, NEW k \in Call, Arrive(k) \/ Progress(k) \/ Crash(k)
    PROVE  /\ \A t \in Table : reservations'[t] >= reservations[t]
           /\ pc'[k] \in {"issued", "ready"} =>
                \/ IssueTickets(k)
                \/ pc[k] = "issued" /\ UNCHANGED job
<1> USE DEF TypeOK
<1>1. CASE Arrive(k)
  <2>1. PICK o \in Order, v \in Verdict, mm \in BOOLEAN,
             s \in {"received", "settle"} : Open(k, o, v, mm, s)
    BY <1>1 DEF Arrive, Confirm, GetPayment, ApproveOrder, Verdict
  <2>2. pc'[k] = s /\ UNCHANGED reservations
    BY <2>1 DEF Open, Goto, dbVars
  <2>3. QED
    BY <2>2
<1>2. CASE \/ SettleDuplicated(k) \/ NotifyFailed(k) \/ NotifyPaid(k)
           \/ RejectCode(k) \/ Crash(k)
  BY <1>2 DEF SettleDuplicated, NotifyFailed, NotifyPaid, RejectCode, Crash,
       Finish, Goto, dbVars
<1>3. CASE ClaimFailed(k) \/ ClaimPaid(k)
  BY <1>3 DEF ClaimFailed, ClaimPaid, Finish, Goto, dbVars
<1>4. CASE \/ RecordWebhookReceived(k) \/ CommitFailed(k) \/ EmitSettleEvents(k)
           \/ SkipCode(k) \/ ConsumeCode(k)
  BY <1>4 DEF RecordWebhookReceived, CommitFailed, EmitSettleEvents, SkipCode,
       ConsumeCode, Goto, dbVars
<1>5. CASE IssueTickets(k)
  BY <1>5 DEF IssueTickets, dbVars
<1>6. CASE CommitPaid(k)
  <2>1. \A t \in Table : reservations'[t] >= reservations[t]
    BY <1>6 DEF CommitPaid
  <2>2. pc'[k] = "notifyPaid"
    BY <1>6 DEF CommitPaid, Goto
  <2>3. QED
    BY <2>1, <2>2
<1>7. QED
  BY <1>1, <1>2, <1>3, <1>4, <1>5, <1>6 DEF Progress

\* What a step may do to a reservation an order counts on: add to it, or cancel
\* one and keep the order in mind.
LEMMA ReservationStep ==
    ASSUME TypeOK, [Next]_vars, NEW o \in Order, TableOf[o] # NoTable,
           reservations[TableOf[o]] >= 1 \/ o \in unseated,
           Looked(o)
    PROVE  reservations'[TableOf[o]] >= 1 \/ o \in unseated'
<1> DEFINE t == TableOf[o]
<1>0. t \in Table /\ reservations[t] \in Nat
  BY ConstantsAssumption DEF TypeOK
<1>1. CASE UNCHANGED vars
  BY <1>1 DEF vars, dbVars, tableVars
<1>2. ASSUME NEW k \in Call, CallStep(k)
      PROVE  reservations'[t] >= 1 \/ o \in unseated'
  <2>1. reservations'[t] >= reservations[t]
    BY <1>0, <1>2, TableFrame DEF CallStep
  <2>2. reservations'[t] \in Nat /\ unseated' = unseated
    BY <1>0, <1>2, TypeStep DEF TypeOK, CallStep, tableVars
  <2>3. QED
    BY <1>0, <2>1, <2>2
<1>3. ASSUME NEW u \in Table, TableStep(u)
      PROVE  reservations'[t] >= 1 \/ o \in unseated'
  <2>1. CASE CancelTable(u)
    <3>1. /\ reservations' = [reservations EXCEPT ![u] = @ - 1]
          /\ unseated' = unseated \cup
                            {x \in Order : TableOf[x] = u /\ Looked(x)}
      BY <2>1 DEF CancelTable
    <3>2. CASE u = t
      BY <3>1, <3>2
    <3>3. CASE u # t
      BY <1>0, <3>1, <3>3 DEF TypeOK
    <3>4. QED
      BY <3>2, <3>3
  <2>2. CASE AskTable(u)
    BY <2>2 DEF AskTable
  <2>3. CASE GrantTable(u) \/ ConfirmTable(u)
    <3>1. /\ reservations' = [reservations EXCEPT ![u] = @ + 1]
          /\ unseated' = unseated
      BY <2>3 DEF GrantTable, ConfirmTable
    <3>2. reservations'[t] >= reservations[t]
      BY <1>0, <3>1 DEF TypeOK
    <3>3. reservations'[t] \in Nat
      BY <1>0, <3>1 DEF TypeOK
    <3>4. QED
      BY <1>0, <3>1, <3>2, <3>3
  <2>4. QED
    BY <1>3, <2>1, <2>2, <2>3 DEF TableStep
<1>4. QED
  BY <1>1, <1>2, <1>3 DEF Next

\* The decision about the table stays justified until the commit.
LEMMA TableKeeps == TypeOK /\ TableInv /\ [Next]_vars => TableInv'
<1> SUFFICES ASSUME TypeOK, TableInv, [Next]_vars, NEW j \in Call,
                    pc'[j] \in {"issued", "ready"},
                    TableOf[job'[j].order] # NoTable, ~job'[j].books
             PROVE  \/ reservations'[TableOf[job'[j].order]] >= 1
                    \/ job'[j].order \in unseated'
  BY DEF TableInv
<1> DEFINE o == job[j].order
           t == TableOf[o]
<1>0. o \in Order /\ t \in Table \cup {NoTable}
  BY JobFacts
<1>1. CASE /\ pc[j] \in {"issued", "ready"}
           /\ job'[j] = job[j]
  <2>1. reservations[t] >= 1 \/ o \in unseated
    BY <1>1 DEF TableInv
  <2>2. Looked(o)
    BY <1>1 DEF Looked
  <2>3. QED
    BY <1>0, <1>1, <2>1, <2>2, ReservationStep
<1>2. ASSUME IssueTickets(j)
      PROVE  reservations'[TableOf[job'[j].order]] >= 1
  <2>1. /\ job'[j].order = o
        /\ job'[j].books = (t # NoTable /\ reservations[t] = 0)
        /\ UNCHANGED reservations
    BY <1>2 DEF IssueTickets, TypeOK, Job, dbVars
  <2>2. t \in Table /\ reservations[t] # 0 /\ reservations[t] \in Nat
    BY <1>0, <2>1 DEF TypeOK
  <2>3. QED
    BY <2>1, <2>2
<1>3. CASE UNCHANGED settleVars
  BY <1>1, <1>3 DEF settleVars
<1>4. ASSUME NEW k \in Call, Arrive(k) \/ Progress(k) \/ Crash(k)
      PROVE  \/ IssueTickets(j)
             \/ pc[j] \in {"issued", "ready"} /\ job'[j] = job[j]
  <2>1. CASE k = j
    BY <1>4, <2>1, TableFrame
  <2>2. CASE k # j
    BY <1>4, <2>2, OthersFrame
  <2>3. QED
    BY <2>1, <2>2
<1>5. QED
  BY <1>1, <1>2, <1>3, <1>4, Steps

\* A step that commits a payment leaves its person with the table it asks for.
LEMMA TableHeldStep ==
    IInv /\ TableInv /\ TableIsHeld /\ [Next]_vars => TableIsHeld'
<1> SUFFICES ASSUME IInv, TableInv, TableIsHeld, [Next]_vars, NEW o \in Order,
                    status'[o] = "PAID", TableOf[o] # NoTable
             PROVE  reservations'[TableOf[o]] >= 1 \/ o \in unseated'
  BY DEF TableIsHeld
<1> DEFINE t == TableOf[o]
<1>0. TypeOK /\ t \in Table /\ reservations[t] \in Nat
  BY ConstantsAssumption DEF IInv, TypeOK
<1>1. CASE status[o] = "PAID"
  <2>1. reservations[t] >= 1 \/ o \in unseated
    BY <1>1 DEF TableIsHeld
  <2>2. QED
    BY <1>0, <1>1, <2>1, ReservationStep DEF Looked
<1>2. CASE status[o] # "PAID"
  <2>1. PICK k \in Call : CommitPaid(k) /\ job[k].order = o
    <3>1. PICK k \in Call : CommitFailed(k) \/ CommitPaid(k)
      BY <1>0, <1>2, StatusFrame, Steps DEF settleVars
    <3>2. /\ CommitFailed(k) =>
               status' = [status EXCEPT ![job[k].order] = "FAILED"]
          /\ CommitPaid(k) =>
               status' = [status EXCEPT ![job[k].order] = "PAID"]
      BY DEF CommitFailed, CommitPaid
    <3>3. QED
      BY <1>0, <1>2, <3>1, <3>2 DEF TypeOK
  <2>2. /\ pc[k] = "ready"
        /\ reservations'[t] = IF job[k].books THEN reservations[t] + 1
                                              ELSE reservations[t]
    BY <1>0, <2>1 DEF CommitPaid
  <2>3. ~job[k].books => reservations[t] >= 1 \/ o \in unseated
    BY <1>0, <2>1, <2>2 DEF TableInv
  <2>4. CASE job[k].books
    BY <1>0, <2>2, <2>4
  <2>5. CASE ~job[k].books
    <3>1. Looked(o)
      BY <2>1, <2>2, <2>5 DEF Looked
    <3>2. QED
      BY <1>0, <2>3, <2>5, <3>1, ReservationStep
  <2>6. QED
    BY <2>4, <2>5
<1>3. QED
  BY <1>1, <1>2

\* Every paid order that asked for a table has left its person with one, even
\* if its settlement found one there and booked none; only a cancellation that
\* comes after its settlement looked takes it away again.
THEOREM TablesAreHeld == Spec => []TableIsHeld
<1>1. Init => TableInv /\ TableIsHeld
  BY DEF Init, TableInv, TableIsHeld
<1>2. IInv => TypeOK
  BY DEF IInv
<1>3. QED
  BY Invariance, <1>1, <1>2, TableKeeps, TableHeldStep, PTL DEF Spec

-----------------------------------------------------------------------------
\* Transitions is a recursive function. That it exists, and what it yields, is
\* carried along with the events that are appended: Tells(s, x) says of a log s
\* that the equation of Transitions has a solution and that each one ends in x.

Keeps(s, kept) ==
    kept = [n \in 0 .. Len(s) |->
              IF n = 0 THEN <<>>
              ELSE IF s[n] = "WEBHOOK_RECEIVED" THEN kept[n - 1]
                   ELSE Append(kept[n - 1], s[n])]

Tells(s, x) ==
    /\ \E kept : Keeps(s, kept)
    /\ \A kept : Keeps(s, kept) => kept[Len(s)] = x

\* An empty log tells nothing.
LEMMA TellsNothing == Tells(<<>>, <<>>)
<1>1. Keeps(<<>>, [n \in {0} |-> <<>>])
  BY DEF Keeps
<1>2. ASSUME NEW kept, Keeps(<<>>, kept) PROVE kept[0] = <<>>
  BY <1>2 DEF Keeps
<1>3. QED
  BY <1>1, <1>2 DEF Tells

\* What one more event adds to what a log tells.
LEMMA TellsMore ==
    ASSUME NEW s \in Seq(EventType), NEW e \in EventType, NEW x, Tells(s, x)
    PROVE  Tells(Append(s, e),
                 IF e = "WEBHOOK_RECEIVED" THEN x ELSE Append(x, e))
<1> DEFINE t == Append(s, e)
           n == Len(s) + 1
           More(y) == IF e = "WEBHOOK_RECEIVED" THEN y ELSE Append(y, e)
<1>1. /\ Len(s) \in Nat /\ Len(t) = n /\ t[n] = e
      /\ \A i \in 1 .. Len(s) : t[i] = s[i]
  OBVIOUS
<1> HIDE DEF t
<1>2. ASSUME NEW kept, Keeps(t, kept)
      PROVE  kept[n] = More(x)
  <2> DEFINE before == [i \in 0 .. Len(s) |-> kept[i]]
  <2>1. \A i \in 0 .. n :
           kept[i] = IF i = 0 THEN <<>>
                     ELSE IF t[i] = "WEBHOOK_RECEIVED" THEN kept[i - 1]
                          ELSE Append(kept[i - 1], t[i])
    BY <1>1, <1>2 DEF Keeps
  <2>2. Keeps(s, before)
    <3>1. \A i \in 0 .. Len(s) :
             kept[i] = IF i = 0 THEN <<>>
                       ELSE IF s[i] = "WEBHOOK_RECEIVED" THEN before[i - 1]
                            ELSE Append(before[i - 1], s[i])
      BY <1>1, <2>1
    <3>2. QED
      BY <3>1 DEF Keeps
  <2>3. before[Len(s)] = x
    BY <2>2 DEF Tells
  <2>4. kept[n - 1] = x
    BY <1>1, <2>3
  <2>5. QED
    BY <1>1, <2>1, <2>4
<1>3. \E kept : Keeps(t, kept)
  <2>1. PICK before : Keeps(s, before)
    BY DEF Tells
  <2> DEFINE kept == [i \in 0 .. n |-> IF i = n THEN More(before[Len(s)])
                                                ELSE before[i]]
  <2>2. \A i \in 0 .. Len(s) :
           before[i] = IF i = 0 THEN <<>>
                       ELSE IF s[i] = "WEBHOOK_RECEIVED" THEN before[i - 1]
                            ELSE Append(before[i - 1], s[i])
    BY <2>1 DEF Keeps
  <2>3. \A i \in 0 .. n :
           kept[i] = IF i = 0 THEN <<>>
                     ELSE IF t[i] = "WEBHOOK_RECEIVED" THEN kept[i - 1]
                          ELSE Append(kept[i - 1], t[i])
    BY <1>1, <2>2
  <2>4. kept = [i \in 0 .. n |-> kept[i]]
    OBVIOUS
  <2> HIDE DEF kept
  <2>5. Keeps(t, kept)
    BY <1>1, <2>3, <2>4 DEF Keeps
  <2>6. QED
    BY <2>5
<1>4. QED
  BY <1>1, <1>2, <1>3 DEF Tells, t

\* What the ledger of an order may tell, by the status of its row.
Failure == <<"STATUS_CONFIRMED", "FAILED">>
Payments == {<<"STATUS_CONFIRMED", "SETTLED">>,
             <<"STATUS_CONFIRMED", "AMOUNT_MISMATCH", "SETTLED">>}
Stories(s) ==
    CASE s = "PENDING" -> {<<>>}
      [] s = "FAILED" -> {Failure}
      [] s = "PAID" -> Payments \cup {Failure \o p : p \in Payments}

LedgerInv == \A o \in Order : \E x \in Stories(status[o]) : Tells(log[o], x)

\* Only three steps touch a log or a status.
LEMMA LedgerFrame ==
    ASSUME NEW k \in Call, Arrive(k) \/ Progress(k) \/ Crash(k)
    PROVE  \/ RecordWebhookReceived(k) \/ CommitFailed(k) \/ CommitPaid(k)
           \/ UNCHANGED <<status, log>>
  BY DEF Arrive, Confirm, GetPayment, ApproveOrder, Open, Progress, Crash,
     SettleDuplicated, ClaimFailed, NotifyFailed, ClaimPaid, EmitSettleEvents,
     IssueTickets, SkipCode, ConsumeCode, RejectCode, NotifyPaid, dbVars

\* The events of a failure, or of a payment, after what was told before.
LEMMA TellsFailure ==
    ASSUME NEW s \in Seq(EventType), NEW x, x = <<>>, Tells(s, x)
    PROVE  Tells(s \o Failure, Failure)
<1> DEFINE s1 == Append(s, "STATUS_CONFIRMED")
           x1 == Append(x, "STATUS_CONFIRMED")
<1>1. s1 \in Seq(EventType) /\ Tells(s1, x1)
  <2>1. "STATUS_CONFIRMED" \in EventType
    BY DEF EventType
  <2>2. Tells(s1, IF "STATUS_CONFIRMED" = "WEBHOOK_RECEIVED" THEN x
                  ELSE Append(x, "STATUS_CONFIRMED"))
    BY <2>1, TellsMore
  <2>3. QED
    BY <2>1, <2>2
<1>2. Tells(Append(s1, "FAILED"), Append(x1, "FAILED"))
  <2> HIDE DEF s1, x1
  <2>1. QED
    BY <1>1, TellsMore DEF EventType
<1>3. \A r \in Seq(EventType) :
        r \o Failure = Append(Append(r, "STATUS_CONFIRMED"), "FAILED")
  BY DEF Failure, EventType
<1>4. <<>> \in Seq(EventType) /\ <<>> \o Failure = Failure
  BY DEF Failure
<1>5. QED
  BY <1>2, <1>3, <1>4

LEMMA TellsPayment ==
    ASSUME NEW s \in Seq(EventType), NEW x \in {<<>>, Failure}, Tells(s, x),
           NEW p \in Payments
    PROVE  Tells(s \o p, x \o p)
<1> DEFINE s1 == Append(s, "STATUS_CONFIRMED")
           x1 == Append(x, "STATUS_CONFIRMED")
           s2 == Append(s1, "AMOUNT_MISMATCH")
           x2 == Append(x1, "AMOUNT_MISMATCH")
<1>1. s1 \in Seq(EventType) /\ Tells(s1, x1)
  BY TellsMore DEF EventType
<1>2. s2 \in Seq(EventType) /\ Tells(s2, x2)
  <2> HIDE DEF s1, x1
  <2>1. QED
    BY <1>1, TellsMore DEF EventType
<1>3. Tells(Append(s1, "SETTLED"), Append(x1, "SETTLED"))
  <2> HIDE DEF s1, x1
  <2>1. QED
    BY <1>1, TellsMore DEF EventType
<1>4. Tells(Append(s2, "SETTLED"), Append(x2, "SETTLED"))
  <2> HIDE DEF s2, x2
  <2>1. QED
    BY <1>2, TellsMore DEF EventType
<1>5. x \in Seq(EventType)
  <2>1. <<"STATUS_CONFIRMED", "FAILED">> \in Seq(EventType)
    BY DEF EventType
  <2>2. <<>> \in Seq(EventType)
    OBVIOUS
  <2>3. QED
    BY <2>1, <2>2 DEF Failure
<1>6. \A r \in Seq(EventType) :
        /\ r \o <<"STATUS_CONFIRMED", "SETTLED">> =
             Append(Append(r, "STATUS_CONFIRMED"), "SETTLED")
        /\ r \o <<"STATUS_CONFIRMED", "AMOUNT_MISMATCH", "SETTLED">> =
             Append(Append(Append(r, "STATUS_CONFIRMED"), "AMOUNT_MISMATCH"),
                    "SETTLED")
  BY DEF EventType
<1>7. QED
  BY <1>3, <1>4, <1>5, <1>6 DEF Payments

\* Every commit appends what its claim allows, and evidence tells nothing.
LEMMA LedgerStep == IInv /\ LedgerInv /\ [Next]_vars => LedgerInv'
<1> SUFFICES ASSUME IInv, LedgerInv, [Next]_vars PROVE LedgerInv'
  OBVIOUS
<1>0. TypeOK /\ \A k \in Call : job[k].order \in Order
  BY JobFacts DEF IInv
<1>1. CASE UNCHANGED <<status, log>>
  BY <1>1 DEF LedgerInv
<1>2. ASSUME NEW k \in Call, RecordWebhookReceived(k) PROVE LedgerInv'
  <2> DEFINE o == job[k].order
  <2>1. /\ UNCHANGED status
        /\ log'[o] = Append(log[o], "WEBHOOK_RECEIVED")
        /\ \A u \in Order \ {o} : log'[u] = log[u]
    BY <1>0, <1>2 DEF RecordWebhookReceived, TypeOK
  <2>2. PICK x \in Stories(status[o]) : Tells(log[o], x)
    BY <1>0 DEF LedgerInv
  <2>3. log[o] \in Seq(EventType) /\ "WEBHOOK_RECEIVED" \in EventType
    BY <1>0 DEF TypeOK, EventType
  <2>4. Tells(log'[o], x)
    BY <2>1, <2>2, <2>3, TellsMore
  <2>5. QED
    BY <2>1, <2>2, <2>4 DEF LedgerInv
<1>3. ASSUME NEW k \in Call, CommitFailed(k) PROVE LedgerInv'
  <2> DEFINE o == job[k].order
  <2>1. /\ status[o] = "PENDING" /\ status'[o] = "FAILED"
        /\ log'[o] = log[o] \o Failure
        /\ \A u \in Order \ {o} : log'[u] = log[u] /\ status'[u] = status[u]
    BY <1>0, <1>3 DEF CommitFailed, TypeOK, IInv, ClaimInv, OpenTx, Failure
  <2>2. Tells(log[o], <<>>) /\ log[o] \in Seq(EventType)
    BY <1>0, <2>1 DEF LedgerInv, Stories, TypeOK
  <2>3. Tells(log'[o], Failure)
    BY <2>1, <2>2, TellsFailure
  <2>4. Failure \in Stories(status'[o])
    BY <2>1 DEF Stories
  <2>5. QED
    BY <2>1, <2>3, <2>4 DEF LedgerInv
<1>4. ASSUME NEW k \in Call, CommitPaid(k) PROVE LedgerInv'
  <2> DEFINE o == job[k].order
             p == SettleEvents(k)
  <2>1. /\ status[o] # "PAID" /\ status'[o] = "PAID"
        /\ log'[o] = log[o] \o p
        /\ \A u \in Order \ {o} : log'[u] = log[u] /\ status'[u] = status[u]
    BY <1>0, <1>4 DEF CommitPaid, TypeOK, IInv, ClaimInv, OpenTx, PaidTx
  <2>2. p \in Payments
    BY DEF SettleEvents, Payments
  <2>3. status[o] \in {"PENDING", "FAILED"} /\ log[o] \in Seq(EventType)
    BY <1>0, <2>1 DEF TypeOK, Status
  <2>4. PICK x \in {<<>>, Failure} : Tells(log[o], x)
    BY <1>0, <2>3 DEF LedgerInv, Stories
  <2> HIDE DEF p
  <2>5. Tells(log'[o], x \o p)
    BY <2>1, <2>2, <2>3, <2>4, TellsPayment
  <2>6. x \o p \in Stories(status'[o])
    <3>1. <<>> \o p = p
      BY <2>2 DEF Payments
    <3>2. QED
      BY <2>1, <2>2, <3>1 DEF Stories
  <2>7. QED
    BY <2>1, <2>5, <2>6 DEF LedgerInv
<1>5. QED
  BY <1>1, <1>2, <1>3, <1>4, LedgerFrame, Steps DEF settleVars

\* The ledger of every order (payment-settlement.service.ts, emit in the
\* transaction of the claim) tells the story of its row: nothing, a failure, a
\* payment or one after the other, whatever notifications arrive between.
THEOREM LedgerAgreesWithRow == Spec => []LedgerTellsStatus
<1>1. Init => LedgerInv
  <2> SUFFICES ASSUME Init PROVE LedgerInv
    OBVIOUS
  <2>1. \A o \in Order : status[o] = "PENDING" /\ log[o] = <<>>
    BY DEF Init
  <2>2. QED
    BY <2>1, TellsNothing DEF LedgerInv, Stories
<1>2. IInv /\ LedgerInv => LedgerTellsStatus
  <2> SUFFICES ASSUME IInv, LedgerInv PROVE LedgerTellsStatus
    OBVIOUS
  <2>0. \A o \in Order : status[o] \in Status
    BY DEF IInv, TypeOK
  <2>1. ASSUME NEW o \in Order PROVE Transitions(o) \in Stories(status[o])
    <3>1. PICK x \in Stories(status[o]) : Tells(log[o], x)
      BY DEF LedgerInv
    <3>2. Transitions(o) = (CHOOSE kept : Keeps(log[o], kept))[Len(log[o])]
      BY DEF Transitions, Keeps
    <3>3. Keeps(log[o], CHOOSE kept : Keeps(log[o], kept))
      BY <3>1 DEF Tells
    <3>4. QED
      BY <3>1, <3>2, <3>3 DEF Tells
  <2>2. QED
    BY <2>0, <2>1 DEF LedgerTellsStatus, Stories, Failure, Payments, Status
<1>3. QED
  BY Invariance, <1>1, <1>2, LedgerStep, PTL DEF Spec

-----------------------------------------------------------------------------
\* Every step of the settlement calls is a step of the abstract life cycle.
LEMMA LifecycleStep ==
    IInv /\ [Next]_vars => [Lifecycle!Next]_(Lifecycle!vars)
<1> SUFFICES ASSUME IInv, [Next]_vars
             PROVE  [Lifecycle!Next]_(Lifecycle!vars)
  OBVIOUS
<1>1. CASE UNCHANGED <<status, tickets>>
  BY <1>1 DEF Lifecycle!vars
<1>2. ASSUME NEW k \in Call, CommitFailed(k) PROVE Lifecycle!Next
  <2>1. job[k].order \in Order /\ status[job[k].order] = "PENDING"
    BY <1>2, JobFacts DEF IInv, ClaimInv, OpenTx, CommitFailed
  <2>2. Lifecycle!Fail(job[k].order)
    BY <1>2, <2>1 DEF CommitFailed, Lifecycle!Fail
  <2>3. QED
    BY <2>1, <2>2 DEF Lifecycle!Next
<1>3. ASSUME NEW k \in Call, CommitPaid(k) PROVE Lifecycle!Next
  <2> DEFINE o == job[k].order
  <2>1. o \in Order /\ status[o] # "PAID" /\ Quantity[o] \in Nat
    BY <1>3, JobFacts DEF IInv, ClaimInv, OpenTx, PaidTx, CommitPaid
  <2>2. /\ status' = [status EXCEPT ![o] = "PAID"]
        /\ tickets' = [tickets EXCEPT ![o] = @ + Quantity[o]]
    BY <1>3 DEF CommitPaid
  <2>3. tickets[o] = 0
    BY <2>1 DEF IInv, TicketsIffPaid
  <2> HIDE DEF o
  <2>4. tickets' = [tickets EXCEPT ![o] = Quantity[o]]
    <3>1. tickets[o] + Quantity[o] = Quantity[o]
      BY <2>1, <2>3
    <3>2. QED
      BY <2>2, <3>1, Zenon
  <2>5. Lifecycle!Pay(o)
    BY <2>1, <2>2, <2>4 DEF Lifecycle!Pay
  <2>6. QED
    BY <2>1, <2>5 DEF Lifecycle!Next
<1>4. QED
  BY <1>1, <1>2, <1>3, StatusFrame, Steps DEF IInv, settleVars

\* The concurrent settlement calls implement the life cycle of an order.
THEOREM ImplementsLifecycle == Spec => LifecycleSpec
<1>1. Init => Lifecycle!Init
  BY DEF Init, Lifecycle!Init
<1>2. QED
  BY <1>1, Invariance, LifecycleStep, PTL
  DEF Spec, LifecycleSpec, Lifecycle!Spec
=============================================================================
