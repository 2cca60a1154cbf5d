--------------------------- MODULE PayoutsProofs ---------------------------
(***************************************************************************)
(* Proofs about Payouts and PayoutFees, for any number of orders, periods, *)
(* payouts and requests. The inductive invariant says what a request knows *)
(* between its read and its write: which payouts it has not seen, that the *)
(* row of the counter is its own, and that money which it moved is not     *)
(* recorded yet.                                                           *)
(***************************************************************************)
EXTENDS Payouts, SequenceTheorems, TLAPS

-----------------------------------------------------------------------------
\* The deductions of a managed sale add up to the deduction that was frozen
\* with the order, for every amount, cost of the gateway and VAT: the seller
\* is left exactly with producerNet (managedSettlementLines).
THEOREM ManagedSaleKeepsNet ==
    ASSUME NEW s \in Sale, s.mode = "MANAGED", s.producerNet <= s.amount,
           NEW iva \in Nat
    PROVE  LET l == ManagedLines(s, iva) IN
           /\ PlatformFee(l) + GatewayFee(l) = s.amount - s.producerNet
           /\ GrossOf(s) - PlatformFee(l) - GatewayFee(l) =
                IF s.manual THEN s.producerNet - s.amount ELSE s.producerNet
<1> DEFINE deduction == s.amount - s.producerNet
           gateway == Lesser(s.gatewayFee, deduction)
           ours == deduction - gateway
           net == Rounded(100 * ours, 100 + iva)
           l == ManagedLines(s, iva)
<1>1. s.amount \in Nat /\ s.producerNet \in Nat /\ s.gatewayFee \in Nat
  BY DEF Sale
<1>2. gateway \in Int /\ ours \in Nat
  BY <1>1 DEF Lesser
<1>3. net \in Int
  <2>1. 2 * (100 * ours) + (100 + iva) \in Int /\ 2 * (100 + iva) \in Nat \ {0}
    BY <1>2
  <2> HIDE DEF ours
  <2>2. QED
    BY <2>1 DEF Rounded
<1>4. /\ l["GATEWAY_FEE_PASSTHROUGH"] = gateway
      /\ l["PLATFORM_FEE_NET"] = net
      /\ l["PLATFORM_FEE_VAT"] = ours - net
      /\ l["OWN_METHOD_FEE_NET"] = 0 /\ l["OWN_METHOD_FEE_VAT"] = 0
      /\ l["ACADEMY_COBROS_TAKE"] = 0
  BY DEF ManagedLines, NoLine, LineType
<1> HIDE DEF net, gateway, l
<1>5. PlatformFee(l) + GatewayFee(l) = deduction
  BY <1>1, <1>2, <1>3, <1>4 DEF PlatformFee, GatewayFee
<1>6. PlatformFee(l) \in Int /\ GatewayFee(l) \in Int
  BY <1>2, <1>3, <1>4 DEF PlatformFee, GatewayFee
<1>7. GrossOf(s) = IF s.manual THEN 0 ELSE s.amount
  BY DEF GrossOf
<1>8. QED
  BY <1>1, <1>5, <1>6, <1>7 DEF l

-----------------------------------------------------------------------------
\* What every sale leaves of the gross is what the seller is owed for it,
\* whichever way it was charged.
LEMMA EverySaleLeavesWhatIsOwed ==
    ASSUME NEW s \in Sale, s.producerNet <= s.amount, Accrues(s)
    PROVE  LET l == LinesOf(s, Iva, Pct, Take) IN
           GrossOf(s) - PlatformFee(l) - GatewayFee(l) = Owed(s)
<1> DEFINE l == LinesOf(s, Iva, Pct, Take)
<1> USE ConstantsAssumption
<1>1. /\ s.amount \in Nat /\ s.producerNet \in Nat /\ s.gatewayFee \in Nat
      /\ s.ownNet \in Nat /\ s.ownVat \in Nat /\ s.mode \in FeeMode
      /\ s.manual \in BOOLEAN
  BY DEF Sale
<1>2. CASE s.mode = "MANAGED"
  <2>1. l = ManagedLines(s, Iva) /\ Owed(s) = IF s.manual THEN s.producerNet - s.amount
                                                         ELSE s.producerNet
    BY <1>1, <1>2 DEF LinesOf, Owed
  <2>2. QED
    BY <1>2, <2>1, ManagedSaleKeepsNet
<1>3. CASE s.mode = "OWN_METHOD"
  <2>1. l = OwnLines(s) /\ Owed(s) = -(s.ownNet + s.ownVat) /\ GrossOf(s) = 0
    BY <1>3 DEF LinesOf, Owed, GrossOf
  <2>2. PlatformFee(l) = s.ownNet + s.ownVat /\ GatewayFee(l) = 0
    <3>1. /\ l["OWN_METHOD_FEE_NET"] = s.ownNet
          /\ l["OWN_METHOD_FEE_VAT"] = s.ownVat
          /\ \A t \in LineType \ {"OWN_METHOD_FEE_NET", "OWN_METHOD_FEE_VAT"} :
                l[t] = 0
      BY <2>1 DEF OwnLines, NoLine, LineType
    <3> HIDE DEF l
    <3>2. QED
      BY <1>1, <3>1 DEF LineType, PlatformFee, GatewayFee
  <2>3. QED
    BY <1>1, <2>1, <2>2
<1>4. CASE s.mode = "FREE"
  <2>1. l = NoLine /\ Owed(s) = s.amount /\ GrossOf(s) = s.amount
    BY <1>4 DEF LinesOf, Owed, GrossOf
  <2>2. PlatformFee(l) = 0 /\ GatewayFee(l) = 0
    BY <2>1 DEF NoLine, LineType, PlatformFee, GatewayFee
  <2>3. QED
    BY <1>1, <2>1, <2>2
<1>5. CASE s.mode \in {"ACADEMY", "LEGACY"}
  <2>1. Owed(s) = s.amount - PrintedTotal(l) /\ GrossOf(s) = s.amount
    BY <1>5 DEF Owed, GrossOf
  <2>2. PlatformFee(l) \in Int /\ GatewayFee(l) \in Int
    <3>1. \A n \in Int, d \in Nat \ {0} : Rounded(n, d) \in Int
      BY DEF Rounded
    <3>2. Rounded(s.amount * Pct, 100) \in Int
      BY <1>1, <3>1
    <3>3. Rounded(s.gatewayFee * (Take - 10), 10) \in Int
      BY <1>1, <3>1
    <3>4. l = AcademyLines(s, Take) \/ l = LegacyLines(s, Pct)
      BY <1>5 DEF LinesOf
    <3>5. \A t \in LineType : l[t] \in Int
      BY <1>1, <3>2, <3>3, <3>4 DEF AcademyLines, LegacyLines, NoLine, LineType
    <3> HIDE DEF l
    <3>6. QED
      BY <3>5 DEF PlatformFee, GatewayFee, LineType
  <2>3. QED
    BY <1>1, <2>1, <2>2 DEF PrintedTotal
<1>6. QED
  BY <1>1, <1>2, <1>3, <1>4, <1>5 DEF FeeMode

\* A sum depends on its terms alone: two recursions whose terms agree on
\* every element of the set define the same function.
LEMMA NetIsSumOfOwed ==
    ASSUME NEW S \in SUBSET Order
    PROVE  LET owed(o) == Owed(SaleOf[o]) IN
           NetOf(S) = MapThenSumSet(owed, {o \in S : Accrues(SaleOf[o])})
<1> DEFINE T == {o \in S : Accrues(SaleOf[o])}
           lines(o) == LinesOf(SaleOf[o], Iva, Pct, Take)
           part(o) == GrossOf(SaleOf[o]) - PlatformFee(lines(o))
                                         - GatewayFee(lines(o))
           owed(o) == Owed(SaleOf[o])
           first(s) == CHOOSE o \in s : TRUE
           PartSum(sum) == [s \in SUBSET T |->
               IF s = {} THEN 0 ELSE part(first(s)) + sum[s \ {first(s)}]]
           OwedSum(sum) == [s \in SUBSET T |->
               IF s = {} THEN 0 ELSE owed(first(s)) + sum[s \ {first(s)}]]
<1>1. \A o \in T : part(o) = owed(o)
  BY EverySaleLeavesWhatIsOwed, ConstantsAssumption
<1>2. NetOf(S) = (CHOOSE sum : sum = PartSum(sum))[T]
  BY DEF NetOf, MapThenSumSet, MapThenFoldSet
<1>3. MapThenSumSet(owed, T) = (CHOOSE sum : sum = OwedSum(sum))[T]
  BY DEF MapThenSumSet, MapThenFoldSet
<1> HIDE DEF T, part, owed
<1>4. ASSUME NEW sum PROVE PartSum(sum) = OwedSum(sum)
  <2>1. \A s \in SUBSET T : s # {} => part(first(s)) = owed(first(s))
    BY <1>1
  <2>2. QED
    BY <2>1
<1> HIDE DEF PartSum, OwedSum
<1>5. \A sum : sum = PartSum(sum) <=> sum = OwedSum(sum)
  BY <1>4
<1>6. (CHOOSE sum : sum = PartSum(sum)) = (CHOOSE sum : sum = OwedSum(sum))
  BY <1>5, Zenon
<1>7. QED
  BY <1>2, <1>3, <1>6 DEF T, owed

-----------------------------------------------------------------------------
\* The inductive invariant.

\* Steps of a request about a payout that it has read.
AboutRow == {"approve", "pay", "transfer", "claim", "conflict", "issue",
             "takeFolio", "insert", "void"}

\* A request is about a payout that exists, and no money has left for one
\* that does not.
RowsExist ==
    /\ \A k \in Call : pc[k] \in AboutRow => job[k].payout \in Rows
    /\ \A p \in PayoutId \ Rows : byHand[p] = 0 /\ p \notin transfers

\* A generation has seen every payout of its period that it counted.
SawItsPeriod ==
    \A k \in Call : pc[k] \in {"compute", "create"} =>
        /\ job[k].known <= Len(payouts)
        /\ \A p \in Rows : payouts[p].period = job[k].period =>
                              job[k].known < p

\* The transaction that took a folio holds the row of the counter, which it
\* has read.
FolioIsHeld ==
    \A k \in Call : pc[k] = "insert" =>
        counterLock = k /\ job[k].folio = counter

Issued(p) == documents[p] # NoDocument

\* A document exists with its status, and an annulment finds it.
DocumentsExist ==
    /\ \A p \in PayoutId : Issued(p) => documents[p].status # "none"
    /\ \A k \in Call : pc[k] = "void" => Issued(job[k].payout)

Irregular == overwritten \cup lost \cup conflicts

\* Unless something went wrong with it, a payout that is not PAID has moved
\* no money that is not about to be recorded, and one that is PAID moved it
\* once.
MoneyIsRecorded ==
    \A p \in Rows : p \notin Irregular /\ ~InFlight(p) =>
        IF payouts[p].status = "PAID"
          THEN byHand[p] + (IF p \in transfers THEN 1 ELSE 0) <= 1
          ELSE byHand[p] = 0 /\ p \notin transfers

\* Nothing has been paid by hand for a payout that is not PAID.
HandFirst ==
    \A p \in Rows : p \notin Irregular /\ payouts[p].status # "PAID" =>
        byHand[p] = 0

\* The net of a payout is what compute() made of the orders in it.
NetIsOfItsOrders == \A p \in Rows : payouts[p].net = NetOf(payouts[p].orders)

IInv ==
    /\ TypeOK /\ RowsExist /\ SawItsPeriod /\ FolioIsHeld /\ DocumentsExist
    /\ MoneyIsRecorded /\ HandFirst
    /\ LiquidatedTwiceOnlyByRaces /\ FoliosAreGapless /\ NetIsOfItsOrders

-----------------------------------------------------------------------------
\* The empty request has the type of a request.
LEMMA NoJobTyped == NoJob \in Job
  BY ConstantsAssumption DEF NoJob, Job

\* The rows are numbered within the bound.
LEMMA RowsTyped ==
    ASSUME TypeOK
    PROVE  /\ Rows \subseteq PayoutId
           /\ Len(payouts) \in 0 .. MaxPayouts
<1>1. Len(payouts) \in Nat /\ Len(payouts) <= MaxPayouts
  BY DEF TypeOK
<1>2. QED
  BY <1>1, ConstantsAssumption DEF Rows, PayoutId

\* A row that is written keeps the rows' type, their number, their periods,
\* their orders and what their generation knew.
LEMMA RowFrame ==
    ASSUME payouts \in Seq(Payout), NEW p \in Rows, NEW s \in Status,
           NEW e \in Payout, e.status = s,
           e.period = payouts[p].period, e.orders = payouts[p].orders,
           e.known = payouts[p].known, e.net = payouts[p].net,
           NEW q, q = [payouts EXCEPT ![p] = e]
    PROVE  /\ q \in Seq(Payout) /\ Len(q) = Len(payouts)
           /\ q[p].status = s
           /\ \A i \in Rows : /\ q[i].period = payouts[i].period
                              /\ q[i].orders = payouts[i].orders
                              /\ q[i].known = payouts[i].known
                              /\ q[i].net = payouts[i].net
                              /\ i # p => q[i] = payouts[i]
<1>1. /\ q \in Seq(Payout) /\ Len(q) = Len(payouts)
      /\ \A i \in Rows : q[i] = IF i = p THEN e ELSE payouts[i]
  BY ExceptSeq DEF Rows
<1>2. QED
  BY <1>1

\* What an action does to the rows of payouts that exist: their periods,
\* orders, net and history stay.
RowsKept ==
    /\ payouts' \in Seq(Payout)
    /\ Len(payouts') = Len(payouts)
    /\ \A i \in Rows : /\ payouts'[i].period = payouts[i].period
                       /\ payouts'[i].orders = payouts[i].orders
                       /\ payouts'[i].known = payouts[i].known
                       /\ payouts'[i].net = payouts[i].net

\* A write by id sets the status of one row.
LEMMA OverwriteFrame ==
    ASSUME TypeOK, NEW p \in Rows, NEW seen, NEW s \in Status,
           Overwrite(p, seen, s)
    PROVE  /\ RowsKept
           /\ payouts'[p].status = s
           /\ \A i \in Rows \ {p} : payouts'[i] = payouts[i]
           /\ overwritten' \subseteq overwritten \cup {p}
           /\ overwritten \subseteq overwritten'
           /\ payouts[p].status # seen => p \in overwritten'
<1> DEFINE e == [payouts[p] EXCEPT !.status = s]
<1>1. payouts \in Seq(Payout) /\ payouts[p] \in Payout
  BY DEF TypeOK, Rows
<1>2. /\ e \in Payout /\ e.status = s
      /\ e.period = payouts[p].period /\ e.orders = payouts[p].orders
      /\ e.known = payouts[p].known /\ e.net = payouts[p].net
  BY <1>1 DEF Payout
<1>3. payouts' = [payouts EXCEPT ![p] = e]
  BY DEF Overwrite
<1> HIDE DEF e
<1>4. /\ payouts' \in Seq(Payout) /\ Len(payouts') = Len(payouts)
      /\ payouts'[p].status = s
      /\ \A i \in Rows : /\ payouts'[i].period = payouts[i].period
                         /\ payouts'[i].orders = payouts[i].orders
                         /\ payouts'[i].known = payouts[i].known
                         /\ payouts'[i].net = payouts[i].net
                         /\ i # p => payouts'[i] = payouts[i]
  <2>1. /\ payouts' \in Seq(Payout) /\ Len(payouts') = Len(payouts)
        /\ \A i \in Rows : payouts'[i] = IF i = p THEN e ELSE payouts[i]
    BY <1>1, <1>2, <1>3, ExceptSeq DEF Rows
  <2>2. QED
    BY <2>1, <1>2
<1>5. RowsKept
  BY <1>4 DEF RowsKept
<1>6. /\ overwritten' \subseteq overwritten \cup {p}
      /\ overwritten \subseteq overwritten'
      /\ payouts[p].status # seen => p \in overwritten'
  BY DEF Overwrite
<1>7. QED
  BY <1>4, <1>5, <1>6

\* A successful claim makes one APPROVED row PAID.
LEMMA ClaimFrame ==
    ASSUME TypeOK, NEW k \in Call, ClaimPayout(k), job[k].payout \in Rows,
           payouts[job[k].payout].status = "APPROVED"
    PROVE  LET p == job[k].payout IN
           /\ RowsKept
           /\ payouts'[p].status = "PAID"
           /\ \A i \in Rows \ {p} : payouts'[i] = payouts[i]
           /\ End(k)
<1> DEFINE p == job[k].payout
           e == [payouts[p] EXCEPT !.status = "PAID", !.rail = TRUE]
<1>1. payouts \in Seq(Payout) /\ payouts[p] \in Payout
  BY DEF TypeOK, Rows
<1>2. /\ e \in Payout /\ e.status = "PAID"
      /\ e.period = payouts[p].period /\ e.orders = payouts[p].orders
      /\ e.known = payouts[p].known /\ e.net = payouts[p].net
  BY <1>1 DEF Payout, Status
<1>3. payouts' = [payouts EXCEPT ![p] = e] /\ End(k)
  BY DEF ClaimPayout
<1> HIDE DEF e
<1>4. RowsKept /\ payouts'[p].status = "PAID"
        /\ \A i \in Rows \ {p} : payouts'[i] = payouts[i]
  BY <1>1, <1>2, <1>3, RowFrame DEF RowsKept, Status
<1>5. QED
  BY <1>3, <1>4

\* An idle request keeps nothing; the others stay as they are.
LEMMA EndFrame ==
    ASSUME TypeOK, NEW k \in Call, End(k)
    PROVE  /\ pc' \in [Call -> Step] /\ job' \in [Call -> Job]
           /\ pc'[k] = "idle"
           /\ \A j \in Call \ {k} : pc'[j] = pc[j] /\ job'[j] = job[j]
  BY NoJobTyped DEF End, Goto, TypeOK, Step

LEMMA GotoFrame ==
    ASSUME TypeOK, NEW k \in Call, NEW s \in Step, Goto(k, s)
    PROVE  /\ pc' \in [Call -> Step]
           /\ pc'[k] = s
           /\ \A j \in Call \ {k} : pc'[j] = pc[j]
  BY DEF Goto, TypeOK

-----------------------------------------------------------------------------
\* Every step of a request is one of its actions.
LEMMA Steps ==
    ASSUME Next
    PROVE  \/ \E o \in Order : OrderPaid(o)
           \/ \E k \in Call, d \in Period : FindPayout(k, d)
           \/ \E k \in Call, p \in PayoutId, a \in SUBSET Status :
                \E s \in {"approve", "pay", "transfer", "issue", "void"} :
                   Open(k, p, a, s) /\ (s = "void" => Issued(p))
           \/ \E k \in Call : Compute(k) \/ CreatePayout(k)
           \/ \E k \in Call : Approve(k) \/ Pay(k)
           \/ \E k \in Call : Transfer(k) \/ ClaimPayout(k) \/ AuditConflict(k)
           \/ \E k \in Call : Issue(k) \/ TakeFolio(k)
           \/ \E k \in Call : Insert(k) \/ Void(k)
           \/ \E k \in Call : Crash(k)
<1>1. CASE \E o \in Order : OrderPaid(o)
  BY <1>1
<1>2. CASE \E k \in Call : Progress(k) \/ Crash(k)
  BY <1>2 DEF Progress
<1>3. CASE \E k \in Call, d \in Period : FindPayout(k, d)
  BY <1>3
<1>4. ASSUME NEW k \in Call, NEW p \in PayoutId,
             \/ ReadToApprove(k, p) \/ ReadToPay(k, p)
             \/ ReadToDisburse(k, p) \/ ReadToIssue(k, p) \/ ReadToVoid(k, p)
      PROVE  \E a \in SUBSET Status :
               \E s \in {"approve", "pay", "transfer", "issue", "void"} :
                  Open(k, p, a, s) /\ (s = "void" => Issued(p))
  <2>1. {"PENDING"} \in SUBSET Status /\ {"APPROVED"} \in SUBSET Status
          /\ Status \in SUBSET Status
    BY DEF Status
  <2>2. ReadToVoid(k, p) => Issued(p)
    BY DEF ReadToVoid, Issued, NoDocument
  <2>3. \/ Open(k, p, {"PENDING"}, "approve") \/ Open(k, p, {"APPROVED"}, "pay")
        \/ Open(k, p, {"APPROVED"}, "transfer") \/ Open(k, p, Status, "issue")
        \/ Open(k, p, Status, "void") /\ Issued(p)
    BY <1>4, <2>2 DEF ReadToApprove, ReadToPay, ReadToDisburse, ReadToIssue,
                      ReadToVoid
  <2>4. QED
    BY <2>1, <2>3
<1>5. QED
  BY <1>1, <1>2, <1>3, <1>4 DEF Next, Arrive

\* Every action keeps the types.
LEMMA TypeStep == TypeOK /\ RowsExist /\ Next => TypeOK'
<1> SUFFICES ASSUME TypeOK, RowsExist, Next PROVE TypeOK'
  OBVIOUS
<1> USE DEF rowVars, moneyVars, historyVars
<1>1. ASSUME NEW o \in Order, OrderPaid(o) PROVE TypeOK'
  BY <1>1 DEF OrderPaid, TypeOK
<1>2. ASSUME NEW k \in Call, NEW d \in Period, FindPayout(k, d)
      PROVE  TypeOK'
  <2>1. CASE UNCHANGED <<pc, job>>
    BY <1>2, <2>1 DEF FindPayout, TypeOK
  <2>2. CASE /\ Goto(k, "compute")
             /\ job' = [job EXCEPT ![k].period = d, ![k].known = Len(payouts)]
    <3>1. job' \in [Call -> Job]
      BY <2>2, RowsTyped DEF TypeOK, Job
    <3>2. pc' \in [Call -> Step]
      BY <2>2, GotoFrame DEF Step
    <3>3. QED
      BY <1>2, <3>1, <3>2 DEF FindPayout, TypeOK
  <2>3. QED
    BY <1>2, <2>1, <2>2 DEF FindPayout
<1>3. ASSUME NEW k \in Call, NEW p \in PayoutId, NEW a \in SUBSET Status,
             NEW s \in {"approve", "pay", "transfer", "issue", "void"},
             Open(k, p, a, s)
      PROVE  TypeOK'
  <2> p \in 0 .. MaxPayouts
    BY ConstantsAssumption DEF PayoutId
  <2>1. job' \in [Call -> Job]
    BY <1>3 DEF Open, TypeOK, Job
  <2>2. pc' \in [Call -> Step]
    BY <1>3, GotoFrame DEF Open, Step
  <2>3. QED
    BY <1>3, <2>1, <2>2 DEF Open, TypeOK
<1>4. ASSUME NEW k \in Call, Compute(k) PROVE TypeOK'
  <2>1. job' \in [Call -> Job]
    BY <1>4, ConstantsAssumption DEF Compute, TypeOK, Job
  <2>2. pc' \in [Call -> Step]
    BY <1>4, GotoFrame DEF Compute, Step
  <2>3. QED
    BY <1>4, <2>1, <2>2 DEF Compute, TypeOK
<1>5. ASSUME NEW k \in Call, CreatePayout(k) PROVE TypeOK'
  <2> DEFINE row == [period |-> job[k].period, orders |-> job[k].orders,
                     net |-> NetOf(job[k].orders), status |-> "PENDING",
                     rail |-> FALSE, known |-> job[k].known]
  <2>1. job[k] \in Job
    BY DEF TypeOK
  <2>2. row \in Payout
    <3> HIDE DEF NetOf
    <3>1. QED
      BY <2>1 DEF Payout, Job, Status
  <2>3. payouts' = Append(payouts, row) /\ Len(payouts) < MaxPayouts
    BY <1>5 DEF CreatePayout
  <2> HIDE DEF row
  <2>4. payouts' \in Seq(Payout) /\ Len(payouts') <= MaxPayouts
    BY <2>2, <2>3, ConstantsAssumption DEF TypeOK
  <2>5. End(k) /\ UNCHANGED <<paid, documents, counter, counterLock, moneyVars,
                             historyVars>>
    BY <1>5 DEF CreatePayout
  <2>6. QED
    BY <2>4, <2>5, EndFrame DEF TypeOK
<1>6. ASSUME NEW k \in Call, Approve(k) \/ Pay(k) PROVE TypeOK'
  <2>1. job[k].payout \in Rows /\ job[k].payout \in PayoutId
    BY <1>6, RowsTyped DEF RowsExist, AboutRow, Approve, Pay
  <2>2. RowsKept /\ overwritten' \subseteq PayoutId
    <3>1. CASE Approve(k)
      BY <2>1, <3>1, OverwriteFrame DEF Approve, Status, TypeOK
    <3>2. CASE Pay(k)
      BY <2>1, <3>2, OverwriteFrame DEF Pay, Status, TypeOK
    <3>3. QED
      BY <1>6, <3>1, <3>2
  <2>3. byHand' \in [PayoutId -> Nat]
    BY <1>6, <2>1 DEF Approve, Pay, TypeOK
  <2>4. End(k) /\ UNCHANGED <<paid, documents, counter, counterLock, transfers,
                             conflicts, lost>>
    BY <1>6 DEF Approve, Pay
  <2>5. QED
    BY <2>2, <2>3, <2>4, EndFrame DEF TypeOK, RowsKept
<1>7. ASSUME NEW k \in Call, Transfer(k) PROVE TypeOK'
  <2>1. job[k].payout \in PayoutId
    BY <1>7, RowsTyped DEF RowsExist, AboutRow, Transfer
  <2>2. pc' \in [Call -> Step] /\ job' \in [Call -> Job]
    <3>1. CASE End(k)
      BY <3>1, EndFrame
    <3>2. CASE Goto(k, "claim") /\ UNCHANGED job
      BY <3>2, GotoFrame DEF Step, TypeOK
    <3>3. QED
      BY <1>7, <3>1, <3>2 DEF Transfer
  <2>3. transfers' \subseteq PayoutId /\ lost' \subseteq PayoutId
    BY <1>7, <2>1 DEF Transfer, TypeOK
  <2>4. UNCHANGED <<paid, rowVars, byHand, conflicts, overwritten>>
    BY <1>7 DEF Transfer
  <2>5. QED
    BY <2>2, <2>3, <2>4 DEF TypeOK
<1>8. ASSUME NEW k \in Call, ClaimPayout(k) PROVE TypeOK'
  <2>1. job[k].payout \in Rows
    BY <1>8 DEF RowsExist, AboutRow, ClaimPayout
  <2>2. CASE payouts[job[k].payout].status = "APPROVED"
    BY <1>8, <2>1, <2>2, ClaimFrame, EndFrame DEF ClaimPayout, TypeOK, RowsKept
  <2>3. CASE payouts[job[k].payout].status # "APPROVED"
    <3>1. Goto(k, "conflict") /\ UNCHANGED <<payouts, job>>
      BY <1>8, <2>3 DEF ClaimPayout
    <3>2. pc' \in [Call -> Step]
      BY <3>1, GotoFrame DEF Step
    <3>3. QED
      BY <1>8, <3>1, <3>2 DEF ClaimPayout, TypeOK
  <2>4. QED
    BY <2>2, <2>3
<1>9. ASSUME NEW k \in Call, AuditConflict(k) PROVE TypeOK'
  <2>1. job[k].payout \in PayoutId
    BY <1>9, RowsTyped DEF RowsExist, AboutRow, AuditConflict
  <2>2. QED
    BY <1>9, <2>1, EndFrame DEF AuditConflict, TypeOK
<1>10. ASSUME NEW k \in Call, Issue(k) PROVE TypeOK'
  <2>1. pc' \in [Call -> Step] /\ job' \in [Call -> Job]
    <3>1. CASE End(k)
      BY <3>1, EndFrame
    <3>2. CASE Goto(k, "takeFolio") /\ UNCHANGED job
      BY <3>2, GotoFrame DEF Step, TypeOK
    <3>3. QED
      BY <1>10, <3>1, <3>2 DEF Issue
  <2>2. QED
    BY <1>10, <2>1 DEF Issue, TypeOK
<1>11. ASSUME NEW k \in Call, TakeFolio(k) PROVE TypeOK'
  <2>1. job' \in [Call -> Job]
    BY <1>11 DEF TakeFolio, TypeOK, Job
  <2>2. pc' \in [Call -> Step]
    BY <1>11, GotoFrame DEF TakeFolio, Step
  <2>3. QED
    BY <1>11, <2>1, <2>2 DEF TakeFolio, TypeOK
<1>12. ASSUME NEW k \in Call, Insert(k) PROVE TypeOK'
  <2>1. job[k].payout \in PayoutId /\ job[k].folio \in Nat
    BY <1>12 DEF RowsExist, AboutRow, Insert, Rows, PayoutId, TypeOK, Job
  <2>2. documents' \in [PayoutId -> Document] /\ counter' \in Nat \ {0}
    BY <1>12, <2>1 DEF Insert, TypeOK, Document
  <2>3. counterLock' \in Call \cup {NoCall}
    BY <1>12 DEF Insert, Unlocked, TypeOK
  <2>4. End(k) /\ UNCHANGED <<paid, payouts, moneyVars, historyVars>>
    BY <1>12 DEF Insert
  <2>5. QED
    BY <2>2, <2>3, <2>4, EndFrame DEF TypeOK
<1>13. ASSUME NEW k \in Call, Void(k) PROVE TypeOK'
  <2>1. job[k].payout \in PayoutId
    BY <1>13, RowsTyped DEF RowsExist, AboutRow, Void
  <2>2. documents' \in [PayoutId -> Document]
    BY <1>13, <2>1 DEF Void, TypeOK, Document
  <2>3. QED
    BY <1>13, <2>2, EndFrame DEF Void, TypeOK
<1>14. ASSUME NEW k \in Call, Crash(k) PROVE TypeOK'
  <2>1. pc[k] \in {"claim", "conflict"} => job[k].payout \in PayoutId
    BY RowsTyped DEF RowsExist, AboutRow
  <2>2. counterLock' \in Call \cup {NoCall} /\ lost' \subseteq PayoutId
    BY <1>14, <2>1 DEF Crash, Unlocked, TypeOK
  <2>3. End(k) /\ UNCHANGED <<paid, payouts, documents, counter, moneyVars,
                             overwritten>>
    BY <1>14 DEF Crash
  <2>4. QED
    BY <2>2, <2>3, EndFrame DEF TypeOK
<1>15. QED
  BY Steps, <1>1, <1>2, <1>3, <1>4, <1>5, <1>6, <1>7, <1>8, <1>9, <1>10,
     <1>11, <1>12, <1>13, <1>14

-----------------------------------------------------------------------------
\* The rows only grow, and only by CreatePayout.
LEMMA RowsGrow ==
    ASSUME TypeOK, RowsExist, Next
    PROVE  \/ RowsKept
           \/ \E k \in Call : CreatePayout(k)
<1>1. payouts \in Seq(Payout)
  BY DEF TypeOK
<1>2. UNCHANGED payouts => RowsKept
  BY <1>1 DEF RowsKept
<1>3. ASSUME NEW k \in Call, Approve(k) \/ Pay(k) PROVE RowsKept
  <2>1. job[k].payout \in Rows
    BY <1>3 DEF RowsExist, AboutRow, Approve, Pay
  <2>2. QED
    BY <1>3, <2>1, OverwriteFrame DEF Approve, Pay, Status
<1>4. ASSUME NEW k \in Call, ClaimPayout(k) PROVE RowsKept
  <2>1. job[k].payout \in Rows
    BY <1>4 DEF RowsExist, AboutRow, ClaimPayout
  <2>2. QED
    BY <1>2, <1>4, <2>1, ClaimFrame DEF ClaimPayout
<1> USE DEF rowVars
<1>5. QED
  BY Steps, <1>2, <1>3, <1>4
     DEF OrderPaid, FindPayout, Open, Compute, Transfer, AuditConflict,
         Issue, TakeFolio, Insert, Void, Crash

\* What CreatePayout appends.
LEMMA CreateFrame ==
    ASSUME TypeOK, NEW k \in Call, CreatePayout(k)
    PROVE  LET n == Len(payouts) + 1 IN
           /\ Len(payouts') = n
           /\ n \in PayoutId
           /\ \A i \in Rows : payouts'[i] = payouts[i]
           /\ payouts'[n].period = job[k].period
           /\ payouts'[n].status = "PENDING"
           /\ payouts'[n].known = job[k].known
           /\ payouts'[n].orders = job[k].orders
           /\ payouts'[n].net = NetOf(job[k].orders)
<1> DEFINE row == [period |-> job[k].period, orders |-> job[k].orders,
                   net |-> NetOf(job[k].orders), status |-> "PENDING",
                   rail |-> FALSE, known |-> job[k].known]
<1>1. row.period = job[k].period /\ row.status = "PENDING"
        /\ row.known = job[k].known /\ row.orders = job[k].orders
        /\ row.net = NetOf(job[k].orders)
  OBVIOUS
<1>2. payouts' = Append(payouts, row) /\ Len(payouts) < MaxPayouts
  BY DEF CreatePayout
<1> HIDE DEF row
<1>3. payouts \in Seq(Payout) /\ Len(payouts) \in Nat
  BY DEF TypeOK
<1>4. /\ Len(payouts') = Len(payouts) + 1
      /\ payouts'[Len(payouts) + 1] = row
      /\ \A i \in 1 .. Len(payouts) : payouts'[i] = payouts[i]
  BY <1>2, <1>3
<1>5. QED
  BY <1>1, <1>2, <1>3, <1>4, ConstantsAssumption DEF Rows, PayoutId

\* What a step of the system can do to one request.
CallStep(j) ==
    \/ pc'[j] = pc[j] /\ job'[j] = job[j]
    \/ pc'[j] = "idle"
    \/ /\ pc[j] = "idle" /\ pc'[j] = "compute"
       /\ job'[j].known = Len(payouts)
       /\ \A p \in Rows : payouts[p].period # job'[j].period
    \/ /\ pc[j] = "compute" /\ pc'[j] = "create"
       /\ job'[j].known = job[j].known /\ job'[j].period = job[j].period
    \/ /\ pc[j] = "idle"
       /\ pc'[j] \in {"approve", "pay", "transfer", "issue", "void"}
       /\ job'[j].payout \in Rows
       /\ pc'[j] = "void" => Issued(job'[j].payout)
    \/ /\ <<pc[j], pc'[j]>> \in {<<"transfer", "claim">>,
                                <<"claim", "conflict">>,
                                <<"issue", "takeFolio">>}
       /\ job'[j] = job[j]
    \/ /\ pc[j] = "takeFolio" /\ pc'[j] = "insert"
       /\ job'[j].payout = job[j].payout /\ job'[j].folio = counter
       /\ counterLock = NoCall /\ counterLock' = j

LEMMA CallSteps == TypeOK /\ Next => \A j \in Call : CallStep(j)
<1> SUFFICES ASSUME TypeOK, Next, NEW j \in Call PROVE CallStep(j)
  OBVIOUS
<1> USE DEF rowVars, moneyVars, historyVars
<1>1. ASSUME NEW o \in Order, OrderPaid(o) PROVE CallStep(j)
  BY <1>1 DEF OrderPaid, CallStep
<1>2. ASSUME NEW k \in Call, NEW d \in Period, FindPayout(k, d)
      PROVE  CallStep(j)
  <2>1. CASE UNCHANGED <<pc, job>>
    BY <2>1 DEF CallStep
  <2>2. CASE ~UNCHANGED <<pc, job>>
    <3>1. /\ \A p \in Rows : payouts[p].period # d
          /\ pc[k] = "idle" /\ Goto(k, "compute")
          /\ job' = [job EXCEPT ![k].period = d, ![k].known = Len(payouts)]
      BY <1>2, <2>2 DEF FindPayout
    <3>2. CASE j = k
      BY <3>1, <3>2 DEF Goto, TypeOK, Job, CallStep
    <3>3. CASE j # k
      BY <3>1, <3>3 DEF Goto, TypeOK, CallStep
    <3>4. QED
      BY <3>2, <3>3
  <2>3. QED
    BY <2>1, <2>2
<1>3. ASSUME NEW k \in Call, NEW p \in PayoutId, NEW a \in SUBSET Status,
             NEW s \in {"approve", "pay", "transfer", "issue", "void"},
             Open(k, p, a, s), s = "void" => Issued(p)
      PROVE  CallStep(j)
  <2>1. CASE j = k
    BY <1>3, <2>1 DEF Open, Goto, TypeOK, Job, CallStep
  <2>2. CASE j # k
    BY <1>3, <2>2 DEF Open, Goto, TypeOK, CallStep
  <2>3. QED
    BY <2>1, <2>2
<1>4. ASSUME NEW k \in Call, End(k) PROVE CallStep(j)
  BY <1>4, EndFrame DEF CallStep
<1>5. ASSUME NEW k \in Call, Compute(k) PROVE CallStep(j)
  <2>1. CASE j = k
    BY <1>5, <2>1 DEF Compute, Goto, TypeOK, Job, CallStep
  <2>2. CASE j # k
    BY <1>5, <2>2 DEF Compute, Goto, TypeOK, CallStep
  <2>3. QED
    BY <2>1, <2>2
<1>6. ASSUME NEW k \in Call, Transfer(k) \/ ClaimPayout(k) \/ Issue(k), ~End(k)
      PROVE  CallStep(j)
  <2>1. /\ UNCHANGED job
        /\ \/ pc[k] = "transfer" /\ Goto(k, "claim")
           \/ pc[k] = "claim" /\ Goto(k, "conflict")
           \/ pc[k] = "issue" /\ Goto(k, "takeFolio")
    BY <1>6 DEF Transfer, ClaimPayout, Issue
  <2>2. QED
    BY <2>1 DEF Goto, TypeOK, CallStep
<1>7. ASSUME NEW k \in Call, TakeFolio(k) PROVE CallStep(j)
  <2>1. CASE j = k
    BY <1>7, <2>1 DEF TakeFolio, Goto, TypeOK, Job, CallStep
  <2>2. CASE j # k
    BY <1>7, <2>2 DEF TakeFolio, Goto, TypeOK, CallStep
  <2>3. QED
    BY <2>1, <2>2
<1>8. QED
  BY Steps, <1>1, <1>2, <1>3, <1>4, <1>5, <1>6, <1>7
     DEF CreatePayout, Approve, Pay, AuditConflict, Insert, Void, Crash

\* A request is about a row that exists, before and after every action.
LEMMA RowsStep == TypeOK /\ RowsExist /\ Next => RowsExist'
<1> SUFFICES ASSUME TypeOK, RowsExist, Next PROVE RowsExist'
  OBVIOUS
<1> USE DEF rowVars, moneyVars, historyVars
<1>1. Rows \subseteq Rows' /\ Rows' \subseteq PayoutId
  <2>1. TypeOK'
    BY TypeStep
  <2>2. Rows' \subseteq PayoutId
    <3>1. Len(payouts') \in Nat /\ Len(payouts') <= MaxPayouts
      BY <2>1 DEF TypeOK
    <3>2. QED
      BY <3>1, ConstantsAssumption DEF Rows, PayoutId
  <2>3. CASE RowsKept
    BY <2>2, <2>3 DEF RowsKept, Rows
  <2>4. ASSUME NEW k \in Call, CreatePayout(k) PROVE Rows \subseteq Rows'
    BY <2>4, CreateFrame, RowsTyped DEF Rows
  <2>5. QED
    BY <2>2, <2>3, <2>4, RowsGrow
<1>2. ASSUME NEW j \in Call, pc'[j] \in AboutRow
      PROVE  job'[j].payout \in Rows
  <2>1. CallStep(j)
    BY CallSteps
  <2>2. pc[j] \in AboutRow => job[j].payout \in Rows
    BY DEF RowsExist
  <2>3. QED
    BY <1>2, <2>1, <2>2 DEF CallStep, AboutRow
<1>3. \A p \in PayoutId \ Rows' : byHand'[p] = 0 /\ p \notin transfers'
  <2>1. ASSUME NEW k \in Call, Pay(k) \/ Transfer(k)
        PROVE  job[k].payout \in Rows
    BY <2>1 DEF RowsExist, AboutRow, Pay, Transfer
  <2>2. \/ UNCHANGED <<byHand, transfers>>
        \/ \E k \in Call : Pay(k) \/ Transfer(k)
    BY Steps DEF OrderPaid, FindPayout, Open, Compute, CreatePayout, Approve,
                 ClaimPayout, AuditConflict, Issue, TakeFolio, Insert, Void,
                 Crash
  <2>3. \A p \in PayoutId \ Rows : byHand'[p] = 0 /\ p \notin transfers'
    BY <2>1, <2>2 DEF Pay, Transfer, TypeOK, RowsExist
  <2>4. QED
    BY <1>1, <2>3
<1>4. QED
  BY <1>1, <1>2, <1>3 DEF RowsExist

-----------------------------------------------------------------------------
\* A generation still knows of every payout of its period that it counted,
\* and any later one has a higher number.
LEMMA SawStep ==
    TypeOK /\ RowsExist /\ SawItsPeriod /\ Next => SawItsPeriod'
<1> SUFFICES ASSUME TypeOK, RowsExist, SawItsPeriod, Next,
                    NEW j \in Call, pc'[j] \in {"compute", "create"}
             PROVE  /\ job'[j].known <= Len(payouts')
                    /\ \A p \in Rows' : payouts'[p].period = job'[j].period
                                          => job'[j].known < p
  BY DEF SawItsPeriod
<1>1. Len(payouts) \in Nat
  BY RowsTyped
<1>2. /\ job'[j].known \in Nat /\ job'[j].known <= Len(payouts)
      /\ \A p \in Rows : payouts[p].period = job'[j].period =>
                             job'[j].known < p
  <2>1. CallStep(j)
    BY CallSteps
  <2>2. job'[j].known \in Nat
    BY TypeStep, ConstantsAssumption DEF TypeOK, Job
  <2>3. QED
    BY <1>1, <2>1, <2>2 DEF CallStep, SawItsPeriod
<1>3. CASE RowsKept
  BY <1>2, <1>3 DEF RowsKept, Rows
<1>4. ASSUME NEW k \in Call, CreatePayout(k)
      PROVE  /\ job'[j].known <= Len(payouts')
             /\ \A p \in Rows' : payouts'[p].period = job'[j].period
                                   => job'[j].known < p
  BY <1>1, <1>2, <1>4, CreateFrame DEF Rows
<1>5. QED
  BY <1>3, <1>4, RowsGrow

\* A payout is created with the net of its orders, and keeps both.
LEMMA NetStep ==
    TypeOK /\ RowsExist /\ NetIsOfItsOrders /\ Next => NetIsOfItsOrders'
<1> SUFFICES ASSUME TypeOK, RowsExist, NetIsOfItsOrders, Next
             PROVE  NetIsOfItsOrders'
  OBVIOUS
<1>1. CASE RowsKept
  <2>1. Rows' = Rows
    BY <1>1 DEF RowsKept, Rows
  <2>2. QED
    BY <1>1, <2>1 DEF RowsKept, NetIsOfItsOrders
<1>2. ASSUME NEW k \in Call, CreatePayout(k)
      PROVE  NetIsOfItsOrders'
  <2>1. LET n == Len(payouts) + 1 IN
        /\ Len(payouts') = n
        /\ \A i \in Rows : payouts'[i] = payouts[i]
        /\ payouts'[n].orders = job[k].orders
        /\ payouts'[n].net = NetOf(job[k].orders)
    BY <1>2, CreateFrame
  <2>2. \A i \in Rows' : i \in Rows \/ i = Len(payouts) + 1
    BY <2>1, RowsTyped DEF Rows
  <2>3. QED
    BY <2>1, <2>2 DEF NetIsOfItsOrders
<1>3. QED
  BY <1>1, <1>2, RowsGrow

\* The payout that is created is either of a period of its own, or was
\* looked for before the others of its period existed.
LEMMA TwiceStep ==
    /\ TypeOK /\ RowsExist /\ SawItsPeriod /\ LiquidatedTwiceOnlyByRaces
    /\ Next
    => LiquidatedTwiceOnlyByRaces'
<1> SUFFICES ASSUME TypeOK, RowsExist, SawItsPeriod,
                    LiquidatedTwiceOnlyByRaces, Next
             PROVE  LiquidatedTwiceOnlyByRaces'
  OBVIOUS
<1>1. CASE RowsKept
  BY <1>1 DEF RowsKept, Rows, LiquidatedTwiceOnlyByRaces
<1>2. ASSUME NEW k \in Call, CreatePayout(k)
      PROVE  LiquidatedTwiceOnlyByRaces'
  <2> SUFFICES ASSUME NEW p \in Rows', NEW q \in Rows', p < q,
                      payouts'[p].orders \cap payouts'[q].orders # {},
                      payouts'[p].period = payouts'[q].period
               PROVE  payouts'[q].known < p
    BY DEF LiquidatedTwiceOnlyByRaces
  <2>1. Len(payouts) \in Nat
    BY RowsTyped
  <2>2. p \in Rows
    BY <1>2, <2>1, CreateFrame DEF Rows
  <2>3. CASE q \in Rows
    BY <1>2, <2>2, <2>3, CreateFrame DEF LiquidatedTwiceOnlyByRaces
  <2>4. CASE q \notin Rows
    <3>1. q = Len(payouts) + 1
      BY <1>2, <2>1, <2>4, CreateFrame DEF Rows
    <3>2. pc[k] = "create"
      BY <1>2 DEF CreatePayout
    <3>3. QED
      BY <1>2, <2>2, <3>1, <3>2, CreateFrame DEF SawItsPeriod
  <2>5. QED
    BY <2>3, <2>4
<1>3. QED
  BY <1>1, <1>2, RowsGrow

-----------------------------------------------------------------------------
\* Only the transaction that inserts advances the counter, and only the one
\* that holds the row of the counter takes a folio.
LEMMA FolioStep ==
    TypeOK /\ RowsExist /\ FolioIsHeld /\ Next => FolioIsHeld'
<1> SUFFICES ASSUME TypeOK, RowsExist, FolioIsHeld, Next,
                    NEW j \in Call, pc'[j] = "insert"
             PROVE  counterLock' = j /\ job'[j].folio = counter'
  BY DEF FolioIsHeld
<1> USE DEF rowVars, moneyVars, historyVars
<1>1. CallStep(j)
  BY CallSteps
<1>2. counterLock # NoCall => counterLock \in Call
  BY DEF TypeOK
<1>3. ASSUME NEW k \in Call, Insert(k) PROVE FALSE
  <2>1. pc[k] = "insert" /\ counterLock = k /\ pc'[k] = "idle"
    BY <1>3, EndFrame DEF Insert, FolioIsHeld
  <2>2. QED
    BY <1>1, <2>1, ConstantsAssumption DEF CallStep, FolioIsHeld
<1>4. ASSUME NEW k \in Call, TakeFolio(k)
      PROVE  counterLock' = j /\ job'[j].folio = counter'
  BY <1>1, <1>4, ConstantsAssumption DEF TakeFolio, CallStep, FolioIsHeld
<1>5. ASSUME NEW k \in Call, Crash(k)
      PROVE  counterLock' = j /\ job'[j].folio = counter'
  <2>1. pc'[k] = "idle" /\ j # k
    BY <1>5, EndFrame DEF Crash
  <2>2. pc'[j] = pc[j] /\ job'[j] = job[j]
    BY <1>5, <2>1, EndFrame DEF Crash
  <2>3. QED
    BY <1>5, <2>1, <2>2 DEF Crash, Unlocked, FolioIsHeld
<1>6. CASE UNCHANGED <<counter, counterLock>>
  BY <1>1, <1>6, ConstantsAssumption DEF CallStep, FolioIsHeld
<1>7. QED
  BY Steps, <1>3, <1>4, <1>5, <1>6
     DEF OrderPaid, FindPayout, Open, Compute, CreatePayout, Approve, Pay,
         Transfer, ClaimPayout, AuditConflict, Issue, Void

\* A document that exists is neither removed nor left without a status.
LEMMA DocumentStep ==
    TypeOK /\ RowsExist /\ DocumentsExist /\ Next => DocumentsExist'
<1> SUFFICES ASSUME TypeOK, RowsExist, DocumentsExist, Next
             PROVE  DocumentsExist'
  OBVIOUS
<1> USE DEF rowVars, moneyVars, historyVars
<1>1. /\ \A p \in PayoutId : Issued(p) => documents'[p] # NoDocument
      /\ \A p \in PayoutId : documents'[p] # NoDocument =>
                               documents'[p].status # "none"
  <2>1. CASE UNCHANGED documents
    BY <2>1 DEF DocumentsExist, Issued
  <2>2. ASSUME NEW k \in Call, Insert(k), ~UNCHANGED documents
        PROVE  documents' = [documents EXCEPT ![job[k].payout] =
                   [folio |-> job[k].folio, status |-> "ISSUED"]]
    BY <2>2 DEF Insert
  <2>3. ASSUME NEW k \in Call, Insert(k), ~UNCHANGED documents PROVE <1>1!1 /\ <1>1!2
    <3> DEFINE new == [folio |-> job[k].folio, status |-> "ISSUED"]
    <3>1. new # NoDocument /\ new.status # "none"
      BY DEF NoDocument
    <3>2. documents' = [documents EXCEPT ![job[k].payout] = new]
      BY <2>2, <2>3
    <3> HIDE DEF new
    <3>3. \A p \in PayoutId : documents'[p] = new \/ documents'[p] = documents[p]
      BY <3>2 DEF TypeOK
    <3>4. QED
      BY <3>1, <3>3 DEF DocumentsExist, Issued
  <2>4. ASSUME NEW k \in Call, Void(k) PROVE <1>1!1 /\ <1>1!2
    <3>1. job[k].payout \in PayoutId /\ Issued(job[k].payout)
      BY <2>4, RowsTyped DEF Void, DocumentsExist, RowsExist, AboutRow
    <3>2. documents' = [documents EXCEPT ![job[k].payout].status = "VOID"]
      BY <2>4 DEF Void
    <3>3. QED
      BY <3>1, <3>2 DEF DocumentsExist, Issued, TypeOK, NoDocument, Document
  <2>5. QED
    BY Steps, <2>1, <2>3, <2>4
       DEF OrderPaid, FindPayout, Open, Compute, CreatePayout, Approve, Pay,
           Transfer, ClaimPayout, AuditConflict, Issue, TakeFolio, Crash
<1>2. ASSUME NEW j \in Call, pc'[j] = "void" PROVE Issued(job'[j].payout)
  <2>1. CallStep(j)
    BY CallSteps
  <2>2. QED
    BY <1>2, <2>1 DEF CallStep, DocumentsExist
<1>3. ASSUME NEW j \in Call, pc'[j] = "void" PROVE job'[j].payout \in PayoutId
  <2>1. TypeOK' /\ RowsExist'
    BY TypeStep, RowsStep
  <2>2. job'[j].payout \in Rows'
    BY <1>3, <2>1 DEF RowsExist, AboutRow
  <2>3. Len(payouts') \in Nat /\ Len(payouts') <= MaxPayouts
    BY <2>1 DEF TypeOK
  <2>4. QED
    BY <2>2, <2>3, ConstantsAssumption DEF Rows, PayoutId
<1>4. QED
  BY <1>1, <1>2, <1>3 DEF DocumentsExist, Issued

\* A new document takes the next number, and nothing else changes a number.
LEMMA GaplessStep ==
    /\ TypeOK /\ RowsExist /\ FolioIsHeld /\ DocumentsExist
    /\ FoliosAreGapless /\ Next
    => FoliosAreGapless'
<1> SUFFICES ASSUME TypeOK, RowsExist, FolioIsHeld, DocumentsExist,
                    FoliosAreGapless, Next
             PROVE  FoliosAreGapless'
  OBVIOUS
<1> USE DEF rowVars, moneyVars, historyVars
<1> DEFINE issued == {p \in PayoutId : documents[p] # NoDocument}
<1>1. /\ {documents[p].folio : p \in issued} = 1 .. counter - 1
      /\ \A p, q \in issued :
            documents[p].folio = documents[q].folio => p = q
  BY DEF FoliosAreGapless
<1>2. CASE UNCHANGED <<documents, counter>>
  BY <1>2 DEF FoliosAreGapless
<1>3. ASSUME NEW k \in Call, Insert(k),
             documents[job[k].payout] = NoDocument
      PROVE  FoliosAreGapless'
  <2> DEFINE d == job[k].payout
             new == [folio |-> counter, status |-> "ISSUED"]
  <2>1. d \in PayoutId /\ job[k].folio = counter /\ counterLock = k
    BY <1>3, RowsTyped DEF Insert, FolioIsHeld, RowsExist, AboutRow
  <2>2. documents' = [documents EXCEPT ![d] = new] /\ counter' = counter + 1
    BY <1>3, <2>1 DEF Insert
  <2>3. new # NoDocument /\ new.folio = counter
    BY DEF NoDocument
  <2> HIDE DEF new
  <2>4. {p \in PayoutId : documents'[p] # NoDocument} = issued \cup {d}
    BY <2>1, <2>2, <2>3 DEF TypeOK
  <2>5. d \notin issued
    BY <1>3
  <2>6. \A p \in issued : documents'[p].folio = documents[p].folio
    BY <2>1, <2>2, <2>5 DEF TypeOK
  <2>7. documents'[d].folio = counter
    BY <2>1, <2>2, <2>3 DEF TypeOK
  <2> HIDE DEF issued, d
  <2>8. counter \in Nat \ {0}
    BY DEF TypeOK
  <2>9. \A p \in issued : documents[p].folio \in 1 .. counter - 1
    BY <1>1
  <2>10. {documents'[p].folio : p \in issued \cup {d}} = 1 .. counter' - 1
    <3>1. {documents'[p].folio : p \in issued \cup {d}}
            = {documents[p].folio : p \in issued} \cup {counter}
      BY <2>6, <2>7
    <3>2. (1 .. counter - 1) \cup {counter} = 1 .. counter' - 1
      BY <2>2, <2>8
    <3>3. QED
      BY <1>1, <3>1, <3>2
  <2>11. \A p, q \in issued \cup {d} :
            documents'[p].folio = documents'[q].folio => p = q
    BY <1>1, <2>6, <2>7, <2>8, <2>9
  <2>12. QED
    BY <2>4, <2>10, <2>11 DEF FoliosAreGapless
<1>4. ASSUME NEW k \in Call, Void(k) PROVE FoliosAreGapless'
  <2> DEFINE d == job[k].payout
  <2>1. d \in issued
    BY <1>4, RowsTyped DEF Void, DocumentsExist, RowsExist, AboutRow, Issued
  <2>2. documents' = [documents EXCEPT ![d].status = "VOID"]
          /\ counter' = counter
    BY <1>4 DEF Void
  <2>3. \A p \in PayoutId : documents'[p].folio = documents[p].folio
    BY <2>2 DEF TypeOK, Document
  <2>4. {p \in PayoutId : documents'[p] # NoDocument} = issued
    BY <2>1, <2>2 DEF TypeOK, Document, NoDocument
  <2> HIDE DEF d
  <2>5. QED
    BY <1>1, <2>2, <2>3, <2>4 DEF FoliosAreGapless
<1>5. QED
  BY Steps, <1>2, <1>3, <1>4
     DEF OrderPaid, FindPayout, Open, Compute, CreatePayout, Approve, Pay,
         Transfer, ClaimPayout, AuditConflict, Issue, TakeFolio, Insert,
         Crash

-----------------------------------------------------------------------------
\* What is irregular stays so.
LEMMA IrregularGrows == TypeOK /\ RowsExist /\ Next => Irregular \subseteq Irregular'
<1> SUFFICES ASSUME TypeOK, RowsExist, Next PROVE Irregular \subseteq Irregular'
  OBVIOUS
<1> USE DEF Irregular, rowVars, moneyVars, historyVars
<1>1. QED
  BY Steps
     DEF OrderPaid, FindPayout, Open, Compute, CreatePayout, Approve, Pay,
         Transfer, ClaimPayout, AuditConflict, Issue, TakeFolio, Insert,
         Void, Crash, Overwrite

\* A payout stops being in flight only when its transfer is recorded, or
\* something went wrong.
LEMMA LandStep ==
    ASSUME TypeOK, RowsExist, Next, NEW p \in Rows, InFlight(p),
           ~InFlight(p)', p \notin Irregular'
    PROVE  \E k \in Call : /\ ClaimPayout(k) /\ job[k].payout = p
                           /\ payouts[p].status = "APPROVED"
<1> USE DEF rowVars, moneyVars, historyVars
<1>1. PICK j \in Call : pc[j] \in {"claim", "conflict"} /\ job[j].payout = p
  BY DEF InFlight
<1>2. ~(pc'[j] \in {"claim", "conflict"} /\ job'[j].payout = p)
  BY DEF InFlight
<1>3. CallStep(j)
  BY CallSteps
<1>4. pc'[j] = "idle"
  BY <1>1, <1>2, <1>3 DEF CallStep
<1>5. ASSUME NEW k \in Call, End(k) PROVE j = k
  BY <1>1, <1>4, <1>5, EndFrame
<1>6. QED
  BY Steps, <1>1, <1>4, <1>5
     DEF OrderPaid, FindPayout, Open, Compute, CreatePayout, Approve, Pay,
         Transfer, ClaimPayout, AuditConflict, Issue, TakeFolio, Insert,
         Void, Crash, Irregular, Goto, TypeOK

\* What a step does to a row that exists and to its money.
LEMMA PayoutStep ==
    ASSUME TypeOK, RowsExist, Next, NEW p \in Rows
    PROVE  /\ \/ payouts'[p].status = payouts[p].status
              \/ \E k \in Call : /\ job[k].payout = p
                                 /\ Approve(k) \/ Pay(k) \/ ClaimPayout(k)
           /\ \/ byHand'[p] = byHand[p]
              \/ \E k \in Call : job[k].payout = p /\ Pay(k)
           /\ \/ (p \in transfers' <=> p \in transfers)
              \/ \E k \in Call : job[k].payout = p /\ Transfer(k)
<1> USE DEF rowVars, moneyVars, historyVars
<1>1. ASSUME NEW k \in Call, Approve(k) \/ Pay(k) \/ ClaimPayout(k),
             job[k].payout # p
      PROVE  payouts'[p].status = payouts[p].status
  <2>1. job[k].payout \in Rows
    BY <1>1 DEF RowsExist, AboutRow, Approve, Pay, ClaimPayout
  <2>2. QED
    BY <1>1, <2>1, OverwriteFrame, ClaimFrame
       DEF Approve, Pay, ClaimPayout, Status
<1>2. ASSUME NEW k \in Call, CreatePayout(k)
      PROVE  payouts'[p].status = payouts[p].status
  BY <1>2, CreateFrame
<1>3. \/ payouts'[p].status = payouts[p].status
      \/ \E k \in Call : /\ job[k].payout = p
                         /\ Approve(k) \/ Pay(k) \/ ClaimPayout(k)
  BY Steps, <1>1, <1>2
     DEF OrderPaid, FindPayout, Open, Compute, Transfer, AuditConflict,
         Issue, TakeFolio, Insert, Void, Crash
<1>4. \/ byHand'[p] = byHand[p]
      \/ \E k \in Call : job[k].payout = p /\ Pay(k)
  <2>1. ASSUME NEW k \in Call, Pay(k), job[k].payout # p
        PROVE  byHand'[p] = byHand[p]
    BY <2>1, RowsTyped DEF Pay, TypeOK
  <2>2. byHand' = byHand \/ \E k \in Call : Pay(k)
    BY Steps
       DEF OrderPaid, FindPayout, Open, Compute, CreatePayout, Approve,
           Transfer, ClaimPayout, AuditConflict, Issue, TakeFolio, Insert,
           Void, Crash
  <2>3. QED
    BY <2>1, <2>2
<1>5. \/ (p \in transfers' <=> p \in transfers)
      \/ \E k \in Call : job[k].payout = p /\ Transfer(k)
  BY Steps
     DEF OrderPaid, FindPayout, Open, Compute, CreatePayout, Approve, Pay,
         Transfer, ClaimPayout, AuditConflict, Issue, TakeFolio, Insert,
         Void, Crash
<1>6. QED
  BY <1>3, <1>4, <1>5

\* No money has moved for a payout that has just been created.
LEMMA NewPayout ==
    ASSUME TypeOK, RowsExist, Next, NEW p \in Rows', p \notin Rows
    PROVE  /\ payouts'[p].status = "PENDING"
           /\ byHand'[p] = 0 /\ p \notin transfers'
<1>1. ASSUME RowsKept PROVE FALSE
  BY <1>1 DEF RowsKept, Rows
<1>2. PICK k \in Call : CreatePayout(k)
  BY <1>1, RowsGrow
<1>3. p = Len(payouts) + 1 /\ p \in PayoutId
  <2>1. Len(payouts) \in Nat
    BY RowsTyped
  <2>2. QED
    BY <1>2, <2>1, CreateFrame DEF Rows
<1>4. QED
  BY <1>2, <1>3, CreateFrame DEF CreatePayout, RowsExist, moneyVars

\* A payout that a request approves or pays by hand, without overwriting
\* anything, is in the state that the request has read.
LEMMA SeenStep ==
    ASSUME TypeOK, RowsExist, NEW k \in Call,
           job[k].payout \notin Irregular'
    PROVE  /\ Approve(k) => /\ payouts[job[k].payout].status = "PENDING"
                            /\ payouts'[job[k].payout].status = "APPROVED"
           /\ Pay(k) => /\ payouts[job[k].payout].status = "APPROVED"
                        /\ payouts'[job[k].payout].status = "PAID"
                        /\ byHand'[job[k].payout] = byHand[job[k].payout] + 1
                        /\ UNCHANGED transfers
<1>1. Approve(k) \/ Pay(k) => job[k].payout \in Rows
  BY DEF RowsExist, AboutRow, Approve, Pay
<1>2. job[k].payout \notin overwritten'
  BY DEF Irregular
<1>3. Pay(k) => byHand'[job[k].payout] = byHand[job[k].payout] + 1
  BY <1>1, RowsTyped DEF Pay, TypeOK
<1>4. QED
  BY <1>1, <1>2, <1>3, OverwriteFrame DEF Approve, Pay, Status

\* A payout is paid by hand only as the step that makes it PAID.
LEMMA HandStep == TypeOK /\ RowsExist /\ HandFirst /\ Next => HandFirst'
<1> SUFFICES ASSUME TypeOK, RowsExist, HandFirst, Next,
                    NEW p \in Rows', p \notin Irregular',
                    payouts'[p].status # "PAID"
             PROVE  byHand'[p] = 0
  BY DEF HandFirst
<1>1. CASE p \notin Rows
  BY <1>1, NewPayout
<1>2. CASE p \in Rows
  <2>1. p \notin Irregular
    BY IrregularGrows
  <2>2. ASSUME NEW k \in Call, job[k].payout = p, Pay(k) PROVE FALSE
    BY <2>2, SeenStep
  <2>3. ASSUME NEW k \in Call, job[k].payout = p, ClaimPayout(k)
        PROVE  payouts[p].status # "PAID"
    BY <1>2, <2>3, ClaimFrame DEF ClaimPayout
  <2>4. ASSUME NEW k \in Call, job[k].payout = p, Approve(k)
        PROVE  payouts[p].status # "PAID"
    BY <2>4, SeenStep
  <2>5. payouts[p].status # "PAID" /\ byHand'[p] = byHand[p]
    <3>1. /\ \/ payouts'[p].status = payouts[p].status
             \/ \E k \in Call : /\ job[k].payout = p
                                /\ Approve(k) \/ Pay(k) \/ ClaimPayout(k)
          /\ \/ byHand'[p] = byHand[p]
             \/ \E k \in Call : job[k].payout = p /\ Pay(k)
      BY <1>2, PayoutStep
    <3>2. CASE payouts'[p].status = payouts[p].status
      BY <2>2, <3>1, <3>2
    <3>3. CASE payouts'[p].status # payouts[p].status
      <4>1. PICK k \in Call : /\ job[k].payout = p
                              /\ Approve(k) \/ Pay(k) \/ ClaimPayout(k)
        BY <3>1, <3>3
      <4>2. payouts[p].status # "PAID"
        BY <2>2, <2>3, <2>4, <4>1
      <4>3. QED
        BY <2>2, <3>1, <4>2
    <3>4. QED
      BY <3>2, <3>3
  <2>6. QED
    BY <1>2, <2>1, <2>5 DEF HandFirst
<1>3. QED
  BY <1>1, <1>2

\* Money leaves once between the approval of a payout and its record.
LEMMA MoneyStep ==
    TypeOK /\ RowsExist /\ HandFirst /\ MoneyIsRecorded /\ Next
    => MoneyIsRecorded'
<1> SUFFICES ASSUME TypeOK, RowsExist, HandFirst, MoneyIsRecorded, Next,
                    NEW p \in Rows', p \notin Irregular', ~InFlight(p)'
             PROVE  IF payouts'[p].status = "PAID"
                      THEN byHand'[p] + (IF p \in transfers' THEN 1 ELSE 0)
                             <= 1
                      ELSE byHand'[p] = 0 /\ p \notin transfers'
  BY DEF MoneyIsRecorded
<1>1. CASE p \notin Rows
  BY <1>1, NewPayout
<1>2. CASE p \in Rows /\ InFlight(p)
  <2>1. PICK k \in Call : /\ ClaimPayout(k) /\ job[k].payout = p
                          /\ payouts[p].status = "APPROVED"
    BY <1>2, LandStep
  <2>2. payouts'[p].status = "PAID" /\ byHand' = byHand
    BY <1>2, <2>1, ClaimFrame DEF ClaimPayout, moneyVars
  <2>3. byHand[p] = 0
    BY <1>2, <2>1, IrregularGrows DEF HandFirst
  <2>4. QED
    BY <2>2, <2>3
<1>3. CASE p \in Rows /\ ~InFlight(p)
  <2> USE <1>3
  <2>1. IF payouts[p].status = "PAID"
          THEN byHand[p] + (IF p \in transfers THEN 1 ELSE 0) <= 1
          ELSE byHand[p] = 0 /\ p \notin transfers
    BY IrregularGrows DEF MoneyIsRecorded
  <2>2. ASSUME NEW k \in Call, job[k].payout = p, ClaimPayout(k)
        PROVE  FALSE
    BY <2>2 DEF ClaimPayout, InFlight
  <2>3. ASSUME NEW k \in Call, job[k].payout = p, Transfer(k)
        PROVE  p \in transfers' <=> p \in transfers
    <3>1. p \notin lost'
      BY DEF Irregular
    <3>2. ASSUME Goto(k, "claim"), UNCHANGED job PROVE FALSE
      BY <2>3, <3>2 DEF Goto, InFlight, TypeOK
    <3>3. QED
      BY <2>3, <3>1, <3>2 DEF Transfer
  <2>4. CASE \E k \in Call : job[k].payout = p /\ Pay(k)
    BY <2>1, <2>4, SeenStep
  <2>5. CASE \E k \in Call : job[k].payout = p /\ Approve(k)
    <3>1. /\ payouts[p].status = "PENDING" /\ payouts'[p].status = "APPROVED"
          /\ byHand' = byHand /\ transfers' = transfers
      BY <2>5, SeenStep DEF Approve, moneyVars
    <3>2. QED
      BY <2>1, <3>1
  <2>6. CASE ~\E k \in Call : job[k].payout = p /\ (Pay(k) \/ Approve(k))
    <3>1. /\ payouts'[p].status = payouts[p].status
          /\ byHand'[p] = byHand[p]
          /\ p \in transfers' <=> p \in transfers
      <4>1. /\ \/ payouts'[p].status = payouts[p].status
               \/ \E k \in Call : /\ job[k].payout = p
                                  /\ Approve(k) \/ Pay(k) \/ ClaimPayout(k)
            /\ \/ byHand'[p] = byHand[p]
               \/ \E k \in Call : job[k].payout = p /\ Pay(k)
            /\ \/ (p \in transfers' <=> p \in transfers)
               \/ \E k \in Call : job[k].payout = p /\ Transfer(k)
        BY PayoutStep
      <4>2. payouts'[p].status = payouts[p].status
        <5>1. ASSUME NEW k \in Call, job[k].payout = p,
                     Approve(k) \/ Pay(k) \/ ClaimPayout(k)
              PROVE  FALSE
          BY <2>2, <2>6, <5>1
        <5>2. QED
          BY <4>1, <5>1
      <4>3. byHand'[p] = byHand[p]
        BY <2>6, <4>1
      <4>4. p \in transfers' <=> p \in transfers
        BY <2>3, <4>1
      <4>5. QED
        BY <4>2, <4>3, <4>4
    <3>2. QED
      BY <2>1, <3>1
  <2>7. QED
    BY <2>4, <2>5, <2>6
<1>4. QED
  BY <1>1, <1>2, <1>3

-----------------------------------------------------------------------------
\* At the start nothing has happened.
LEMMA InitInv == Init => IInv
<1> SUFFICES ASSUME Init PROVE IInv
  OBVIOUS
<1> USE ConstantsAssumption
<1>1. payouts = <<>> /\ Len(payouts) = 0 /\ Rows = {}
  BY DEF Init, Rows
<1>2. TypeOK
  <2>1. pc \in [Call -> Step] /\ job \in [Call -> Job]
    BY NoJobTyped DEF Init, Step
  <2>2. documents \in [PayoutId -> Document]
    BY DEF Init, Document, NoDocument
  <2>3. payouts \in Seq(Payout)
    BY <1>1
  <2>4. QED
    BY <1>1, <2>1, <2>2, <2>3 DEF Init, TypeOK
<1>3. RowsExist /\ SawItsPeriod /\ FolioIsHeld
  BY <1>1 DEF Init, RowsExist, SawItsPeriod, FolioIsHeld, AboutRow
<1>4. DocumentsExist /\ MoneyIsRecorded /\ HandFirst
  BY <1>1 DEF Init, DocumentsExist, Issued, MoneyIsRecorded, HandFirst
<1>5. LiquidatedTwiceOnlyByRaces /\ NetIsOfItsOrders
  BY <1>1 DEF LiquidatedTwiceOnlyByRaces, NetIsOfItsOrders
<1>6. FoliosAreGapless
  <2>1. \A p \in PayoutId : documents[p] = NoDocument
    BY DEF Init
  <2>2. {p \in PayoutId : documents[p] # NoDocument} = {} /\ counter = 1
    BY <2>1 DEF Init
  <2>3. 1 .. counter - 1 = {}
    BY <2>2
  <2>4. QED
    BY <2>2, <2>3 DEF FoliosAreGapless
<1>7. QED
  BY <1>2, <1>3, <1>4, <1>5, <1>6 DEF IInv

\* The invariant is inductive.
LEMMA NextInv == IInv /\ [Next]_vars => IInv'
<1> SUFFICES ASSUME IInv, [Next]_vars PROVE IInv'
  OBVIOUS
<1>1. CASE Next
  BY <1>1, TypeStep, RowsStep, SawStep, FolioStep, DocumentStep, MoneyStep,
     HandStep, TwiceStep, GaplessStep, NetStep DEF IInv
<1>2. CASE UNCHANGED vars
  BY <1>2
     DEF IInv, vars, rowVars, moneyVars, historyVars, TypeOK, RowsExist, Rows,
         SawItsPeriod, FolioIsHeld, DocumentsExist, Issued, MoneyIsRecorded,
         HandFirst, Irregular, InFlight, LiquidatedTwiceOnlyByRaces,
         FoliosAreGapless, NetIsOfItsOrders
<1>3. QED
  BY <1>1, <1>2

\* A payout for which nothing went wrong and of which no call holds a
\* transfer has moved its money at most once.
LEMMA RecordedMeansKnown == IInv => PaidTwiceIsKnown
<1> SUFFICES ASSUME IInv, NEW p \in Rows,
                    byHand[p] + (IF p \in transfers THEN 1 ELSE 0) > 1,
                    p \notin Irregular, ~InFlight(p)
             PROVE  FALSE
  BY DEF PaidTwiceIsKnown, Irregular
<1>1. byHand[p] \in Nat
  BY RowsTyped DEF IInv, TypeOK
<1>2. QED
  BY <1>1 DEF IInv, MoneyIsRecorded

\* The net that a payout was created with is the sum of what the seller is
\* owed for its orders.
LEMMA NetMeansOwed == IInv => NetIsOwed
<1> SUFFICES ASSUME IInv, NEW p \in Rows
             PROVE  LET part(o) == Owed(SaleOf[o]) IN
                    payouts[p].net =
                      MapThenSumSet(part, {o \in payouts[p].orders :
                                              Accrues(SaleOf[o])})
  BY DEF NetIsOwed
<1>1. payouts[p].orders \in SUBSET Order
  <2>1. payouts[p] \in Payout
    BY DEF IInv, TypeOK, Rows
  <2>2. QED
    BY <2>1 DEF Payout
<1>2. payouts[p].net = NetOf(payouts[p].orders)
  BY DEF IInv, NetIsOfItsOrders
<1> DEFINE S == payouts[p].orders
<1> HIDE DEF S
<1>3. LET owed(o) == Owed(SaleOf[o]) IN
      NetOf(S) = MapThenSumSet(owed, {o \in S : Accrues(SaleOf[o])})
  BY <1>1, NetIsSumOfOwed DEF S
<1>4. QED
  BY <1>2, <1>3 DEF S

\* In every reachable state the variables have their types.
THEOREM TypeCorrect == Spec => []TypeOK
<1>1. IInv => TypeOK
  BY DEF IInv
<1>2. QED
  BY InitInv, NextInv, <1>1, PTL DEF Spec

\* Whatever requests interleave, one order is in two payouts only where
\* their periods differ or a generation had not seen the earlier payout.
THEOREM LiquidatedOnce == Spec => []LiquidatedTwiceOnlyByRaces
<1>1. IInv => LiquidatedTwiceOnlyByRaces
  BY DEF IInv
<1>2. QED
  BY InitInv, NextInv, <1>1, PTL DEF Spec

\* Whatever requests interleave or die, money that leaves twice for one
\* payout is known to have: a status was overwritten unseen, an answer of
\* Stripe was lost, or the conflict is audited.
THEOREM PaidOnceOrKnown == Spec => []PaidTwiceIsKnown
<1>1. QED
  BY InitInv, NextInv, RecordedMeansKnown, PTL DEF Spec

\* The folios of the documents have neither gaps nor repetitions, whatever
\* issues at once and wherever it dies.
THEOREM FoliosWithoutGaps == Spec => []FoliosAreGapless
<1>1. IInv => FoliosAreGapless
  BY DEF IInv
<1>2. QED
  BY InitInv, NextInv, <1>1, PTL DEF Spec

\* compute() (payouts.controller.ts) and managedSettlementLines: the net of
\* every payout is the sum of what the seller is owed for its orders, for any
\* orders, amounts, costs of the gateway, VAT and shares, and whichever
\* requests interleave or die.
THEOREM SellerGetsWhatIsOwed == Spec => []NetIsOwed
<1>1. QED
  BY InitInv, NextInv, NetMeansOwed, PTL DEF Spec
=============================================================================
