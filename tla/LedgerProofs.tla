---------------------------- MODULE LedgerProofs ----------------------------
(***************************************************************************)
(* Proofs about PaymentLedger and SocialPass, two specifications with      *)
(* variables of their own: the events of a payment, and the credits of a   *)
(* pass.                                                                   *)
(*                                                                         *)
(* PaymentLedger, for any transactions, payments, lock keys and number of  *)
(* events: the events of a payment are a chain, committed or as an open    *)
(* transaction sees them, and no transaction is rejected.                  *)
(*                                                                         *)
(* SocialPass, for any number of handlers, subscriptions, billing periods  *)
(* and rows: the type invariant, the credits of the ledger, one filling of *)
(* each period, what Stripe knows of an end, and what becomes of a         *)
(* canceled pass. The inductive invariant orders the billing periods: the  *)
(* ledger has no line after the period of the row, and no handler holds a  *)
(* period before the one of the row that it read.                          *)
(***************************************************************************)
EXTENDS PaymentLedger, SocialPass, FunctionTheorems, FiniteSetTheorems, TLAPS

\* An event as emitPaymentEvent writes it.
WellHashed(e) ==
    /\ e.payment \in Payment /\ e.seq \in Nat \ {0} /\ e.body \in Tx
    /\ e = Event(e.payment, e.seq, e.body, e.prev)

Step == {"open", "waiting", "locked", "read", "committed", "duplicateSeq",
         "rolledBack", "deadlock"}

Typed ==
    /\ mine = [t \in Tx |-> mine[t]] /\ last = [t \in Tx |-> last[t]]
    /\ \A t \in Tx : last[t].seq \in Nat
    /\ lock \in [Key -> Tx \cup {NoTx}]
    /\ pc \in [Tx -> Step]
    /\ target \in [Tx -> Payment]
    /\ \A e \in rows : WellHashed(e)
    /\ \A t \in Tx : \A e \in mine[t] : WellHashed(e)

\* The event of S with number i, if the number is not 0, has the hash h.
HashAt(S, i, h) ==
    IF i = 0 THEN h = Genesis ELSE \E f \in S : f.seq = i /\ f.hash = h

\* The events of S are numbered from 1 to n, each once, and each refers to
\* the one before it.
Chain(S, n) ==
    /\ n \in Nat
    /\ \A e \in S : WellHashed(e) /\ e.seq <= n /\ HashAt(S, e.seq - 1, e.prev)
    /\ \A i \in 1..n : \E e \in S : e.seq = i
    /\ \A e, f \in S : e.seq = f.seq => e = f

ChainsHold ==
    \A p \in Payment :
        /\ \E n \in Nat : Chain(Of(rows, p), n)
        /\ \A t \in Tx : \E n \in Nat : Chain(Of(Visible(t), p), n)

\* Who has written events of a payment, or is about to, holds its lock.
LocksHold ==
    \A t \in Tx :
        /\ \A e \in mine[t] : lock[KeyOf[e.payment]] = t
        /\ pc[t] \in {"locked", "read"} => lock[KeyOf[target[t]]] = t

\* What was read last is the end of the chain until the event is inserted.
ReadIsLast ==
    \A t \in Tx : pc[t] = "read" =>
        /\ Chain(Of(Visible(t), target[t]), last[t].seq)
        /\ HashAt(Of(Visible(t), target[t]), last[t].seq, last[t].hash)

NeverRejected == \A t \in Tx : pc[t] # "duplicateSeq"

IInv == Typed /\ ChainsHold /\ LocksHold /\ ReadIsLast /\ NeverRejected

-----------------------------------------------------------------------------
(* Chains.                                                                 *)

LEMMA EmptyChain == Chain({}, 0)
  BY DEF Chain

\* The last event has the greatest number.
LEMMA ChainEnds ==
    ASSUME NEW S, NEW n \in Nat, Chain(S, n), NEW e \in S, \A f \in S : f.seq <= e.seq
    PROVE  e.seq = n
<1>1. e.seq \in Nat \ {0} /\ e.seq <= n
  BY DEF Chain, WellHashed
<1>2. PICK f \in S : f.seq = n
  BY <1>1 DEF Chain
<1>3. QED
  BY <1>1, <1>2

\* Its successor makes it longer by one, and is not one of its events.
LEMMA ChainGrows ==
    ASSUME NEW S, NEW n \in Nat, Chain(S, n), NEW e, WellHashed(e), e.seq = n + 1,
           HashAt(S, n, e.prev)
    PROVE  Chain(S \cup {e}, n + 1) /\ \A f \in S : f.seq # e.seq
<1>1. \A f \in S : WellHashed(f) /\ f.seq \in Nat \ {0} /\ f.seq <= n
  BY DEF Chain, WellHashed
<1>2. \A f \in S : f.seq # e.seq
  BY <1>1
<1>3. \A f \in S \cup {e} : WellHashed(f) /\ f.seq <= n + 1
  BY <1>1
<1>4. \A f \in S \cup {e} : HashAt(S \cup {e}, f.seq - 1, f.prev)
  <2>1. \A f \in S : HashAt(S, f.seq - 1, f.prev)
    BY DEF Chain
  <2>2. e.seq - 1 = n
    OBVIOUS
  <2>3. QED
    BY <2>1, <2>2 DEF HashAt
<1>5. \A i \in 1..(n + 1) : \E f \in S \cup {e} : f.seq = i
  <2>1. \A i \in 1..n : \E f \in S : f.seq = i
    BY DEF Chain
  <2>2. \A i \in 1..(n + 1) : i \in 1..n \/ i = n + 1
    OBVIOUS
  <2>3. QED
    BY <2>1, <2>2
<1>6. \A f, g \in S \cup {e} : f.seq = g.seq => f = g
  BY <1>2 DEF Chain
<1>7. QED
  BY <1>2, <1>3, <1>4, <1>5, <1>6 DEF Chain

\* Its length is the number of its events.
LEMMA ChainLength ==
    ASSUME NEW S, NEW n \in Nat, Chain(S, n)
    PROVE  {e.seq : e \in S} = 1..n /\ Cardinality(S) = n
<1>1. \A e \in S : e.seq \in 1..n
  BY DEF Chain, WellHashed
<1>2. {e.seq : e \in S} = 1..n
  BY <1>1 DEF Chain
<1> DEFINE at == [i \in 1..n |-> CHOOSE e \in S : e.seq = i]
<1>3. \A i \in 1..n : at[i] \in S /\ at[i].seq = i
  BY DEF Chain
<1>4. at \in [1..n -> S]
  BY <1>3
<1> HIDE DEF at
<1>5. \A i, j \in 1..n : at[i] = at[j] => i = j
  BY <1>3
<1>6. \A e \in S : \E i \in 1..n : at[i] = e
  BY <1>1, <1>3 DEF Chain
<1>7. at \in Bijection(1..n, S)
  BY <1>4, <1>5, <1>6, Fun_IsBij
<1>8. ExistsBijection(1..n, S)
  BY <1>7 DEF ExistsBijection
<1>9. Cardinality(S) = n
  BY <1>8, FS_CountingElements
<1>10. QED
  BY <1>2, <1>9

\* verifyPaymentChain finds nothing wrong in it.
LEMMA ChainIsGood ==
    ASSUME NEW S, NEW n \in Nat, Chain(S, n), NEW e \in S
    PROVE  ~BadRow(S, e)
<1> DEFINE before == {f \in S : f.seq < e.seq}
           prev == IF before = {} THEN Genesis
                   ELSE (CHOOSE f \in before : \A g \in before : g.seq <= f.seq).hash
<1>1. /\ e.seq \in Nat \ {0} /\ HashAt(S, e.seq - 1, e.prev)
      /\ e.hash = Hash(e.prev, e.payment, e.seq, e.body)
      /\ \A f \in S : f.seq \in Nat \ {0}
  BY DEF Chain, WellHashed, Event
<1>2. CASE e.seq = 1
  <2>1. before = {}
    BY <1>1, <1>2
  <2>2. e.prev = Genesis
    BY <1>1, <1>2 DEF HashAt
  <2>3. QED
    BY <1>1, <2>1, <2>2 DEF BadRow
<1>3. CASE e.seq # 1
  <2>1. PICK f \in S : f.seq = e.seq - 1 /\ f.hash = e.prev
    BY <1>1, <1>3 DEF HashAt
  <2>2. f \in before /\ \A g \in before : g.seq <= f.seq
    BY <1>1, <2>1
  <2>3. \A g \in before : (\A h \in before : h.seq <= g.seq) => g = f
    <3>1. \A g \in before : f.seq <= g.seq => g.seq = f.seq
      BY <1>1, <2>2
    <3>2. QED
      BY <2>2, <3>1 DEF Chain
  <2>4. (CHOOSE g \in before : \A h \in before : h.seq <= g.seq) = f
    BY <2>2, <2>3
  <2>5. prev = e.prev
    BY <2>1, <2>2, <2>4
  <2>6. QED
    BY <1>1, <2>5 DEF BadRow
<1>4. QED
  BY <1>2, <1>3

LEMMA ChainIsVerified ==
    ASSUME NEW S, NEW n \in Nat, Chain(S, n)
    PROVE  FirstBadSeq(S) = 0
  BY ChainIsGood DEF FirstBadSeq

-----------------------------------------------------------------------------
(* Chains that were tampered with.                                         *)

\* The row that a row is compared with is the last one before it.
LEMMA RowIsCompared ==
    ASSUME NEW S, NEW e, NEW f \in S, f.seq < e.seq,
           \A g \in S : g.seq \in Nat,
           \A g \in S : g.seq < e.seq => g.seq <= f.seq,
           \A g \in S : g.seq = f.seq => g = f
    PROVE  BadRow(S, e) <=>
             e.prev # f.hash \/ e.hash # Hash(f.hash, e.payment, e.seq, e.body)
<1> DEFINE before == {g \in S : g.seq < e.seq}
<1>1. f \in before /\ \A g \in before : g.seq <= f.seq
  OBVIOUS
<1>2. \A g \in before : (\A h \in before : h.seq <= g.seq) => g = f
  <2>1. \A g \in before : f.seq <= g.seq => g.seq = f.seq
    BY <1>1
  <2>2. QED
    BY <1>1, <2>1
<1>3. (CHOOSE g \in before : \A h \in before : h.seq <= g.seq) = f
  BY <1>1, <1>2
<1>4. QED
  BY <1>1, <1>3 DEF BadRow

\* The least bad number is the one of a bad row with none before it.
LEMMA FirstIsReported ==
    ASSUME NEW S, NEW e \in S, BadRow(S, e), \A g \in S : g.seq \in Nat,
           \A g \in S : g.seq < e.seq => ~BadRow(S, g)
    PROVE  FirstBadSeq(S) = e.seq
<1> DEFINE bad == {g \in S : BadRow(S, g)}
           first == CHOOSE g \in bad : \A h \in bad : g.seq <= h.seq
<1>1. e \in bad /\ \A h \in bad : e.seq <= h.seq
  OBVIOUS
<1>2. first \in bad /\ \A h \in bad : first.seq <= h.seq
  BY <1>1
<1>3. first.seq = e.seq
  BY <1>1, <1>2
<1>4. FirstBadSeq(S) = first.seq
  BY <1>1 DEF FirstBadSeq
<1>5. QED
  BY <1>3, <1>4

LEMMA HashTellsBodies ==
    ASSUME NEW g, NEW h, NEW p, NEW q, NEW i, NEW j, NEW a, NEW b,
           Hash(g, p, i, a) = Hash(h, q, j, b)
    PROVE  a = b
<1>1. Hash(g, p, i, a)[4] = a /\ Hash(h, q, j, b)[4] = b
  BY DEF Hash
<1>2. QED
  BY <1>1

\* What comes before a row decides whether it is bad.
LEMMA BadRowIsLocal ==
    ASSUME NEW S, NEW R, NEW e, {g \in S : g.seq < e.seq} = {g \in R : g.seq < e.seq}
    PROVE  BadRow(S, e) <=> BadRow(R, e)
  BY DEF BadRow

\* A chain with one row changed, hashed again or removed.
LEMMA TamperIsFound ==
    ASSUME NEW S, NEW n \in Nat, Chain(S, n), NEW e \in S
    PROVE  LET next == {f \in S : f.seq = e.seq + 1}
           IN /\ \A b \in Tx \ {e.body} :
                   /\ FirstBadSeq((S \ {e}) \cup {[e EXCEPT !.body = b]}) = e.seq
                   /\ next # {} =>
                        FirstBadSeq((S \ {e})
                           \cup {Event(e.payment, e.seq, b, e.prev)}) = e.seq + 1
              /\ next # {} => FirstBadSeq(S \ {e}) = e.seq + 1
<1>1. /\ \A f \in S : f.seq \in Nat \ {0} /\ HashAt(S, f.seq - 1, f.prev)
      /\ \A f \in S : f.hash = Hash(f.prev, f.payment, f.seq, f.body)
      /\ \A f, g \in S : f.seq = g.seq => f = g
      /\ e = Event(e.payment, e.seq, e.body, e.prev)
  BY DEF Chain, WellHashed, Event
<1>2. \A f \in S : ~BadRow(S, f)
  BY ChainIsGood
<1>3. \A f \in S : f.seq = e.seq + 1 => f.prev = e.hash
  <2>1. ASSUME NEW f \in S, f.seq = e.seq + 1
        PROVE  f.prev = e.hash
    <3>1. f.seq - 1 = e.seq /\ e.seq # 0
      BY <1>1, <2>1
    <3>2. PICK g \in S : g.seq = e.seq /\ g.hash = f.prev
      BY <1>1, <3>1 DEF HashAt
    <3>3. QED
      BY <1>1, <3>2
  <2>2. QED
    BY <2>1
<1>4. ASSUME NEW b \in Tx \ {e.body}
      PROVE  FirstBadSeq((S \ {e}) \cup {[e EXCEPT !.body = b]}) = e.seq
  <2> DEFINE c == [e EXCEPT !.body = b]
             R == (S \ {e}) \cup {c}
  <2>1. /\ c.seq = e.seq /\ c.payment = e.payment /\ c.prev = e.prev
        /\ c.hash = e.hash /\ c.body = b
    BY <1>1 DEF Event
  <2> HIDE DEF c
  <2>2. \A g \in R : g.seq \in Nat
    BY <1>1, <2>1
  <2>3. \A g \in R : g.seq < e.seq => ~BadRow(R, g)
    <3>1. ASSUME NEW g \in R, g.seq < e.seq
          PROVE  ~BadRow(R, g)
      <4>1. g \in S
        BY <1>1, <2>1, <3>1
      <4>2. {h \in R : h.seq < g.seq} = {h \in S : h.seq < g.seq}
        BY <1>1, <2>1, <3>1, <4>1
      <4>3. QED
        BY <1>2, <4>1, <4>2, BadRowIsLocal
    <3>2. QED
      BY <3>1
  <2>4. BadRow(R, c)
    <3>1. \A h : c.hash = Hash(h, c.payment, c.seq, c.body) => b = e.body
      <4>1. c.hash = Hash(e.prev, e.payment, e.seq, e.body)
        BY <1>1, <2>1
      <4>2. QED
        BY <2>1, <4>1, HashTellsBodies
    <3>2. QED
      BY <3>1 DEF BadRow
  <2>5. QED
    BY <2>1, <2>2, <2>3, <2>4, FirstIsReported DEF c
<1>5. ASSUME NEW b \in Tx \ {e.body}, NEW f \in S, f.seq = e.seq + 1
      PROVE  FirstBadSeq((S \ {e}) \cup {Event(e.payment, e.seq, b, e.prev)}) = e.seq + 1
  <2> DEFINE c == Event(e.payment, e.seq, b, e.prev)
             R == (S \ {e}) \cup {c}
  <2>1. /\ c.seq = e.seq /\ c.payment = e.payment /\ c.prev = e.prev /\ c.body = b
        /\ c.hash = Hash(e.prev, e.payment, e.seq, b)
    BY DEF Event
  <2> HIDE DEF c
  <2>2. \A g \in R : g.seq \in Nat
    BY <1>1, <2>1
  <2>3. f \in R /\ f.seq = e.seq + 1
    BY <1>1, <1>5
  <2>4. \A g \in R : g.seq < f.seq => ~BadRow(R, g)
    <3>1. ASSUME NEW g \in R, g.seq < f.seq, g # c
          PROVE  ~BadRow(R, g)
      <4>1. g \in S /\ g.seq < e.seq
        BY <1>1, <1>5, <2>2, <3>1
      <4>2. {h \in R : h.seq < g.seq} = {h \in S : h.seq < g.seq}
        BY <1>1, <2>1, <4>1
      <4>3. QED
        BY <1>2, <4>1, <4>2, BadRowIsLocal
    <3>2. ~BadRow(R, c)
      <4>1. {h \in R : h.seq < c.seq} = {h \in S : h.seq < e.seq}
        BY <1>1, <2>1
      <4>2. ~BadRow(S, e)
        BY <1>2
      <4>3. QED
        BY <2>1, <4>1, <4>2 DEF BadRow
    <3>3. QED
      BY <3>1, <3>2
  <2>5. BadRow(R, f)
    <3>1. c \in R /\ c.seq < f.seq
      BY <1>1, <1>5, <2>1
    <3>2. /\ \A g \in R : g.seq < f.seq => g.seq <= c.seq
          /\ \A g \in R : g.seq = c.seq => g = c
      BY <1>1, <1>5, <2>1, <2>2
    <3>3. f.prev # c.hash
      BY <1>1, <1>3, <1>5, <2>1 DEF Hash
    <3>4. QED
      BY <2>2, <3>1, <3>2, <3>3, RowIsCompared
  <2>6. QED
    BY <2>2, <2>3, <2>4, <2>5, FirstIsReported DEF c
<1>6. ASSUME NEW f \in S, f.seq = e.seq + 1
      PROVE  FirstBadSeq(S \ {e}) = e.seq + 1
  <2> DEFINE R == S \ {e}
  <2>1. \A g \in R : g.seq \in Nat
    BY <1>1
  <2>2. f \in R
    BY <1>1, <1>6
  <2>3. \A g \in R : g.seq < f.seq => g.seq < e.seq
    BY <1>1, <1>6
  <2>4. \A g \in R : g.seq < f.seq => ~BadRow(R, g)
    <3>1. ASSUME NEW g \in R, g.seq < f.seq
          PROVE  ~BadRow(R, g)
      <4>1. {h \in R : h.seq < g.seq} = {h \in S : h.seq < g.seq}
        BY <1>1, <2>3, <3>1
      <4>2. QED
        BY <1>2, <4>1, BadRowIsLocal
    <3>2. QED
      BY <3>1
  <2>5. BadRow(R, f)
    <3>1. f.prev = Hash(e.prev, e.payment, e.seq, e.body)
      BY <1>1, <1>3, <1>6
    <3>2. CASE e.seq = 1
      <4>1. {g \in R : g.seq < f.seq} = {}
        BY <1>1, <2>3, <3>2
      <4>2. f.prev # Genesis
        BY <3>1 DEF Hash, Genesis
      <4>3. QED
        BY <4>1, <4>2 DEF BadRow
    <3>3. CASE e.seq # 1
      <4>1. PICK g \in S : g.seq = e.seq - 1
        BY <1>1, <3>3 DEF HashAt
      <4>2. g \in R /\ g.seq < f.seq
        BY <1>1, <1>6, <4>1
      <4>3. /\ \A h \in R : h.seq < f.seq => h.seq <= g.seq
            /\ \A h \in R : h.seq = g.seq => h = g
        BY <1>1, <2>3, <4>1
      <4>4. f.prev # g.hash
        BY <1>1, <3>1, <4>1 DEF Hash
      <4>5. QED
        BY <2>1, <4>2, <4>3, <4>4, RowIsCompared
    <3>4. QED
      BY <3>2, <3>3
  <2>6. QED
    BY <1>6, <2>1, <2>2, <2>4, <2>5, FirstIsReported
<1>7. QED
  BY <1>4, <1>5, <1>6

-----------------------------------------------------------------------------
(* What a step leaves alone.                                               *)

\* Neither rows nor locks are touched, and only t goes on.
LEMMA ControlInv ==
    ASSUME IInv, NEW t \in Tx, NEW step \in {"open", "waiting"}, Goto(t, step),
           UNCHANGED <<rows, mine, lock, last>>,
           target' \in [Tx -> Payment],
           \A u \in Tx \ {t} : target'[u] = target[u]
    PROVE  IInv'
<1>1. pc' \in [Tx -> Step] /\ pc'[t] = step /\ \A u \in Tx \ {t} : pc'[u] = pc[u]
  BY DEF Goto, IInv, Typed, Step
<1>2. Typed'
  BY <1>1 DEF IInv, Typed, WellHashed
<1>3. ChainsHold'
  BY DEF IInv, ChainsHold, Visible
<1>4. LocksHold'
  BY <1>1 DEF IInv, LocksHold
<1>5. ReadIsLast'
  BY <1>1 DEF IInv, ReadIsLast, Visible
<1>6. NeverRejected'
  BY <1>1 DEF IInv, NeverRejected
<1>7. QED
  BY <1>2, <1>3, <1>4, <1>5, <1>6 DEF IInv

LEMMA EmitInv ==
    ASSUME IInv, NEW t \in Tx, NEW p \in Payment, Emit(t, p)
    PROVE  IInv'
<1>1. /\ target' \in [Tx -> Payment]
      /\ \A u \in Tx \ {t} : target'[u] = target[u]
  BY DEF Emit, IInv, Typed
<1>2. QED
  BY <1>1, ControlInv DEF Emit

LEMMA AcquireInv ==
    ASSUME IInv, NEW t \in Tx, Acquire(t)
    PROVE  IInv'
<1> DEFINE x == KeyOf[target[t]]
<1>1. x \in Key /\ lock[x] \in {NoTx, t}
  BY LedgerAssumption DEF Acquire, IInv, Typed
<1>2. /\ pc' \in [Tx -> Step] /\ pc'[t] = "locked"
      /\ \A u \in Tx \ {t} : pc'[u] = pc[u]
      /\ UNCHANGED <<rows, mine, target, last>>
  BY DEF Acquire, Goto, IInv, Typed, Step
<1>3. lock' \in [Key -> Tx \cup {NoTx}] /\ lock'[x] = t
  BY <1>1 DEF Acquire, IInv, Typed
<1>4. \A y \in Key, u \in Tx : lock[y] = u => lock'[y] = u
  BY <1>1, LedgerAssumption DEF Acquire, IInv, Typed
<1>5. Typed'
  BY <1>2, <1>3 DEF IInv, Typed, WellHashed
<1>6. ChainsHold'
  BY <1>2 DEF IInv, ChainsHold, Visible
<1>7. LocksHold'
  <2>1. \A u \in Tx : \A e \in mine[u] : KeyOf[e.payment] \in Key
    BY LedgerAssumption DEF IInv, Typed, WellHashed
  <2>2. \A u \in Tx : KeyOf[target[u]] \in Key
    BY LedgerAssumption DEF IInv, Typed
  <2>3. QED
    BY <1>2, <1>3, <1>4, <2>1, <2>2 DEF IInv, LocksHold
<1>8. ReadIsLast' /\ NeverRejected'
  BY <1>2 DEF IInv, ReadIsLast, NeverRejected, Visible
<1>9. QED
  BY <1>5, <1>6, <1>7, <1>8 DEF IInv

LEMMA ReadLastInv ==
    ASSUME IInv, NEW t \in Tx, ReadLast(t)
    PROVE  IInv'
<1> DEFINE seen == Of(Visible(t), target[t])
<1>1. target[t] \in Payment /\ pc[t] = "locked"
  BY DEF ReadLast, IInv, Typed
<1>2. /\ pc' \in [Tx -> Step] /\ pc'[t] = "read"
      /\ \A u \in Tx \ {t} : pc'[u] = pc[u]
      /\ UNCHANGED <<rows, mine, lock, target>>
  BY DEF ReadLast, Goto, IInv, Typed, Step
<1>3. PICK n \in Nat : Chain(seen, n)
  BY <1>1 DEF IInv, ChainsHold
<1>4. PICK r : /\ last' = [last EXCEPT ![t] = r]
               /\ r.seq \in Nat /\ Chain(seen, r.seq) /\ HashAt(seen, r.seq, r.hash)
  <2> HIDE DEF seen
  <2>1. CASE seen = {}
    <3> DEFINE r == [seq |-> 0, hash |-> Genesis]
    <3>1. last' = [last EXCEPT ![t] = r]
      BY <2>1 DEF ReadLast, seen
    <3>2. r.seq = 0 /\ r.hash = Genesis
      OBVIOUS
    <3>3. QED
      BY <2>1, <3>1, <3>2, EmptyChain DEF HashAt
  <2>2. CASE seen # {}
    <3>1. PICK e \in seen :
            /\ \A f \in seen : f.seq <= e.seq
            /\ last' = [last EXCEPT ![t] = [seq |-> e.seq, hash |-> e.hash]]
      BY <2>2 DEF ReadLast, seen
    <3>2. e.seq = n
      BY <1>3, <3>1, ChainEnds
    <3>3. HashAt(seen, e.seq, e.hash)
      <4>1. e.seq # 0
        BY <1>3 DEF Chain, WellHashed
      <4>2. QED
        BY <4>1 DEF HashAt
    <3> DEFINE r == [seq |-> e.seq, hash |-> e.hash]
    <3>4. r.seq = e.seq /\ r.hash = e.hash
      OBVIOUS
    <3>5. last' = [last EXCEPT ![t] = r]
      BY <3>1
    <3> HIDE DEF r
    <3>6. QED
      BY <1>3, <3>2, <3>3, <3>4, <3>5
  <2>3. QED
    BY <2>1, <2>2
<1>5. /\ last' = [u \in Tx |-> last'[u]]
      /\ last'[t] = r /\ \A u \in Tx \ {t} : last'[u] = last[u]
  BY <1>4 DEF IInv, Typed
<1>6. Typed'
  <2>1. \A u \in Tx : last'[u].seq \in Nat
    BY <1>4, <1>5 DEF IInv, Typed
  <2>2. QED
    BY <1>2, <1>5, <2>1 DEF IInv, Typed, WellHashed
<1>7. ReadIsLast'
  <2>1. ASSUME NEW u \in Tx, pc'[u] = "read"
        PROVE  /\ Chain(Of(Visible(u), target[u]), last'[u].seq)
               /\ HashAt(Of(Visible(u), target[u]), last'[u].seq, last'[u].hash)
    BY <1>2, <1>4, <1>5, <2>1 DEF IInv, ReadIsLast
  <2>2. QED
    BY <1>2, <2>1 DEF ReadIsLast, Visible
<1>8. ChainsHold' /\ LocksHold' /\ NeverRejected'
  BY <1>1, <1>2 DEF IInv, ChainsHold, LocksHold, NeverRejected, Visible
<1>9. QED
  BY <1>6, <1>7, <1>8 DEF IInv

LEMMA InsertInv ==
    ASSUME IInv, NEW t \in Tx, Insert(t)
    PROVE  IInv'
<1> DEFINE e == NewEvent(t)
           p == target[t]
           n == last[t].seq
<1>1. /\ p \in Payment /\ pc[t] = "read" /\ n \in Nat
      /\ Chain(Of(Visible(t), p), n)
      /\ HashAt(Of(Visible(t), p), n, last[t].hash)
      /\ lock[KeyOf[p]] = t
  BY DEF Insert, IInv, Typed, ReadIsLast, LocksHold
<1>2. /\ WellHashed(e) /\ e.payment = p /\ e.seq = n + 1 /\ e.prev = last[t].hash
  BY <1>1 DEF NewEvent, Event, WellHashed
<1> HIDE DEF e
<1>3. /\ Chain(Of(Visible(t), p) \cup {e}, n + 1)
      /\ \A f \in Of(Visible(t), p) : f.seq # e.seq
  BY <1>1, <1>2, ChainGrows
<1>4. ~Clashes(Visible(t), e)
  BY <1>2, <1>3 DEF Clashes, Of
<1>5. /\ mine' = [mine EXCEPT ![t] = @ \cup {e}]
      /\ Goto(t, "open")
      /\ UNCHANGED <<rows, lock, target, last>>
  BY <1>4 DEF Insert, e
<1>6. /\ pc' \in [Tx -> Step] /\ pc'[t] = "open"
      /\ \A u \in Tx \ {t} : pc'[u] = pc[u]
  BY <1>5 DEF Goto, IInv, Typed, Step
<1>7. /\ mine' = [u \in Tx |-> mine'[u]]
      /\ mine'[t] = mine[t] \cup {e} /\ \A u \in Tx \ {t} : mine'[u] = mine[u]
  BY <1>5 DEF IInv, Typed
<1>8. Typed'
  <2>1. \A u \in Tx : \A f \in mine'[u] : WellHashed(f)
    BY <1>2, <1>7 DEF IInv, Typed
  <2>2. QED
    BY <1>5, <1>6, <1>7, <2>1 DEF IInv, Typed, WellHashed
<1>9. ChainsHold'
  <2>1. ASSUME NEW q \in Payment, NEW u \in Tx
        PROVE  \E m \in Nat : Chain(Of(rows \cup mine'[u], q), m)
    <3>1. CASE u = t /\ q = p
      <4>1. Of(rows \cup mine'[u], q) = Of(Visible(t), p) \cup {e}
        BY <1>2, <1>7, <3>1 DEF Of, Visible
      <4>2. n + 1 \in Nat
        BY <1>1
      <4>3. QED
        BY <1>3, <4>1, <4>2
    <3>2. CASE u # t \/ q # p
      <4>1. Of(rows \cup mine'[u], q) = Of(Visible(u), q)
        BY <1>2, <1>7, <3>2 DEF Of, Visible
      <4>2. QED
        BY <4>1 DEF IInv, ChainsHold
    <3>3. QED
      BY <3>1, <3>2
  <2>2. \A q \in Payment : \E m \in Nat : Chain(Of(rows, q), m)
    BY DEF IInv, ChainsHold
  <2>3. QED
    BY <1>5, <2>1, <2>2 DEF ChainsHold, Visible
<1>10. LocksHold'
  <2>1. \A f \in mine'[t] : lock[KeyOf[f.payment]] = t
    BY <1>1, <1>2, <1>7 DEF IInv, LocksHold
  <2>2. QED
    BY <1>5, <1>6, <1>7, <2>1 DEF IInv, LocksHold
<1>11. ReadIsLast' /\ NeverRejected'
  BY <1>5, <1>6, <1>7 DEF IInv, ReadIsLast, NeverRejected, Visible
<1>12. QED
  BY <1>8, <1>9, <1>10, <1>11 DEF IInv

\* A transaction ends, with rows that are still chains for everybody and that
\* are the same where another transaction has read.
LEMMA EndsInv ==
    ASSUME IInv, NEW t \in Tx, NEW step \in {"committed", "rolledBack", "deadlock"},
           Goto(t, step), mine' = [mine EXCEPT ![t] = {}], lock' = Released(t),
           UNCHANGED <<target, last>>,
           \A e \in rows' : WellHashed(e),
           \A p \in Payment :
               /\ \E n \in Nat : Chain(Of(rows', p), n)
               /\ \A u \in Tx \ {t} : \E n \in Nat : Chain(Of(rows' \cup mine[u], p), n),
           \A u \in Tx \ {t} : pc[u] = "read" =>
               Of(rows' \cup mine[u], target[u]) = Of(Visible(u), target[u])
    PROVE  IInv'
<1>1. /\ pc' \in [Tx -> Step] /\ pc'[t] = step
      /\ \A u \in Tx \ {t} : pc'[u] = pc[u]
  BY DEF Goto, IInv, Typed, Step
<1>2. /\ mine' = [u \in Tx |-> mine'[u]]
      /\ mine'[t] = {} /\ \A u \in Tx \ {t} : mine'[u] = mine[u]
  BY DEF IInv, Typed
<1>3. lock' \in [Key -> Tx \cup {NoTx}]
  BY DEF IInv, Typed, Released
<1>4. \A y \in Key, u \in Tx \ {t} : lock[y] = u => lock'[y] = u
  BY DEF Released
<1>5. Typed'
  <2>1. \A u \in Tx : \A f \in mine'[u] : WellHashed(f)
    BY <1>2 DEF IInv, Typed
  <2>2. QED
    BY <1>1, <1>2, <1>3, <2>1 DEF IInv, Typed, WellHashed
<1>6. ChainsHold'
  <2>1. \A p \in Payment, u \in Tx : \E n \in Nat : Chain(Of(rows' \cup mine'[u], p), n)
    BY <1>2
  <2>2. QED
    BY <2>1 DEF ChainsHold, Visible
<1>7. LocksHold'
  <2>1. \A u \in Tx : \A e \in mine[u] : KeyOf[e.payment] \in Key
    BY LedgerAssumption DEF IInv, Typed, WellHashed
  <2>2. \A u \in Tx : KeyOf[target[u]] \in Key
    BY LedgerAssumption DEF IInv, Typed
  <2>3. \A u \in Tx \ {t} :
          /\ \A e \in mine'[u] : lock'[KeyOf[e.payment]] = u
          /\ pc'[u] \in {"locked", "read"} => lock'[KeyOf[target[u]]] = u
    BY <1>1, <1>2, <1>4, <2>1, <2>2 DEF IInv, LocksHold
  <2>4. QED
    BY <1>1, <1>2, <2>3 DEF LocksHold
<1>8. ReadIsLast'
  <2>1. ASSUME NEW u \in Tx, pc'[u] = "read"
        PROVE  /\ Chain(Of(rows' \cup mine'[u], target[u]), last[u].seq)
               /\ HashAt(Of(rows' \cup mine'[u], target[u]), last[u].seq, last[u].hash)
    BY <1>1, <1>2, <2>1 DEF IInv, ReadIsLast
  <2>2. QED
    BY <2>1 DEF ReadIsLast, Visible
<1>9. NeverRejected'
  BY <1>1 DEF IInv, NeverRejected
<1>10. QED
  BY <1>5, <1>6, <1>7, <1>8, <1>9 DEF IInv

LEMMA AbortInv ==
    ASSUME IInv, NEW t \in Tx, NEW why \in {"rolledBack", "deadlock"}, Abort(t, why)
    PROVE  IInv'
<1>1. /\ Goto(t, why) /\ mine' = [mine EXCEPT ![t] = {}] /\ lock' = Released(t)
      /\ UNCHANGED <<rows, target, last>>
  BY DEF Abort
<1>2. \A p \in Payment :
        /\ \E n \in Nat : Chain(Of(rows', p), n)
        /\ \A u \in Tx \ {t} : \E n \in Nat : Chain(Of(rows' \cup mine[u], p), n)
  BY <1>1 DEF IInv, ChainsHold, Visible
<1>3. \A u \in Tx : Of(rows' \cup mine[u], target[u]) = Of(Visible(u), target[u])
  BY <1>1 DEF Visible
<1>4. \A e \in rows' : WellHashed(e)
  BY <1>1 DEF IInv, Typed
<1>5. QED
  BY <1>1, <1>2, <1>3, <1>4, EndsInv

\* Where t has written, nobody else has or is about to: they see what it saw.
LEMMA CommitInv ==
    ASSUME IInv, NEW t \in Tx, Commit(t)
    PROVE  IInv'
<1>1. /\ Goto(t, "committed") /\ mine' = [mine EXCEPT ![t] = {}]
      /\ lock' = Released(t) /\ rows' = rows \cup mine[t]
      /\ UNCHANGED <<target, last>>
  BY DEF Commit
<1>2. ASSUME NEW u \in Tx \ {t}, NEW p \in Payment, Of(mine[t], p) # {}
      PROVE  Of(mine[u], p) = {} /\ lock[KeyOf[p]] = t
  BY <1>2 DEF Of, IInv, LocksHold
<1>3. ASSUME NEW p \in Payment
      PROVE  /\ \E n \in Nat : Chain(Of(rows', p), n)
             /\ \A u \in Tx \ {t} : \E n \in Nat : Chain(Of(rows' \cup mine[u], p), n)
  <2>1. Of(rows', p) = Of(Visible(t), p)
    BY <1>1 DEF Visible
  <2>2. ASSUME NEW u \in Tx \ {t}
        PROVE  \/ Of(rows' \cup mine[u], p) = Of(Visible(u), p)
               \/ Of(rows' \cup mine[u], p) = Of(Visible(t), p)
    <3>1. CASE Of(mine[t], p) = {}
      BY <1>1, <3>1 DEF Of, Visible
    <3>2. CASE Of(mine[t], p) # {}
      <4>1. Of(mine[u], p) = {}
        BY <1>2, <3>2
      <4>2. QED
        BY <1>1, <4>1 DEF Of, Visible
    <3>3. QED
      BY <3>1, <3>2
  <2>3. QED
    BY <2>1, <2>2 DEF IInv, ChainsHold
<1>4. ASSUME NEW u \in Tx \ {t}, pc[u] = "read"
      PROVE  Of(rows' \cup mine[u], target[u]) = Of(Visible(u), target[u])
  <2>1. target[u] \in Payment /\ lock[KeyOf[target[u]]] = u
    BY <1>4 DEF IInv, Typed, LocksHold
  <2>2. Of(mine[t], target[u]) = {}
    BY <1>2, <2>1
  <2>3. QED
    BY <1>1, <2>2 DEF Of, Visible
<1>5. \A e \in rows' : WellHashed(e)
  BY <1>1 DEF IInv, Typed
<1>6. QED
  BY <1>1, <1>3, <1>4, <1>5, EndsInv

-----------------------------------------------------------------------------
LEMMA InitInv == Init => IInv
<1> SUFFICES ASSUME Init PROVE IInv
  OBVIOUS
<1>1. (CHOOSE p \in Payment : TRUE) \in Payment
  BY LedgerAssumption
<1>2. Typed
  BY <1>1 DEF Init, Typed, Step
<1>3. \A p \in Payment : Of(rows, p) = {} /\ \A t \in Tx : Of(Visible(t), p) = {}
  BY DEF Init, Of, Visible
<1>4. ChainsHold
  BY <1>3, EmptyChain DEF ChainsHold
<1>5. QED
  BY <1>2, <1>4 DEF Init, IInv, LocksHold, ReadIsLast, NeverRejected

LEMMA NextInv == IInv /\ [Next]_vars => IInv'
<1> SUFFICES ASSUME IInv, [Next]_vars PROVE IInv'
  OBVIOUS
<1>1. ASSUME NEW t \in Tx, NEW p \in Payment, Emit(t, p)
      PROVE  IInv'
  BY <1>1, EmitInv
<1>2. ASSUME NEW t \in Tx, Progress(t)
      PROVE  IInv'
  BY <1>2, AcquireInv, ReadLastInv, InsertInv, CommitInv, AbortInv
     DEF Progress, DeadlockAbort
<1>3. ASSUME NEW t \in Tx, Rollback(t)
      PROVE  IInv'
  BY <1>3, AbortInv DEF Rollback
<1>4. CASE UNCHANGED vars
  BY <1>4 DEF vars, IInv, Typed, WellHashed, ChainsHold, Visible, LocksHold,
              ReadIsLast, NeverRejected
<1>5. QED
  BY <1>1, <1>2, <1>3, <1>4 DEF Next

\* The numbers of a payment's events are 1, 2, ... without gaps, and the
\* unique key (paymentId, seq) never aborts a transaction (emitPaymentEvent),
\* whatever transactions overlap, collide in a lock key, roll back or are
\* aborted, and however many events they emit.
THEOREM SequencesWithoutGaps == Spec => []SequencesHold
<1>1. IInv => SequencesHold
  <2> SUFFICES ASSUME IInv PROVE SequencesHold
    OBVIOUS
  <2>1. ASSUME NEW p \in Payment
        PROVE  {e.seq : e \in Of(rows, p)} = 1..Cardinality(Of(rows, p))
    <3>1. PICK n \in Nat : Chain(Of(rows, p), n)
      BY DEF IInv, ChainsHold
    <3>2. QED
      BY <3>1, ChainLength
  <2>2. QED
    BY <2>1 DEF SequencesHold, IInv, NeverRejected
<1>2. QED
  BY InitInv, NextInv, <1>1, PTL DEF Spec

\* verifyPaymentChain reports no break in the events of a payment, neither in
\* the committed ones nor as a transaction that is writing some sees them.
THEOREM ChainsVerify == Spec => []ChainVerifies
<1>1. IInv => ChainVerifies
  <2> SUFFICES ASSUME IInv PROVE ChainVerifies
    OBVIOUS
  <2>1. \A p \in Payment : FirstBadSeq(Of(rows, p)) = 0
    BY ChainIsVerified DEF IInv, ChainsHold
  <2>2. \A p \in Payment, t \in Tx : FirstBadSeq(Of(Visible(t), p)) = 0
    BY ChainIsVerified DEF IInv, ChainsHold
  <2>3. QED
    BY <2>1, <2>2 DEF ChainVerifies
<1>2. QED
  BY InitInv, NextInv, <1>1, PTL DEF Spec

\* Evidence that cannot be changed unseen: verifyPaymentChain reports a
\* committed row whose body was changed, the row after one that was changed
\* and hashed again, and the row after one that was removed, in chains of any
\* length.
THEOREM TamperIsReported == Spec => []TamperEvident
<1>1. IInv => TamperEvident
  <2> SUFFICES ASSUME IInv, NEW e \in rows
               PROVE  LET chain == Of(rows, e.payment)
                          next == {f \in chain : f.seq = e.seq + 1}
                      IN /\ \A b \in Tx \ {e.body} :
                              /\ FirstBadSeq((chain \ {e}) \cup {[e EXCEPT !.body = b]})
                                   = e.seq
                              /\ next # {} =>
                                   FirstBadSeq((chain \ {e})
                                      \cup {Event(e.payment, e.seq, b, e.prev)})
                                   = e.seq + 1
                         /\ next # {} => FirstBadSeq(chain \ {e}) = e.seq + 1
    BY DEF TamperEvident
  <2> DEFINE chain == Of(rows, e.payment)
  <2>1. e.payment \in Payment
    BY DEF IInv, Typed, WellHashed
  <2>2. PICK n \in Nat : Chain(chain, n)
    BY <2>1 DEF IInv, ChainsHold
  <2>3. e \in chain
    BY DEF Of
  <2> HIDE DEF chain
  <2>4. QED
    BY <2>2, <2>3, TamperIsFound DEF chain
<1>2. QED
  BY InitInv, NextInv, <1>1, PTL DEF Spec

-----------------------------------------------------------------------------
(* The Pase Social (SocialPass).                                           *)

\* Billing periods in their order, NoEnd before all of them.
NotAfter(i, j) == i[1] < j[1] \/ (i[1] = j[1] /\ i[2] <= j[2])

\* What Stripe has: sessions are opened in order, a period begins with a payment.
StripeInOrder ==
    \A s \in Sub :
        /\ s > opened => remote[s] = "none"
        /\ remote[s] \in {"none", "open", "expired"} <=> period[s] = 0

\* The period of the row has begun at Stripe, and is of its subscription.
RowInOrder ==
    /\ pass.until # NoEnd => pass.until[2] <= period[pass.until[1]]
    /\ pass.sub # Pending => pass.until[1] = pass.sub
    /\ ~pass.exists => pass.until = NoEnd

\* A pass without a subscription of its own is not about to end.
PendingEndsNot == ~raced => (pass.sub = Pending => ~pass.ends)

\* The period that a handler is about to activate has begun.
PeriodBegan(j) ==
    j.at \in {"ask", "activate"} =>
        j.invoice \in Invoice /\ j.invoice[2] <= period[j.invoice[1]]

\* What brought a handler where it is.
Justified(j) ==
    /\ j.kind = "cancel" => j.row.status \in {"ACTIVE", "FAILED_CARD"} /\ j.at # "ask"
    /\ j.kind = "cancel" /\ j.at = "write" => j.row.sub \in Sub /\ willEnd[j.row.sub]
    /\ j.kind = "failed" => j.row.status \notin {"CANCELED", "FAILED_CARD"}
    /\ j.kind # "paid" /\ j.at = "activate" /\ j.ends => willEnd[j.invoice[1]]

\* A handler acts on the subscription of the row it read, or on the newest, and
\* on a period that is not before the one of the row.
OnOwn(j) ==
    ~crossed /\ j.at \in {"ask", "activate"} =>
        /\ NotAfter(j.row.until, j.invoice)
        /\ j.row.sub # Pending => j.invoice[1] = j.row.sub

JobFits(j) == PeriodBegan(j) /\ Justified(j) /\ OnOwn(j)
JobsFit == \A c \in Slot : JobFits(job[c])

\* The ledger has no line of a period after the one of the row.
LinesBehind ==
    ~raced /\ ~crossed => \A i \in Invoice : Lines(i) > 0 => NotAfter(i, pass.until)

PassInv ==
    /\ PassTypeOK
    /\ StripeInOrder
    /\ RowInOrder
    /\ PendingEndsNot
    /\ EndIsKnownToStripe
    /\ JobsFit
    /\ CreditsExplained
    /\ LinesBehind
    /\ PeriodFillsOnce

\* What no step takes back.
Grows ==
    /\ \A s \in Sub : /\ period[s] <= period'[s]
                      /\ willEnd[s] => willEnd'[s]
                      /\ remote[s] = "CANCELED" => remote'[s] = "CANCELED"
    /\ (raced => raced') /\ (crossed => crossed')

-----------------------------------------------------------------------------
(* Invoices and the lines of the ledger.                                   *)

LEMMA InvoiceShape ==
    ASSUME NEW i \in Invoice
    PROVE  /\ i[1] \in Sub /\ i[2] \in 1..MaxPeriod[i[1]] /\ i = <<i[1], i[2]>>
           /\ i[1] \in Nat /\ i[1] >= 1 /\ i[2] \in Nat /\ i[2] >= 1 /\ i # NoEnd
<1>1. PICK s \in Sub : i \in {s} \X (1..MaxPeriod[s])
  BY DEF Invoice
<1>2. MaxSub \in Nat /\ MaxPeriod[s] \in Nat
  BY <1>1, PassAssumption DEF Sub
<1>3. QED
  BY <1>1, <1>2 DEF NoEnd, Pending, Sub

LEMMA InvoiceMade ==
    ASSUME NEW s \in Sub, NEW p \in 1..MaxPeriod[s]
    PROVE  <<s, p>> \in Invoice
<1>1. <<s, p>> \in {s} \X (1..MaxPeriod[s])
  OBVIOUS
<1>2. QED
  BY <1>1 DEF Invoice

LEMMA InvoicesFinite == IsFiniteSet(Invoice)
<1> DEFINE of == [s \in Sub |-> {s} \X (1..MaxPeriod[s])]
           all == {of[s] : s \in Sub}
<1>1. IsFiniteSet(Sub)
  <2>1. 1 \in Int /\ MaxSub \in Int
    BY PassAssumption
  <2>2. QED
    BY <2>1, FS_Interval DEF Sub
<1>2. \A s \in Sub : IsFiniteSet(of[s])
  <2>1. ASSUME NEW s \in Sub
        PROVE  IsFiniteSet({s} \X (1..MaxPeriod[s]))
    <3>1. 1 \in Int /\ MaxPeriod[s] \in Int
      BY PassAssumption DEF Sub
    <3>2. IsFiniteSet(1..MaxPeriod[s]) /\ IsFiniteSet({s})
      BY <3>1, FS_Interval, FS_Singleton
    <3>3. QED
      BY <3>2, FS_Product
  <2>2. QED
    BY <2>1
<1>3. IsFiniteSet(all)
  <2>1. of \in Surjection(Sub, all)
    BY DEF Surjection
  <2>2. QED
    BY <1>1, <2>1, FS_Surjection
<1>4. \A T \in all : IsFiniteSet(T)
  BY <1>2
<1>5. Invoice = UNION all
  BY DEF Invoice
<1>6. QED
  BY <1>3, <1>4, <1>5, FS_UNION

LineKind == {"invoiced", "polled"}

LEMMA LinesFinite ==
    IsFiniteSet(ResetLines) /\ Cardinality(ResetLines) \in Nat
<1>1. IsFiniteSet(LineKind)
  <2>1. IsFiniteSet({"invoiced"}) /\ IsFiniteSet({"polled"})
    BY FS_Singleton
  <2>2. IsFiniteSet({"invoiced"} \cup {"polled"})
    BY <2>1, FS_Union
  <2>3. LineKind = {"invoiced"} \cup {"polled"}
    BY DEF LineKind
  <2>4. QED
    BY <2>2, <2>3
<1>2. IsFiniteSet(Invoice \X LineKind)
  BY <1>1, InvoicesFinite, FS_Product
<1>3. IsFiniteSet(1..MaxReset)
  <2>1. 1 \in Int /\ MaxReset \in Int
    BY PassAssumption
  <2>2. QED
    BY <2>1, FS_Interval
<1>4. IsFiniteSet((Invoice \X LineKind) \X (1..MaxReset))
  BY <1>2, <1>3, FS_Product
<1>5. ResetLines \subseteq (Invoice \X LineKind) \X (1..MaxReset)
  BY DEF ResetLines, LineKind
<1>6. IsFiniteSet(ResetLines)
  BY <1>4, <1>5, FS_Subset
<1>7. QED
  BY <1>6, FS_CardinalityType

\* A line of one kind for one period is one line more.
LEMMA LineAdded ==
    ASSUME PassTypeOK, NEW i \in Invoice, NEW k \in LineKind,
           resets[i][k] < MaxReset,
           \A j \in Invoice, h \in LineKind :
              resets'[j][h] = resets[j][h] + (IF j = i /\ h = k THEN 1 ELSE 0)
    PROVE  Cardinality(ResetLines)' = Cardinality(ResetLines) + 1
<1> DEFINE new == <<<<i, k>>, resets[i][k] + 1>>
<1>1. \A j \in Invoice, h \in LineKind : resets[j][h] \in Nat
  BY DEF PassTypeOK, LineKind
<1>2. MaxReset \in Nat
  BY PassAssumption
<1>3. \A j \in Invoice, h \in LineKind, n \in 1..MaxReset :
         <<<<j, h>>, n>> \in ResetLines <=> n <= resets[j][h]
  BY DEF ResetLines, LineKind
<1>4. \A j \in Invoice, h \in LineKind, n \in 1..MaxReset :
         <<<<j, h>>, n>> \in ResetLines' <=> n <= resets'[j][h]
  BY DEF ResetLines, LineKind
<1>5. \A l \in ResetLines \cup ResetLines' :
         \E j \in Invoice, h \in LineKind, n \in 1..MaxReset : l = <<<<j, h>>, n>>
  BY DEF ResetLines, LineKind
<1>6. resets[i][k] + 1 \in 1..MaxReset
  BY <1>1, <1>2
<1>7. new \notin ResetLines /\ new \in ResetLines'
  <2>1. ~(resets[i][k] + 1 <= resets[i][k]) /\ resets[i][k] + 1 <= resets'[i][k]
    BY <1>1
  <2>2. QED
    BY <1>3, <1>4, <1>6, <2>1
<1>8. \A j \in Invoice, h \in LineKind, n \in 1..MaxReset :
         <<<<j, h>>, n>> \in ResetLines'
            <=> <<<<j, h>>, n>> \in ResetLines \/ <<<<j, h>>, n>> = new
  <2>1. ASSUME NEW j \in Invoice, NEW h \in LineKind, NEW n \in 1..MaxReset
        PROVE  n <= resets'[j][h]
                  <=> n <= resets[j][h] \/ (j = i /\ h = k /\ n = resets[i][k] + 1)
    BY <1>1
  <2>2. \A j \in Invoice, h \in LineKind, n \in 1..MaxReset :
           <<<<j, h>>, n>> = new <=> j = i /\ h = k /\ n = resets[i][k] + 1
    OBVIOUS
  <2>3. QED
    BY <1>3, <1>4, <2>1, <2>2
<1> HIDE DEF new
<1>9. ResetLines' = ResetLines \cup {new}
  BY <1>5, <1>7, <1>8
<1>10. Cardinality(ResetLines \cup {new}) = Cardinality(ResetLines) + 1
  BY <1>7, LinesFinite, FS_AddElement
<1>11. QED
  BY <1>9, <1>10

LEMMA NotAfterItself ==
    ASSUME NEW i \in Invoice
    PROVE  NotAfter(i, i)
  BY InvoiceShape DEF NotAfter

LEMMA NotAfterBoth ==
    ASSUME NEW i \in Invoice \cup {NoEnd}, NEW j \in Invoice \cup {NoEnd},
           NotAfter(i, j), NotAfter(j, i)
    PROVE  i = j
<1>1. \A x \in {i, j} : x[1] \in Nat /\ x[2] \in Nat /\ x = <<x[1], x[2]>>
  BY InvoiceShape DEF NoEnd, Pending
<1>2. i[1] = j[1] /\ i[2] = j[2]
  BY <1>1 DEF NotAfter
<1>3. QED
  BY <1>1, <1>2

LEMMA NotAfterThird ==
    ASSUME NEW i \in Invoice \cup {NoEnd}, NEW j \in Invoice \cup {NoEnd},
           NEW k \in Invoice \cup {NoEnd}, NotAfter(i, j), NotAfter(j, k)
    PROVE  NotAfter(i, k)
<1>1. \A x \in {i, j, k} : x[1] \in Nat /\ x[2] \in Nat
  BY InvoiceShape DEF NoEnd, Pending
<1>2. QED
  BY <1>1 DEF NotAfter

-----------------------------------------------------------------------------
(* What Stripe has.                                                        *)

StripeTyped ==
    /\ remote \in [Sub -> {"none", "open", "expired", "ACTIVE", "past_due", "CANCELED"}]
    /\ period \in [Sub -> Nat] /\ \A s \in Sub : period[s] <= MaxPeriod[s]
    /\ willEnd \in [Sub -> BOOLEAN]
    /\ paid \subseteq Invoice /\ declined \subseteq Invoice
    /\ opened \in 0..MaxSub
    /\ raced \in BOOLEAN /\ crossed \in BOOLEAN

\* A subscription whose period has begun was opened, and is in that period.
LEMMA BegunIsOpened ==
    ASSUME PassTypeOK, StripeInOrder, NEW s \in Sub, period[s] # 0
    PROVE  /\ s <= opened /\ Current(s) \in Invoice
           /\ Current(s) = <<s, period[s]>> /\ period[s] \in Nat
<1>1. opened \in Nat /\ s \in Nat /\ period[s] \in 1..MaxPeriod[s]
  BY PassAssumption DEF PassTypeOK, Sub
<1>2. s <= opened
  BY <1>1 DEF StripeInOrder
<1>3. QED
  BY <1>1, <1>2, InvoiceMade DEF Current

\* Of the subscription of a paid or refused invoice, the period has begun.
LEMMA ChargedIsBegun ==
    ASSUME PassTypeOK, NEW s \in Sub, Current(s) \in paid \cup declined
    PROVE  period[s] # 0
<1>1. Current(s) \in Invoice
  BY DEF PassTypeOK
<1>2. QED
  BY <1>1, InvoiceShape DEF Current

LEMMA LiveIsBegun ==
    ASSUME PassTypeOK, StripeInOrder, NEW s \in Sub,
           Live(s) \/ remote[s] = "CANCELED"
    PROVE  period[s] # 0
  BY DEF Live, StripeInOrder

\* A step that leaves the sessions and the subscriptions alone.
LEMMA StripeStays ==
    ASSUME PassTypeOK, StripeInOrder, UNCHANGED <<stripeVars, opened>>,
           raced' \in BOOLEAN, crossed' \in BOOLEAN,
           raced => raced', crossed => crossed'
    PROVE  StripeTyped' /\ StripeInOrder' /\ Grows
<1>1. StripeTyped'
  BY DEF PassTypeOK, StripeTyped, stripeVars
<1>2. StripeInOrder'
  BY DEF StripeInOrder, stripeVars
<1>3. Grows
  BY DEF PassTypeOK, Grows, stripeVars
<1>4. QED
  BY <1>1, <1>2, <1>3

LEMMA StripeMoves ==
    ASSUME PassTypeOK, StripeInOrder, Stripe
    PROVE  /\ StripeTyped' /\ StripeInOrder' /\ Grows
           /\ UNCHANGED <<willEnd, opened, pass, resets, redeemed, job, raced, crossed>>
<1>1. PICK s \in Sub : Pay(s) \/ Expire(s) \/ Renew(s) \/ Charge(s) \/ End(s)
  BY DEF Stripe
<1>2. UNCHANGED <<willEnd, opened, pass, resets, redeemed, job, raced, crossed>>
  BY <1>1 DEF Pay, Expire, Renew, Charge, End, ServiceUnchanged, ledgerVars
<1>3. /\ opened \in Nat /\ MaxPeriod[s] \in Nat /\ MaxPeriod[s] >= 1
      /\ \A z \in Sub : z \in Nat /\ period[z] \in Nat
  <2>1. MaxSub \in Nat /\ MaxPeriod[s] \in Nat \ {0}
    BY PassAssumption DEF Sub
  <2>2. QED
    BY <2>1 DEF PassTypeOK, Sub
<1>4. CASE Pay(s)
  <2>1. /\ remote[s] = "open" /\ remote' = [remote EXCEPT ![s] = "ACTIVE"]
        /\ period' = [period EXCEPT ![s] = 1] /\ period[s] = 0
        /\ paid' = paid \cup {<<s, 1>>} /\ declined' = declined
    BY <1>4 DEF Pay, SetRemote, StripeInOrder
  <2>2. <<s, 1>> \in Invoice
    BY <1>3, InvoiceMade
  <2>3. StripeTyped'
    BY <1>2, <1>3, <2>1, <2>2 DEF PassTypeOK, StripeTyped
  <2>4. StripeInOrder'
    BY <1>2, <1>3, <2>1 DEF PassTypeOK, StripeInOrder
  <2>5. Grows
    BY <1>2, <1>3, <2>1 DEF PassTypeOK, Grows
  <2>6. QED
    BY <1>2, <2>3, <2>4, <2>5
<1>5. CASE Expire(s)
  <2>1. /\ remote[s] = "open" /\ remote' = [remote EXCEPT ![s] = "expired"]
        /\ UNCHANGED <<period, paid, declined>>
    BY <1>5 DEF Expire, SetRemote
  <2>2. StripeTyped'
    BY <1>2, <2>1 DEF PassTypeOK, StripeTyped
  <2>3. StripeInOrder'
    BY <1>2, <2>1 DEF PassTypeOK, StripeInOrder
  <2>4. Grows
    BY <1>2, <1>3, <2>1 DEF PassTypeOK, Grows
  <2>5. QED
    BY <1>2, <2>2, <2>3, <2>4
<1>6. CASE Renew(s)
  <2>1. /\ remote[s] = "ACTIVE" /\ period[s] < MaxPeriod[s]
        /\ period' = [period EXCEPT ![s] = period[s] + 1]
        /\ UNCHANGED <<remote, paid, declined>>
    BY <1>6 DEF Renew
  <2>2. StripeTyped'
    BY <1>2, <1>3, <2>1 DEF PassTypeOK, StripeTyped
  <2>3. StripeInOrder'
    BY <1>2, <1>3, <2>1 DEF PassTypeOK, StripeInOrder
  <2>4. Grows
    BY <1>2, <1>3, <2>1 DEF PassTypeOK, Grows
  <2>5. QED
    BY <1>2, <2>2, <2>3, <2>4
<1>7. CASE Charge(s)
  <2>1. Live(s) /\ Current(s) \in Invoice
    BY <1>7, LiveIsBegun, BegunIsOpened DEF Charge
  <2>2. PICK st \in {"ACTIVE", "past_due"} : remote' = [remote EXCEPT ![s] = st]
    BY <1>7 DEF Charge, SetRemote
  <2>3. /\ paid' \subseteq Invoice /\ declined' \subseteq Invoice /\ UNCHANGED period
    BY <1>7, <2>1 DEF Charge, PassTypeOK
  <2>4. StripeTyped'
    BY <1>2, <2>2, <2>3 DEF PassTypeOK, StripeTyped
  <2>5. StripeInOrder'
    BY <1>2, <2>1, <2>2, <2>3 DEF PassTypeOK, StripeInOrder, Live
  <2>6. Grows
    BY <1>2, <1>3, <2>1, <2>2, <2>3 DEF PassTypeOK, Grows, Live
  <2>7. QED
    BY <1>2, <2>4, <2>5, <2>6
<1>8. CASE End(s)
  <2>1. /\ Live(s) /\ remote' = [remote EXCEPT ![s] = "CANCELED"]
        /\ UNCHANGED <<period, paid, declined>>
    BY <1>8 DEF End, SetRemote
  <2>2. StripeTyped'
    BY <1>2, <2>1 DEF PassTypeOK, StripeTyped
  <2>3. StripeInOrder'
    BY <1>2, <2>1 DEF PassTypeOK, StripeInOrder, Live
  <2>4. Grows
    BY <1>2, <1>3, <2>1 DEF PassTypeOK, Grows
  <2>5. QED
    BY <1>2, <2>2, <2>3, <2>4
<1>9. QED
  BY <1>1, <1>4, <1>5, <1>6, <1>7, <1>8

\* subscribe cancels at Stripe what lives there.
LEMMA OrphansCanceled ==
    ASSUME PassTypeOK, StripeInOrder, NEW c \in Slot, CancelOrphans(c)
    PROVE  StripeTyped' /\ StripeInOrder' /\ Grows
<1>1. /\ remote' = [s \in Sub |-> IF Live(s) THEN "CANCELED" ELSE remote[s]]
      /\ UNCHANGED <<period, willEnd, paid, declined, opened, raced, crossed>>
  BY DEF CancelOrphans
<1>2. \A s \in Sub : /\ remote[s] \in {"ACTIVE", "past_due"} => remote'[s] = "CANCELED"
                     /\ remote[s] \notin {"ACTIVE", "past_due"} => remote'[s] = remote[s]
  BY <1>1 DEF Live
<1>3. StripeTyped'
  BY <1>1 DEF PassTypeOK, StripeTyped
<1>4. StripeInOrder'
  BY <1>1, <1>2 DEF StripeInOrder
<1>5. Grows
  BY <1>1, <1>2 DEF PassTypeOK, Grows
<1>6. QED
  BY <1>3, <1>4, <1>5

LEMMA SessionOpened ==
    ASSUME PassTypeOK, StripeInOrder, NEW c \in Slot, OpenSession(c)
    PROVE  StripeTyped' /\ StripeInOrder' /\ Grows
<1>1. UNCHANGED <<period, willEnd, paid, declined, raced, crossed>>
  BY DEF OpenSession
<1>2. CASE opened < MaxSub
  <2>1. opened' = opened + 1 /\ remote' = [remote EXCEPT ![opened + 1] = "open"]
    BY <1>2 DEF OpenSession, SetRemote
  <2>2. /\ opened \in Nat /\ MaxSub \in Nat /\ opened + 1 \in Sub
        /\ \A s \in Sub : s \in Nat /\ period[s] \in Nat
    BY <1>2, PassAssumption DEF PassTypeOK, Sub
  <2>3. remote[opened + 1] = "none" /\ period[opened + 1] = 0
    BY <2>2 DEF StripeInOrder
  <2>4. StripeTyped'
    BY <1>1, <1>2, <2>1, <2>2 DEF PassTypeOK, StripeTyped
  <2>5. StripeInOrder'
    BY <1>1, <2>1, <2>2, <2>3 DEF PassTypeOK, StripeInOrder
  <2>6. Grows
    BY <1>1, <2>1, <2>2, <2>3 DEF PassTypeOK, Grows
  <2>7. QED
    BY <2>4, <2>5, <2>6
<1>3. CASE ~(opened < MaxSub)
  BY <1>1, <1>3, StripeStays DEF OpenSession, stripeVars, PassTypeOK
<1>4. QED
  BY <1>2, <1>3

LEMMA EndAsked ==
    ASSUME PassTypeOK, StripeInOrder, NEW c \in Slot, AskToEnd(c)
    PROVE  StripeTyped' /\ StripeInOrder' /\ Grows
<1>1. UNCHANGED <<remote, period, paid, declined, opened, raced, crossed>>
  BY DEF AskToEnd
<1>2. willEnd' \in [Sub -> BOOLEAN] /\ \A s \in Sub : willEnd[s] => willEnd'[s]
  BY DEF AskToEnd, PassTypeOK
<1>3. StripeTyped'
  BY <1>1, <1>2 DEF PassTypeOK, StripeTyped
<1>4. StripeInOrder'
  BY <1>1 DEF StripeInOrder
<1>5. Grows
  BY <1>1, <1>2 DEF PassTypeOK, Grows
<1>6. QED
  BY <1>3, <1>4, <1>5

\* Of the handlers, these three only change what Stripe has.
LEMMA HandlerAtStripe ==
    ASSUME PassTypeOK, StripeInOrder, NEW c \in Slot, Handler(c)
    PROVE  StripeTyped' /\ StripeInOrder' /\ Grows
<1>1. raced \in BOOLEAN /\ crossed \in BOOLEAN
  BY DEF PassTypeOK
<1>2. CASE CancelOrphans(c) \/ OpenSession(c) \/ AskToEnd(c)
  BY <1>2, OrphansCanceled, SessionOpened, EndAsked
<1>3. CASE \/ Subscribe(c) \/ Cancel(c) \/ Redeem(c)
           \/ \E s \in Sub : Confirm(c, s)
           \/ \E s \in Sub, kind \in {"paid", "failed", "deleted", "expired", "completed"} :
                 Webhook(c, kind, s)
  <2>1. /\ UNCHANGED <<stripeVars, opened, raced>>
        /\ crossed' \in BOOLEAN /\ (crossed => crossed')
    BY <1>1, <1>3
      DEF Subscribe, Cancel, Redeem, Confirm, Webhook, Begin, NoteCrossing
  <2>2. QED
    BY <1>1, <2>1, StripeStays
<1>4. CASE Upsert(c) \/ AskRemote(c) \/ WriteRedeem(c) \/ Die(c)
  <2>1. /\ UNCHANGED <<stripeVars, opened, crossed>>
        /\ raced' \in BOOLEAN /\ (raced => raced')
    BY <1>1, <1>4 DEF Upsert, AskRemote, WriteRedeem, Die
  <2>2. QED
    BY <1>1, <2>1, StripeStays
<1>5. CASE WriteCancel(c) \/ Activate(c) \/ WriteStatus(c) \/ DeleteRow(c)
  <2>1. /\ UNCHANGED <<stripeVars, opened, crossed>>
        /\ raced' \in BOOLEAN /\ (raced => raced')
    BY <1>1, <1>5 DEF WriteCancel, Activate, WriteStatus, DeleteRow, Update
  <2>2. QED
    BY <1>1, <2>1, StripeStays
<1>6. QED
  BY <1>2, <1>3, <1>4, <1>5 DEF Handler

-----------------------------------------------------------------------------
(* What the handlers are doing.                                            *)

\* What a step of others leaves true of a job.
LEMMA JobKept ==
    ASSUME PassTypeOK, Grows, StripeTyped', NEW j \in Job, JobFits(j)
    PROVE  JobFits(j)'
<1>1. PeriodBegan(j)'
  <2>1. ASSUME j.at \in {"ask", "activate"}
        PROVE  j.invoice \in Invoice /\ j.invoice[2] <= period'[j.invoice[1]]
    <3>1. j.invoice \in Invoice /\ j.invoice[2] <= period[j.invoice[1]]
      BY <2>1 DEF JobFits, PeriodBegan
    <3>2. j.invoice[1] \in Sub /\ j.invoice[2] \in Nat
      BY <3>1, InvoiceShape
    <3>3. QED
      BY <3>1, <3>2 DEF Grows, PassTypeOK, StripeTyped
  <2>2. QED
    BY <2>1 DEF PeriodBegan
<1>2. Justified(j)'
  <2>1. Justified(j) /\ (j.at = "activate" => j.invoice[1] \in Sub)
    BY InvoiceShape DEF JobFits, PeriodBegan
  <2>2. QED
    BY <2>1 DEF Justified, Grows
<1>3. OnOwn(j)'
  BY DEF JobFits, OnOwn, Grows
<1>4. QED
  BY <1>1, <1>2, <1>3 DEF JobFits

LEMMA JobsKept ==
    ASSUME PassTypeOK, JobsFit, Grows, StripeTyped', UNCHANGED job
    PROVE  job' \in [Slot -> Job] /\ JobsFit'
<1>1. ASSUME NEW d \in Slot
      PROVE  JobFits(job[d])'
  <2>1. PICK j \in Job : j = job[d]
    BY DEF PassTypeOK
  <2>2. JobFits(j)'
    BY <2>1, JobKept DEF JobsFit
  <2>3. QED
    BY <2>1, <2>2 DEF JobFits, PeriodBegan, Justified, OnOwn
<1>2. QED
  BY <1>1 DEF JobsFit, PassTypeOK

\* A step of one handler, of which x is left.
LEMMA OneJobMoves ==
    ASSUME PassTypeOK, JobsFit, Grows, StripeTyped', NEW c \in Slot, NEW x \in Job,
           job' = [job EXCEPT ![c] = x], JobFits(x)'
    PROVE  job' \in [Slot -> Job] /\ JobsFit'
<1>1. /\ job' \in [Slot -> Job] /\ job'[c] = x
      /\ \A d \in Slot \ {c} : job'[d] = job[d]
  BY DEF PassTypeOK
<1>2. ASSUME NEW d \in Slot
      PROVE  JobFits(job[d])'
  <2>1. PICK j \in Job : j = job'[d]
    BY <1>1
  <2>2. JobFits(j)'
    <3>1. CASE d = c
      BY <1>1, <2>1, <3>1
    <3>2. CASE d # c
      BY <1>1, <2>1, <3>2, JobKept DEF JobsFit
    <3>3. QED
      BY <3>1, <3>2
  <2>3. QED
    BY <2>1, <2>2 DEF JobFits, PeriodBegan, Justified, OnOwn
<1>3. QED
  BY <1>1, <1>2 DEF JobsFit

LEMMA NoJobTyped == NoJob \in Job /\ NoRow \in PassRow
<1>1. Credits \in Nat /\ MaxRow \in Nat
  BY PassAssumption
<1>2. NoRow \in PassRow
  BY <1>1 DEF NoRow, PassRow
<1>3. QED
  BY <1>2 DEF NoJob, Job, PassStep, Kind

LEMMA NoRowIsBlank ==
    /\ NoRow \in PassRow /\ ~NoRow.exists /\ NoRow.sub = Pending
    /\ NoRow.until = NoEnd /\ ~NoRow.ends /\ NoRow.balance = 0
<1>1. NoRow \in PassRow
  BY NoJobTyped
<1>2. QED
  BY <1>1 DEF NoRow

LEMMA JobFinished ==
    ASSUME PassTypeOK, JobsFit, Grows, StripeTyped', NEW c \in Slot, Finish(c)
    PROVE  job' \in [Slot -> Job] /\ JobsFit'
<1>1. PICK x \in Job : x = NoJob
  BY NoJobTyped
<1>2. x.at = "idle" /\ x.kind = "none"
  BY <1>1 DEF NoJob
<1>3. JobFits(x)'
  BY <1>2 DEF JobFits, PeriodBegan, Justified, OnOwn
<1>4. QED
  BY <1>1, <1>3, OneJobMoves DEF Finish

\* A handler of subscribe goes on to its next step.
LEMMA JobGoesOn ==
    ASSUME PassTypeOK, JobsFit, Grows, StripeTyped', NEW c \in Slot,
           NEW at \in {"upsert", "session"}, GoesTo(c, at)
    PROVE  job' \in [Slot -> Job] /\ JobsFit'
<1>1. PICK j \in Job : j = job[c]
  BY DEF PassTypeOK
<1>2. PICK x : x = [j EXCEPT !.at = at]
  OBVIOUS
<1>3. x \in Job /\ x.at = at /\ x.kind = j.kind /\ x.row = j.row
  BY <1>2 DEF Job, PassStep
<1>4. Justified(j)
  BY <1>1 DEF JobsFit, JobFits
<1>5. JobFits(x)'
  BY <1>3, <1>4 DEF JobFits, PeriodBegan, Justified, OnOwn
<1>6. job' = [job EXCEPT ![c] = x]
  BY <1>1, <1>2 DEF GoesTo, PassTypeOK
<1>7. QED
  BY <1>3, <1>5, <1>6, OneJobMoves

\* A handler begins, with the row as it is and a period that has begun.
LEMMA JobBegun ==
    ASSUME PassTypeOK, JobsFit, Grows, StripeTyped', NEW c \in Slot,
           NEW kind \in Kind, NEW at \in PassStep, NEW i \in Invoice \cup {NoEnd},
           Begin(c, kind, at, i),
           kind = "cancel" => pass.status \in {"ACTIVE", "FAILED_CARD"} /\ at = "provider",
           kind = "failed" => pass.status \notin {"CANCELED", "FAILED_CARD"},
           at \in {"ask", "activate"} =>
              /\ i \in Invoice /\ i[2] <= period[i[1]]
              /\ ~crossed' => /\ NotAfter(pass.until, i)
                              /\ pass.sub # Pending => i[1] = pass.sub
    PROVE  job' \in [Slot -> Job] /\ JobsFit'
<1>1. PICK r \in PassRow : r = pass
  BY DEF PassTypeOK
<1>2. PICK x : x = [NoJob EXCEPT !.at = at, !.kind = kind, !.row = r, !.invoice = i]
  OBVIOUS
<1>3. /\ x \in Job /\ x.at = at /\ x.kind = kind /\ x.row = r
      /\ x.invoice = i /\ x.ends = FALSE
  BY <1>2 DEF Job, NoJob
<1>4. job' = [job EXCEPT ![c] = x]
  BY <1>1, <1>2 DEF Begin
<1>5. PeriodBegan(x)'
  <2>1. ASSUME at \in {"ask", "activate"}
        PROVE  i \in Invoice /\ i[2] <= period'[i[1]]
    <3>1. i \in Invoice /\ i[2] <= period[i[1]] /\ i[1] \in Sub /\ i[2] \in Nat
      BY <2>1, InvoiceShape
    <3>2. QED
      BY <3>1 DEF Grows, PassTypeOK, StripeTyped
  <2>2. QED
    BY <1>3, <2>1 DEF PeriodBegan
<1>6. Justified(x)'
  BY <1>1, <1>3 DEF Justified
<1>7. OnOwn(x)'
  BY <1>1, <1>3 DEF OnOwn
<1>8. QED
  BY <1>3, <1>4, <1>5, <1>6, <1>7, OneJobMoves DEF JobFits

\* The period of the row is not after the one its own subscription is in.
LEMMA OwnIsLatest ==
    ASSUME PassTypeOK, StripeInOrder, RowInOrder, NEW s \in Sub, period[s] # 0, Own(s)
    PROVE  /\ NotAfter(pass.until, Current(s))
           /\ pass.sub # Pending => s = pass.sub
<1>1. /\ Current(s)[1] = s /\ Current(s)[2] = period[s]
      /\ s \in Nat /\ s >= 1 /\ period[s] \in Nat /\ opened \in Nat
  BY PassAssumption DEF Current, PassTypeOK, Sub
<1>2. pass.sub # Pending => s = pass.sub
  BY DEF Own
<1>3. pass.sub = Pending => s = opened
  BY DEF Own
<1>4. CASE pass.until = NoEnd
  BY <1>1, <1>2, <1>4 DEF NotAfter, NoEnd, Pending
<1>5. CASE pass.until # NoEnd
  <2>1. PICK i \in Invoice : i = pass.until
    BY <1>5 DEF PassTypeOK, PassRow
  <2>2. /\ i[1] \in Sub /\ i[1] \in Nat /\ i[2] \in Nat /\ i[2] >= 1
        /\ i[2] <= period[i[1]] /\ period[i[1]] \in Nat
    BY <1>5, <2>1, InvoiceShape DEF RowInOrder, PassTypeOK
  <2>3. i[1] <= opened
    <3>1. period[i[1]] # 0
      BY <2>2
    <3>2. QED
      BY <2>2, <3>1, BegunIsOpened
  <2>4. CASE pass.sub = Pending
    BY <1>1, <1>2, <1>3, <2>1, <2>2, <2>3, <2>4 DEF NotAfter
  <2>5. CASE pass.sub # Pending
    BY <1>1, <1>2, <2>1, <2>2, <2>5 DEF NotAfter, RowInOrder
  <2>6. QED
    BY <2>4, <2>5
<1>6. QED
  BY <1>4, <1>5

\* Stripe answers: the subscription may be in a later period by now.
LEMMA RemoteAsked ==
    ASSUME PassTypeOK, StripeInOrder, JobsFit, Grows, StripeTyped',
           NEW c \in Slot, AskRemote(c)
    PROVE  job' \in [Slot -> Job] /\ JobsFit'
<1>1. CASE Finish(c)
  BY <1>1, JobFinished
<1>2. CASE ~Finish(c)
  <2>1. PICK j \in Job : j = job[c]
    BY DEF PassTypeOK
  <2>2. j.at = "ask" /\ JobFits(j)
    BY <2>1 DEF AskRemote, JobsFit
  <2>3. PICK s \in Sub : s = j.invoice[1]
    BY <2>2, InvoiceShape DEF JobFits, PeriodBegan
  <2>4. /\ j.invoice \in Invoice /\ j.invoice[1] = s /\ j.invoice[2] <= period[s]
        /\ s \in Nat /\ period[s] \in Nat /\ j.invoice[2] \in Nat /\ j.invoice[2] >= 1
    BY <2>2, <2>3, InvoiceShape DEF JobFits, PeriodBegan, PassTypeOK
  <2>5. PICK i \in Invoice : i = Current(s)
    BY <2>4, BegunIsOpened
  <2>6. i[1] = s /\ i[2] = period[s] /\ NotAfter(j.invoice, i)
    BY <2>4, <2>5 DEF Current, NotAfter
  <2>7. PICK e \in BOOLEAN : e = willEnd[s]
    BY DEF PassTypeOK
  <2>8. PICK at \in {"activate", "write"} :
           job' = [job EXCEPT ![c].at = at, ![c].invoice = i, ![c].ends = e]
    BY <1>2, <2>1, <2>3, <2>5, <2>7 DEF AskRemote
  <2>9. PICK x : x = [j EXCEPT !.at = at, !.invoice = i, !.ends = e]
    OBVIOUS
  <2>10. /\ x \in Job /\ x.at = at /\ x.kind = j.kind /\ x.row = j.row
         /\ x.invoice = i /\ x.ends = e
    BY <2>1, <2>9 DEF Job, PassStep
  <2>11. job' = [job EXCEPT ![c] = x]
    <3>1. [job EXCEPT ![c].at = at, ![c].invoice = i, ![c].ends = e]
            = [job EXCEPT ![c] = [j EXCEPT !.at = at, !.invoice = i, !.ends = e]]
      BY <2>1 DEF PassTypeOK
    <3>2. QED
      BY <2>8, <2>9, <3>1
  <2>12. PeriodBegan(x)'
    <3>1. i[2] <= period'[i[1]]
      BY <2>4, <2>6 DEF Grows
    <3>2. QED
      BY <2>10, <3>1 DEF PeriodBegan
  <2>13. Justified(x)'
    <3>1. Justified(j)
      BY <2>2 DEF JobFits
    <3>2. e => willEnd'[s]
      BY <2>7 DEF Grows
    <3>3. QED
      BY <2>2, <2>6, <2>10, <3>1, <3>2 DEF Justified
  <2>14. OnOwn(x)'
    <3>1. ASSUME ~crossed
          PROVE  NotAfter(j.row.until, i) /\ (j.row.sub # Pending => i[1] = j.row.sub)
      <4>1. /\ NotAfter(j.row.until, j.invoice)
            /\ j.row.sub # Pending => j.invoice[1] = j.row.sub
        BY <2>2, <3>1 DEF JobFits, OnOwn
      <4>2. j.row.until \in Invoice \cup {NoEnd}
        BY <2>1 DEF Job, PassRow
      <4>3. QED
        BY <2>4, <2>6, <4>1, <4>2, NotAfterThird
    <3>2. QED
      BY <2>10, <3>1 DEF OnOwn, Grows
  <2>15. QED
    BY <2>10, <2>11, <2>12, <2>13, <2>14, OneJobMoves DEF JobFits
<1>3. QED
  BY <1>1, <1>2

LEMMA HandlerJobs ==
    ASSUME PassTypeOK, StripeInOrder, RowInOrder, JobsFit, Grows, StripeTyped',
           NEW c \in Slot, Handler(c)
    PROVE  job' \in [Slot -> Job] /\ JobsFit'
<1>1. /\ {"subscribe", "cancel", "confirm", "redeem", "paid", "failed", "deleted",
          "expired", "completed"} \subseteq Kind
      /\ {"orphans", "provider", "ask", "activate", "write"} \subseteq PassStep
  BY DEF Kind, PassStep
<1>2. CASE Subscribe(c) \/ Cancel(c) \/ Redeem(c)
  BY <1>1, <1>2, JobBegun DEF Subscribe, Cancel, Redeem
<1>3. ASSUME NEW s \in Sub, Confirm(c, s)
      PROVE  job' \in [Slot -> Job] /\ JobsFit'
  <2>1. period[s] # 0
    BY <1>3, LiveIsBegun DEF Confirm
  <2>2. PICK i \in Invoice : i = Current(s)
    BY <2>1, BegunIsOpened
  <2>3. i[1] = s /\ i[2] = period[s] /\ i[2] <= period[i[1]]
    BY <2>1, <2>2, BegunIsOpened DEF Current
  <2>4. ~crossed' => NotAfter(pass.until, i) /\ (pass.sub # Pending => i[1] = pass.sub)
    BY <1>3, <2>1, <2>2, <2>3, OwnIsLatest DEF Confirm, NoteCrossing
  <2>5. Begin(c, "confirm", "ask", i)
    BY <1>3, <2>2 DEF Confirm, Current
  <2>6. QED
    BY <1>1, <2>2, <2>3, <2>4, <2>5, JobBegun
<1>4. ASSUME NEW s \in Sub, Webhook(c, "expired", s)
      PROVE  job' \in [Slot -> Job] /\ JobsFit'
  <2>1. Begin(c, "expired", "write", NoEnd)
    BY <1>4 DEF Webhook, Handling
  <2>2. QED
    BY <1>1, <2>1, JobBegun
<1>5. ASSUME NEW s \in Sub, NEW kind \in {"paid", "failed", "deleted", "completed"},
             Webhook(c, kind, s)
      PROVE  job' \in [Slot -> Job] /\ JobsFit'
  <2>1. period[s] # 0
    <3>1. CASE kind \in {"paid", "failed"}
      BY <1>5, <3>1, ChargedIsBegun DEF Webhook, Deliverable
    <3>2. CASE kind = "deleted"
      BY <1>5, <3>2, LiveIsBegun DEF Webhook, Deliverable
    <3>3. CASE kind = "completed"
      BY <1>5, <3>3 DEF Webhook, Deliverable
    <3>4. QED
      BY <3>1, <3>2, <3>3
  <2>2. PICK i \in Invoice : i = Current(s)
    BY <2>1, BegunIsOpened
  <2>3. i[1] = s /\ i[2] = period[s] /\ i[2] <= period[i[1]]
    BY <2>1, <2>2, BegunIsOpened DEF Current
  <2>4. ~crossed' => NotAfter(pass.until, i) /\ (pass.sub # Pending => i[1] = pass.sub)
    BY <1>5, <2>1, <2>2, <2>3, OwnIsLatest DEF Webhook, NoteCrossing
  <2>5. PICK at \in {"activate", "ask", "write"} : at = Handling(kind)
    BY DEF Handling
  <2>6. Begin(c, kind, at, i)
    BY <1>5, <2>2, <2>5 DEF Webhook
  <2>7. kind = "failed" => pass.status \notin {"CANCELED", "FAILED_CARD"}
    BY <1>5 DEF Webhook, Relevant
  <2>8. QED
    BY <1>1, <2>2, <2>3, <2>4, <2>6, <2>7, JobBegun
<1>6. CASE CancelOrphans(c) \/ Upsert(c)
  BY <1>6, JobGoesOn DEF CancelOrphans, Upsert
<1>7. CASE OpenSession(c) \/ WriteCancel(c) \/ Activate(c) \/ WriteStatus(c)
           \/ DeleteRow(c) \/ WriteRedeem(c) \/ Die(c)
  BY <1>7, JobFinished DEF OpenSession, WriteCancel, Activate, WriteStatus,
     DeleteRow, WriteRedeem, Die
<1>8. CASE AskToEnd(c)
  <2>1. CASE Finish(c)
    BY <2>1, JobFinished
  <2>2. CASE ~Finish(c)
    <3>1. PICK j \in Job : j = job[c]
      BY DEF PassTypeOK
    <3>2. /\ j.row.sub \in Sub /\ willEnd' = [willEnd EXCEPT ![j.row.sub] = TRUE]
          /\ job' = [job EXCEPT ![c].at = "write"] /\ JobFits(j)
      BY <1>8, <2>2, <3>1 DEF AskToEnd, GoesTo, JobsFit
    <3>3. PICK x : x = [j EXCEPT !.at = "write"]
      OBVIOUS
    <3>4. x \in Job /\ x.at = "write" /\ x.kind = j.kind /\ x.row = j.row
      BY <3>1, <3>3 DEF Job, PassStep
    <3>5. job' = [job EXCEPT ![c] = x]
      BY <3>1, <3>2, <3>3 DEF PassTypeOK
    <3>6. willEnd'[j.row.sub]
      BY <3>2 DEF PassTypeOK
    <3>7. JobFits(x)'
      BY <3>2, <3>4, <3>6 DEF JobFits, PeriodBegan, Justified, OnOwn
    <3>8. QED
      BY <3>4, <3>5, <3>7, OneJobMoves
  <2>3. QED
    BY <2>1, <2>2
<1>9. CASE AskRemote(c)
  BY <1>9, RemoteAsked
<1>10. QED
  BY <1>2, <1>3, <1>4, <1>5, <1>6, <1>7, <1>8, <1>9 DEF Handler

-----------------------------------------------------------------------------
(* The row and its ledger.                                                 *)

RowFine == pass \in PassRow /\ RowInOrder /\ PendingEndsNot /\ EndIsKnownToStripe

LedgerFine ==
    /\ resets \in [Invoice -> [invoiced : 0..MaxReset, polled : 0..MaxReset]]
    /\ redeemed \in Nat
    /\ CreditsExplained /\ LinesBehind /\ PeriodFillsOnce

\* A handler that does not write over what it did not read has the row in hand.
LEMMA AsRead ==
    ASSUME PassTypeOK, NEW r \in PassRow, ~Unread(r)
    PROVE  /\ r.exists = pass.exists /\ r.status = pass.status /\ r.sub = pass.sub
           /\ r.until = pass.until /\ r.ends = pass.ends
<1>1. pass \in PassRow
  BY DEF PassTypeOK
<1>2. PICK p : p = [pass EXCEPT !.balance = r.balance]
  OBVIOUS
<1>3. /\ p.exists = pass.exists /\ p.status = pass.status /\ p.sub = pass.sub
      /\ p.until = pass.until /\ p.ends = pass.ends
  BY <1>1, <1>2 DEF PassRow
<1>4. p = r
  BY <1>2 DEF Unread
<1>5. QED
  BY <1>3, <1>4

LEMMA LinesTyped ==
    ASSUME PassTypeOK, NEW i \in Invoice
    PROVE  /\ resets[i].invoiced \in 0..MaxReset /\ resets[i].polled \in 0..MaxReset
           /\ Lines(i) \in Nat /\ MaxReset \in Nat
           /\ Lines(i) = resets[i].invoiced + resets[i].polled
<1>1. MaxReset \in Nat
  BY PassAssumption
<1>2. resets[i] \in [invoiced : 0..MaxReset, polled : 0..MaxReset]
  BY DEF PassTypeOK
<1>3. QED
  BY <1>1, <1>2 DEF Lines

\* A step that gives the row no other subscription, and says that it ends only
\* when Stripe knows.
LEMMA RowMoves ==
    ASSUME PassTypeOK, StripeTyped', Grows,
           RowInOrder, PendingEndsNot, EndIsKnownToStripe,
           pass' \in PassRow,
           pass'.until = pass.until \/ (pass'.until = NoEnd /\ pass'.sub = Pending),
           pass'.sub \in {pass.sub, Pending},
           ~pass'.exists => pass'.until = NoEnd,
           pass'.ends /\ ~raced' =>
              /\ pass'.sub = pass.sub
              /\ pass.ends \/ (pass.sub \in Sub /\ willEnd'[pass.sub])
    PROVE  RowFine'
<1>1. RowInOrder'
  <2>1. ASSUME pass'.until # NoEnd
        PROVE  pass'.until[2] <= period'[pass'.until[1]]
    <3>1. PICK i \in Invoice : i = pass'.until /\ i = pass.until
      BY <2>1 DEF PassRow
    <3>2. i[1] \in Sub /\ i[2] \in Nat /\ i[2] <= period[i[1]]
      BY <2>1, <3>1, InvoiceShape DEF RowInOrder
    <3>3. QED
      BY <3>1, <3>2 DEF Grows, PassTypeOK, StripeTyped
  <2>2. pass'.sub # Pending => pass'.until[1] = pass'.sub
    BY DEF RowInOrder
  <2>3. QED
    BY <2>1, <2>2 DEF RowInOrder
<1>2. Pending \notin Sub /\ pass.sub \in Sub \cup {Pending}
  BY PassAssumption DEF Pending, Sub, PassTypeOK, PassRow
<1>3. raced => raced'
  BY DEF Grows
<1>4. PendingEndsNot'
  BY <1>2, <1>3 DEF PendingEndsNot
<1>5. EndIsKnownToStripe'
  <2>1. ASSUME ~raced', ~crossed', pass'.ends, pass'.sub # Pending
        PROVE  willEnd'[pass'.sub] \/ remote'[pass'.sub] = "CANCELED"
    <3>1. pass'.sub = pass.sub /\ pass.sub \in Sub /\ ~raced /\ ~crossed
      BY <1>2, <2>1 DEF Grows
    <3>2. CASE pass.ends
      <4>1. willEnd[pass.sub] \/ remote[pass.sub] = "CANCELED"
        BY <1>2, <3>1, <3>2 DEF EndIsKnownToStripe
      <4>2. QED
        BY <3>1, <4>1 DEF Grows
    <3>3. CASE ~pass.ends
      BY <2>1, <3>1, <3>3
    <3>4. QED
      BY <3>2, <3>3
  <2>2. QED
    BY <2>1 DEF EndIsKnownToStripe
<1>6. QED
  BY <1>1, <1>4, <1>5 DEF RowFine

LEMMA RowKept ==
    ASSUME PassTypeOK, StripeTyped', Grows,
           RowInOrder, PendingEndsNot, EndIsKnownToStripe, UNCHANGED pass
    PROVE  RowFine'
<1>1. pass \in PassRow /\ (~pass.exists => pass.until = NoEnd)
  BY DEF PassTypeOK, RowInOrder
<1>2. QED
  BY <1>1, RowMoves

\* A step that leaves the lines and the period of the row alone, and does not
\* create credits.
LEMMA LedgerKept ==
    ASSUME PassTypeOK, Grows, CreditsExplained, LinesBehind, PeriodFillsOnce,
           UNCHANGED resets, redeemed' \in Nat, pass' \in PassRow,
           redeemed' + pass'.balance <= redeemed + pass.balance,
           pass'.until = pass.until
    PROVE  LedgerFine'
<1>1. ResetLines' = ResetLines /\ \A i \in Invoice : Lines(i)' = Lines(i)
  BY DEF ResetLines, Lines
<1>2. /\ Cardinality(ResetLines) \in Nat /\ Credits \in Nat
      /\ redeemed \in Nat /\ pass.balance \in Nat /\ pass'.balance \in Nat
  BY LinesFinite, PassAssumption DEF PassTypeOK, PassRow
<1>3. CreditsExplained'
  <2>1. PICK m \in Nat : m = Credits * Cardinality(ResetLines)
    BY <1>2
  <2>2. redeemed + pass.balance <= m
    BY <2>1 DEF CreditsExplained
  <2>3. redeemed' + pass'.balance <= m
    BY <1>2, <2>2
  <2>4. QED
    BY <1>1, <2>1, <2>3 DEF CreditsExplained
<1>4. LinesBehind'
  BY <1>1 DEF LinesBehind, Grows
<1>5. PeriodFillsOnce'
  BY <1>1 DEF PeriodFillsOnce, Grows
<1>6. QED
  BY <1>3, <1>4, <1>5 DEF LedgerFine, PassTypeOK

LEMMA LedgerAlone ==
    ASSUME PassTypeOK, Grows, CreditsExplained, LinesBehind, PeriodFillsOnce,
           UNCHANGED <<resets, redeemed, pass>>
    PROVE  LedgerFine'
<1>1. redeemed \in Nat /\ pass \in PassRow /\ pass.balance \in Nat
  BY PassAssumption DEF PassTypeOK, PassRow
<1>2. QED
  BY <1>1, LedgerKept

-----------------------------------------------------------------------------
(* The writes of the row.                                                  *)

LEMMA UpsertFine ==
    ASSUME PassInv, Grows, StripeTyped', NEW c \in Slot, Upsert(c)
    PROVE  RowFine' /\ LedgerFine'
<1>1. /\ PassTypeOK /\ RowInOrder /\ PendingEndsNot /\ EndIsKnownToStripe
      /\ CreditsExplained /\ LinesBehind /\ PeriodFillsOnce
  BY DEF PassInv
<1>2. /\ pass \in PassRow /\ redeemed \in Nat /\ MaxRow \in Nat /\ Credits \in Nat
      /\ UNCHANGED <<resets, redeemed>>
  BY <1>1, PassAssumption DEF PassTypeOK, Upsert, ledgerVars
<1>3. CASE pass.exists
  <2>1. pass' = PendingRow
    BY <1>3 DEF Upsert
  <2>2. /\ pass' \in PassRow /\ pass'.exists /\ pass'.sub = Pending /\ ~pass'.ends
        /\ pass'.until = pass.until /\ pass'.balance = pass.balance
    BY <1>2, <1>3, <2>1 DEF PendingRow, PassRow
  <2>3. RowFine'
    BY <1>1, <2>2, RowMoves
  <2>4. pass.balance \in Nat
    BY <1>2 DEF PassRow
  <2>5. LedgerFine'
    BY <1>1, <1>2, <2>2, <2>4, LedgerKept
  <2>6. QED
    BY <2>3, <2>5
<1>4. CASE ~pass.exists
  <2>1. pass' = FreshRow /\ pass.id < MaxRow
    BY <1>4 DEF Upsert
  <2>2. /\ pass' \in PassRow /\ pass'.exists /\ pass'.sub = Pending /\ ~pass'.ends
        /\ pass'.until = NoEnd /\ pass'.balance = 0
    <3>1. pass' = [NoRow EXCEPT !.exists = TRUE, !.id = pass.id + 1]
      BY <2>1 DEF FreshRow
    <3>2. pass.id + 1 \in 0..MaxRow
      BY <1>2, <2>1 DEF PassRow
    <3>3. QED
      BY <3>1, <3>2, NoRowIsBlank DEF PassRow
  <2>3. pass.until = NoEnd
    BY <1>1, <1>4 DEF RowInOrder
  <2>4. RowFine'
    BY <1>1, <2>2, <2>3, RowMoves
  <2>5. pass.balance \in Nat
    BY <1>2 DEF PassRow
  <2>6. LedgerFine'
    BY <1>1, <1>2, <2>2, <2>3, <2>5, LedgerKept
  <2>7. QED
    BY <2>4, <2>6
<1>5. QED
  BY <1>3, <1>4

LEMMA WriteCancelFine ==
    ASSUME PassInv, Grows, StripeTyped', NEW c \in Slot, WriteCancel(c)
    PROVE  RowFine' /\ LedgerFine'
<1>1. /\ PassTypeOK /\ RowInOrder /\ PendingEndsNot /\ EndIsKnownToStripe
      /\ CreditsExplained /\ LinesBehind /\ PeriodFillsOnce
  BY DEF PassInv
<1>2. /\ pass \in PassRow /\ redeemed \in Nat /\ pass.balance \in Nat
      /\ UNCHANGED <<resets, redeemed>>
  BY <1>1, PassAssumption DEF PassTypeOK, PassRow, WriteCancel, ledgerVars
<1>3. PICK j \in Job : j = job[c]
  BY <1>1 DEF PassTypeOK
<1>4. j.row.sub \in Sub /\ willEnd[j.row.sub]
  BY <1>3 DEF WriteCancel, PassInv, JobsFit, JobFits, Justified
<1>5. CASE ~(pass.exists /\ pass.id = j.row.id)
  <2>1. UNCHANGED pass
    BY <1>3, <1>5 DEF WriteCancel, Update
  <2>2. QED
    BY <1>1, <1>2, <2>1, RowKept, LedgerAlone
<1>6. CASE pass.exists /\ pass.id = j.row.id
  <2>1. /\ pass' = [pass EXCEPT !.status = "CANCEL_PENDING", !.ends = TRUE]
        /\ ~raced' => ~Unread(j.row)
    BY <1>3, <1>6 DEF WriteCancel, Update
  <2>2. /\ pass' \in PassRow /\ pass'.exists = pass.exists /\ pass'.sub = pass.sub
        /\ pass'.until = pass.until /\ pass'.balance = pass.balance
    BY <1>2, <2>1 DEF PassRow
  <2>3. ~raced' => pass.sub \in Sub /\ willEnd'[pass.sub]
    <3>1. j.row \in PassRow
      BY DEF Job
    <3>2. ~raced' => j.row.sub = pass.sub
      BY <1>1, <2>1, <3>1, AsRead
    <3>3. QED
      BY <1>4, <3>2 DEF Grows
  <2>4. RowFine'
    BY <1>1, <1>6, <2>2, <2>3, RowMoves
  <2>5. LedgerFine'
    BY <1>1, <1>2, <2>2, LedgerKept
  <2>6. QED
    BY <2>4, <2>5
<1>7. QED
  BY <1>5, <1>6

LEMMA WriteStatusFine ==
    ASSUME PassInv, Grows, StripeTyped', NEW c \in Slot, WriteStatus(c)
    PROVE  RowFine' /\ LedgerFine'
<1>1. /\ PassTypeOK /\ RowInOrder /\ PendingEndsNot /\ EndIsKnownToStripe
      /\ CreditsExplained /\ LinesBehind /\ PeriodFillsOnce
  BY DEF PassInv
<1>2. /\ pass \in PassRow /\ redeemed \in Nat /\ pass.balance \in Nat
      /\ UNCHANGED <<resets, redeemed>>
  BY <1>1, PassAssumption DEF PassTypeOK, PassRow, WriteStatus, ledgerVars
<1>3. CASE UNCHANGED pass
  BY <1>1, <1>2, <1>3, RowKept, LedgerAlone
<1>4. CASE ~UNCHANGED pass
  <2>1. /\ pass.exists
        /\ \/ pass' = [pass EXCEPT !.status = "FAILED_CARD"]
           \/ pass' = [pass EXCEPT !.status = "CANCELED", !.ends = FALSE]
    BY <1>4 DEF WriteStatus, Update
  <2>2. /\ pass' \in PassRow /\ pass'.exists = pass.exists /\ pass'.sub = pass.sub
        /\ pass'.until = pass.until /\ pass'.balance = pass.balance
        /\ pass'.ends => pass.ends
    BY <1>2, <2>1 DEF PassRow
  <2>3. RowFine'
    BY <1>1, <2>1, <2>2, RowMoves
  <2>4. LedgerFine'
    BY <1>1, <1>2, <2>2, LedgerKept
  <2>5. QED
    BY <2>3, <2>4
<1>5. QED
  BY <1>3, <1>4

LEMMA WriteRedeemFine ==
    ASSUME PassInv, Grows, StripeTyped', NEW c \in Slot, WriteRedeem(c)
    PROVE  RowFine' /\ LedgerFine'
<1>1. /\ PassTypeOK /\ RowInOrder /\ PendingEndsNot /\ EndIsKnownToStripe
      /\ CreditsExplained /\ LinesBehind /\ PeriodFillsOnce
  BY DEF PassInv
<1>2. /\ pass \in PassRow /\ redeemed \in Nat /\ Credits \in Nat
      /\ UNCHANGED resets
  BY <1>1, PassAssumption DEF PassTypeOK, WriteRedeem
<1>3. CASE UNCHANGED <<pass, redeemed>>
  BY <1>1, <1>2, <1>3, RowKept, LedgerAlone
<1>4. CASE ~UNCHANGED <<pass, redeemed>>
  <2>1. /\ pass.exists /\ pass.balance > 0 /\ redeemed' = redeemed + 1
        /\ pass' = [pass EXCEPT !.balance = pass.balance - 1]
    BY <1>4 DEF WriteRedeem
  <2>2. /\ pass' \in PassRow /\ pass'.exists = pass.exists /\ pass'.sub = pass.sub
        /\ pass'.until = pass.until /\ pass'.ends = pass.ends
        /\ pass'.balance = pass.balance - 1 /\ pass.balance \in Nat
    <3>1. pass.balance \in 0..Credits
      BY <1>2 DEF PassRow
    <3>2. PICK b \in 0..Credits : b = pass.balance - 1
      BY <1>2, <2>1, <3>1
    <3>3. pass' = [pass EXCEPT !.balance = b]
      BY <2>1, <3>2
    <3>4. /\ pass' \in PassRow /\ pass'.exists = pass.exists /\ pass'.sub = pass.sub
          /\ pass'.until = pass.until /\ pass'.ends = pass.ends /\ pass'.balance = b
      BY <1>2, <3>3 DEF PassRow
    <3>5. QED
      BY <1>2, <3>1, <3>2, <3>4
  <2>3. RowFine'
    BY <1>1, <2>1, <2>2, RowMoves
  <2>4. redeemed' \in Nat /\ redeemed' + pass'.balance <= redeemed + pass.balance
    BY <1>2, <2>1, <2>2
  <2>5. LedgerFine'
    BY <1>1, <1>2, <2>2, <2>4, LedgerKept
  <2>6. QED
    BY <2>3, <2>5
<1>5. QED
  BY <1>3, <1>4

LEMMA DeleteRowFine ==
    ASSUME PassInv, Grows, StripeTyped', NEW c \in Slot, DeleteRow(c)
    PROVE  RowFine' /\ LedgerFine'
<1>1. /\ PassTypeOK /\ RowInOrder /\ PendingEndsNot /\ EndIsKnownToStripe
      /\ CreditsExplained /\ LinesBehind /\ PeriodFillsOnce
  BY DEF PassInv
<1>2. /\ pass \in PassRow /\ redeemed \in Nat /\ Credits \in Nat
      /\ UNCHANGED <<resets, redeemed>>
  BY <1>1, PassAssumption DEF PassTypeOK, DeleteRow, ledgerVars
<1>3. CASE UNCHANGED pass
  BY <1>1, <1>2, <1>3, RowKept, LedgerAlone
<1>4. CASE ~UNCHANGED pass
  <2>1. /\ \A i \in Invoice : resets[i].invoiced = 0 /\ resets[i].polled = 0
        /\ pass' = [NoRow EXCEPT !.id = pass.id]
    BY <1>4 DEF DeleteRow, Update
  <2>2. /\ pass' \in PassRow /\ pass'.sub = Pending /\ pass'.until = NoEnd
        /\ ~pass'.ends /\ pass'.balance = 0
    BY <1>2, <2>1, NoRowIsBlank DEF PassRow
  <2>3. RowFine'
    BY <1>1, <2>2, RowMoves
  <2>4. \A i \in Invoice : Lines(i)' = 0
    BY <1>2, <2>1 DEF Lines
  <2>5. CreditsExplained'
    <3>1. ResetLines' = ResetLines
      BY <1>2 DEF ResetLines
    <3>2. PICK m \in Nat : m = Credits * Cardinality(ResetLines)
      BY <1>2, LinesFinite
    <3>3. redeemed + pass.balance <= m /\ pass.balance \in Nat
      BY <1>1, <1>2, <3>2 DEF CreditsExplained, PassRow
    <3>4. redeemed' + pass'.balance <= m
      BY <1>2, <2>2, <3>3
    <3>5. QED
      BY <3>1, <3>2, <3>4 DEF CreditsExplained
  <2>6. LedgerFine'
    BY <1>1, <1>2, <2>4, <2>5
      DEF LedgerFine, LinesBehind, PeriodFillsOnce, PassTypeOK
  <2>7. QED
    BY <2>3, <2>6
<1>5. QED
  BY <1>3, <1>4

\* activate, with the row that was read or another.
LEMMA ActivateFine ==
    ASSUME PassInv, Grows, StripeTyped', NEW c \in Slot, Activate(c)
    PROVE  RowFine' /\ LedgerFine'
<1>1. /\ PassTypeOK /\ RowInOrder /\ PendingEndsNot /\ EndIsKnownToStripe
      /\ CreditsExplained /\ LinesBehind /\ PeriodFillsOnce
  BY DEF PassInv
<1>2. /\ pass \in PassRow /\ redeemed \in Nat /\ Credits \in Nat
      /\ pass.balance \in 0..Credits /\ UNCHANGED redeemed
  BY <1>1, PassAssumption DEF PassTypeOK, PassRow, Activate
<1>3. PICK j \in Job : j = job[c]
  BY <1>1 DEF PassTypeOK
<1>4. j.row \in PassRow /\ j.at = "activate" /\ JobFits(j) /\ j.ends \in BOOLEAN
  BY <1>3 DEF Activate, PassInv, JobsFit, Job
<1>5. PICK i \in Invoice : i = j.invoice /\ i[2] <= period[i[1]]
  BY <1>4 DEF JobFits, PeriodBegan
<1>6. /\ i[1] \in Sub /\ i[2] \in Nat /\ Pending \notin Sub
  BY InvoiceShape, PassAssumption DEF Pending, Sub
<1>7. CASE ~(pass.exists /\ pass.id = j.row.id)
  <2>1. UNCHANGED <<pass, resets>>
    BY <1>3, <1>7 DEF Activate, Update
  <2>2. QED
    BY <1>1, <1>2, <2>1, RowKept, LedgerAlone
<1>8. CASE pass.exists /\ pass.id = j.row.id
  <2>1. /\ pass' = Activated(c, ~Duplicate(c))
        /\ ~raced' => ~Unread(j.row)
    BY <1>3, <1>8 DEF Activate, Update
  <2>2. PICK e \in BOOLEAN : e = IF j.kind = "paid" THEN j.row.ends ELSE j.ends
    BY <1>4 DEF PassRow
  <2>3. PICK b \in 0..Credits : b = IF Duplicate(c) THEN pass.balance ELSE Credits
    BY <1>2
  <2>4. pass' = [pass EXCEPT !.status = "ACTIVE", !.sub = i[1], !.until = i,
                             !.ends = e, !.balance = b]
    BY <1>3, <1>5, <2>1, <2>2, <2>3 DEF Activated
  <2>5. /\ pass' \in PassRow /\ pass'.exists /\ pass'.sub = i[1] /\ pass'.until = i
        /\ pass'.ends = e /\ pass'.balance = b
    BY <1>2, <1>6, <1>8, <2>4 DEF PassRow
  <2>6. ASSUME ~raced', ~crossed'
        PROVE  /\ ~raced /\ ~crossed /\ j.row.until = pass.until /\ j.row.ends = pass.ends
               /\ NotAfter(pass.until, i) /\ (pass.sub # Pending => i[1] = pass.sub)
    <3>1. j.row.until = pass.until /\ j.row.ends = pass.ends /\ j.row.sub = pass.sub
      BY <1>1, <1>4, <2>1, <2>6, AsRead
    <3>2. ~raced /\ ~crossed
      BY <2>6 DEF Grows
    <3>3. OnOwn(j)
      BY <1>4 DEF JobFits
    <3>4. QED
      BY <1>4, <1>5, <3>1, <3>2, <3>3 DEF OnOwn
  <2>7. RowInOrder'
    <3>1. period[i[1]] <= period'[i[1]]
      BY <1>6 DEF Grows
    <3>2. period[i[1]] \in Nat /\ period'[i[1]] \in Nat
      BY <1>1, <1>6 DEF PassTypeOK, StripeTyped
    <3>3. i[2] <= period'[i[1]]
      BY <1>5, <1>6, <3>1, <3>2
    <3>4. QED
      BY <2>5, <3>3 DEF RowInOrder
  <2>8. PendingEndsNot'
    BY <1>6, <2>5 DEF PendingEndsNot
  <2>9. EndIsKnownToStripe'
    <3>1. ASSUME ~raced', ~crossed', e
          PROVE  willEnd'[i[1]] \/ remote'[i[1]] = "CANCELED"
      <4>1. CASE j.kind = "paid"
        <5>1. pass.ends /\ ~raced /\ ~crossed
          BY <2>2, <2>6, <3>1, <4>1
        <5>2. pass.sub # Pending /\ i[1] = pass.sub
          BY <1>1, <2>6, <3>1, <5>1 DEF PendingEndsNot
        <5>3. willEnd[i[1]] \/ remote[i[1]] = "CANCELED"
          BY <1>1, <5>1, <5>2 DEF EndIsKnownToStripe
        <5>4. QED
          BY <1>6, <5>3 DEF Grows
      <4>2. CASE j.kind # "paid"
        <5>1. willEnd[i[1]]
          BY <1>4, <1>5, <2>2, <3>1, <4>2 DEF JobFits, Justified
        <5>2. QED
          BY <1>6, <5>1 DEF Grows
      <4>3. QED
        BY <4>1, <4>2
    <3>2. QED
      BY <2>5, <3>1 DEF EndIsKnownToStripe
  <2>10. RowFine'
    BY <2>5, <2>7, <2>8, <2>9 DEF RowFine
  <2>11. ASSUME ~raced', ~crossed', NEW k \in Invoice, Lines(k) > 0
         PROVE  NotAfter(k, i)
    <3>1. NotAfter(k, pass.until)
      BY <1>1, <2>6, <2>11 DEF LinesBehind
    <3>2. pass.until \in Invoice \cup {NoEnd}
      BY <1>2 DEF PassRow
    <3>3. QED
      BY <2>6, <2>11, <3>1, <3>2, NotAfterThird
  <2>12. CASE Duplicate(c)
    <3>1. UNCHANGED resets /\ b = pass.balance
      BY <2>3, <2>12 DEF Activate
    <3>2. ResetLines' = ResetLines /\ \A k \in Invoice : Lines(k)' = Lines(k)
      BY <3>1 DEF ResetLines, Lines
    <3>3. CreditsExplained'
      BY <1>1, <1>2, <2>5, <3>1, <3>2 DEF CreditsExplained
    <3>4. LinesBehind'
      BY <2>5, <2>11, <3>2 DEF LinesBehind
    <3>5. PeriodFillsOnce'
      BY <1>1, <3>2 DEF PeriodFillsOnce, Grows
    <3>6. LedgerFine'
      BY <1>1, <1>2, <3>1, <3>3, <3>4, <3>5 DEF LedgerFine, PassTypeOK
    <3>7. QED
      BY <2>10, <3>6
  <2>13. CASE ~Duplicate(c)
    <3>1. /\ resets' = AddReset(c) /\ b = Credits
          /\ resets[i].invoiced < MaxReset /\ resets[i].polled < MaxReset
      BY <1>3, <1>5, <1>8, <2>3, <2>13 DEF Activate
    <3>2. PICK k \in LineKind : k = IF j.kind = "paid" THEN "invoiced" ELSE "polled"
      BY DEF LineKind
    <3>3. resets' = [resets EXCEPT ![i] = [resets[i] EXCEPT ![k] = resets[i][k] + 1]]
      BY <1>1, <1>3, <1>5, <3>1, <3>2 DEF AddReset, PassTypeOK
    <3>4. /\ resets[i] \in [invoiced : 0..MaxReset, polled : 0..MaxReset]
          /\ resets[i][k] \in 0..MaxReset /\ resets[i][k] < MaxReset /\ MaxReset \in Nat
      BY <1>1, <3>1, LinesTyped DEF PassTypeOK, LineKind
    <3>5. PICK n \in 0..MaxReset : n = resets[i][k] + 1
      BY <3>4
    <3>6. PICK r : r = [resets[i] EXCEPT ![k] = n]
      OBVIOUS
    <3>7. /\ r \in [invoiced : 0..MaxReset, polled : 0..MaxReset]
          /\ r[k] = n /\ \A h \in LineKind \ {k} : r[h] = resets[i][h]
      BY <3>4, <3>6 DEF LineKind
    <3>8. /\ resets' \in [Invoice -> [invoiced : 0..MaxReset, polled : 0..MaxReset]]
          /\ resets'[i] = r /\ \A z \in Invoice \ {i} : resets'[z] = resets[z]
      BY <1>1, <3>3, <3>5, <3>6, <3>7 DEF PassTypeOK
    <3>9. \A z \in Invoice, h \in LineKind :
             resets'[z][h] = resets[z][h] + (IF z = i /\ h = k THEN 1 ELSE 0)
      <4>1. ASSUME NEW z \in Invoice, NEW h \in LineKind
            PROVE  resets'[z][h] = resets[z][h] + (IF z = i /\ h = k THEN 1 ELSE 0)
        <5>1. resets[z][h] \in Nat
          BY <1>1, LinesTyped DEF LineKind
        <5>2. CASE z = i /\ h = k
          BY <3>5, <3>7, <3>8, <5>1, <5>2
        <5>3. CASE z = i /\ h # k
          BY <3>7, <3>8, <5>1, <5>3
        <5>4. CASE z # i
          BY <3>8, <5>1, <5>4
        <5>5. QED
          BY <5>2, <5>3, <5>4
      <4>2. QED
        BY <4>1
    <3>10. CreditsExplained'
      <4>1. Cardinality(ResetLines)' = Cardinality(ResetLines) + 1
        BY <1>1, <3>4, <3>9, LineAdded
      <4>2. PICK m \in Nat : m = Cardinality(ResetLines)
        BY LinesFinite
      <4>3. redeemed + pass.balance <= Credits * m
        BY <1>1, <4>2 DEF CreditsExplained
      <4>4. Credits * (m + 1) = Credits * m + Credits /\ Credits * m \in Nat
        BY <1>2
      <4>5. redeemed + Credits <= Credits * (m + 1)
        BY <1>2, <4>3, <4>4
      <4>6. QED
        BY <1>2, <2>5, <3>1, <4>1, <4>2, <4>5 DEF CreditsExplained
    <3>11. \A z \in Invoice \ {i} : Lines(z)' = Lines(z)
      BY <3>8 DEF Lines
    <3>12. LinesBehind'
      <4>1. ASSUME ~raced', ~crossed', NEW z \in Invoice, Lines(z)' > 0
            PROVE  NotAfter(z, i)
        <5>1. CASE z = i
          BY <5>1, NotAfterItself
        <5>2. CASE z # i
          BY <2>11, <3>11, <4>1, <5>2
        <5>3. QED
          BY <5>1, <5>2
      <4>2. QED
        BY <2>5, <4>1 DEF LinesBehind
    <3>13. PeriodFillsOnce'
      <4>1. ASSUME ~raced', ~crossed'
            PROVE  Lines(i)' <= 1
        <5>1. ~(Lines(i) > 0)
          <6>1. ASSUME Lines(i) > 0
                PROVE  FALSE
            <7>1. NotAfter(i, pass.until) /\ NotAfter(pass.until, i)
              BY <1>1, <2>6, <4>1, <6>1 DEF LinesBehind
            <7>2. pass.until = i
              BY <1>2, <7>1, NotAfterBoth DEF PassRow
            <7>3. j.row.until = i
              BY <2>6, <4>1, <7>2
            <7>4. QED
              BY <1>3, <1>5, <2>13, <7>3 DEF Duplicate
          <6>2. QED
            BY <6>1
        <5>2. /\ resets[i].invoiced = 0 /\ resets[i].polled = 0
          BY <1>1, <5>1, LinesTyped
        <5>3. /\ resets'[i].invoiced = resets[i].invoiced + (IF k = "invoiced" THEN 1 ELSE 0)
              /\ resets'[i].polled = resets[i].polled + (IF k = "polled" THEN 1 ELSE 0)
          BY <3>9 DEF LineKind
        <5>4. QED
          BY <5>2, <5>3 DEF Lines, LineKind
      <4>2. ASSUME ~raced', ~crossed', NEW z \in Invoice
            PROVE  Lines(z)' <= 1
        <5>1. CASE z = i
          BY <4>1, <4>2, <5>1
        <5>2. CASE z # i
          BY <1>1, <2>6, <3>11, <4>2, <5>2 DEF PeriodFillsOnce
        <5>3. QED
          BY <5>1, <5>2
      <4>3. QED
        BY <4>2 DEF PeriodFillsOnce
    <3>14. LedgerFine'
      BY <1>2, <3>8, <3>10, <3>12, <3>13 DEF LedgerFine
    <3>15. QED
      BY <2>10, <3>14
  <2>14. QED
    BY <2>12, <2>13
<1>9. QED
  BY <1>7, <1>8

LEMMA HandlerRows ==
    ASSUME PassInv, Grows, StripeTyped', NEW c \in Slot, Handler(c)
    PROVE  RowFine' /\ LedgerFine'
<1>1. CASE UNCHANGED <<pass, resets, redeemed>>
  BY <1>1, RowKept, LedgerAlone DEF PassInv
<1>2. CASE Upsert(c) \/ WriteCancel(c) \/ Activate(c)
  BY <1>2, UpsertFine, WriteCancelFine, ActivateFine
<1>3. CASE WriteStatus(c) \/ DeleteRow(c) \/ WriteRedeem(c)
  BY <1>3, WriteStatusFine, DeleteRowFine, WriteRedeemFine
<1>4. CASE \/ Subscribe(c) \/ CancelOrphans(c) \/ OpenSession(c) \/ Cancel(c)
           \/ AskToEnd(c) \/ AskRemote(c) \/ Redeem(c) \/ Die(c)
           \/ \E s \in Sub : Confirm(c, s)
           \/ \E s \in Sub, kind \in {"paid", "failed", "deleted", "expired", "completed"} :
                 Webhook(c, kind, s)
  <2>1. UNCHANGED <<pass, resets, redeemed>>
    BY <1>4
      DEF Subscribe, CancelOrphans, OpenSession, Cancel, AskToEnd, AskRemote,
       Redeem, Die, Confirm, Webhook, Begin, ledgerVars
  <2>2. QED
    BY <1>1, <2>1
<1>5. QED
  BY <1>2, <1>3, <1>4 DEF Handler

-----------------------------------------------------------------------------
LEMMA PassInitInv == PassInit => PassInv
<1> SUFFICES ASSUME PassInit
             PROVE  PassInv
  OBVIOUS
<1>1. /\ Credits \in Nat /\ MaxSub \in Nat /\ MaxRow \in Nat /\ MaxReset \in Nat
      /\ \A s \in Sub : MaxPeriod[s] \in Nat
  BY PassAssumption DEF Sub
<1>2. PassTypeOK
  <2>1. /\ remote \in [Sub -> {"none", "open", "expired", "ACTIVE", "past_due", "CANCELED"}]
        /\ period \in [Sub -> Nat] /\ \A s \in Sub : period[s] <= MaxPeriod[s]
        /\ willEnd \in [Sub -> BOOLEAN] /\ paid = {} /\ declined = {}
        /\ opened \in 0..MaxSub /\ redeemed \in Nat /\ raced = FALSE /\ crossed = FALSE
    BY <1>1 DEF PassInit
  <2>2. pass \in PassRow /\ job \in [Slot -> Job]
    BY NoJobTyped DEF PassInit
  <2>3. resets \in [Invoice -> [invoiced : 0..MaxReset, polled : 0..MaxReset]]
    BY <1>1 DEF PassInit
  <2>4. QED
    BY <2>1, <2>2, <2>3 DEF PassTypeOK
<1>3. StripeInOrder
  BY DEF PassInit, StripeInOrder
<1>4. RowInOrder /\ PendingEndsNot /\ EndIsKnownToStripe
  BY NoRowIsBlank DEF PassInit, RowInOrder, PendingEndsNot, EndIsKnownToStripe
<1>5. JobsFit
  <2>1. \A c \in Slot : job[c].at = "idle" /\ job[c].kind = "none"
    BY DEF PassInit, NoJob
  <2>2. QED
    BY <2>1 DEF JobsFit, JobFits, PeriodBegan, Justified, OnOwn
<1>6. \A i \in Invoice : Lines(i) = 0
  BY DEF PassInit, Lines
<1>7. LinesBehind /\ PeriodFillsOnce
  BY <1>6 DEF LinesBehind, PeriodFillsOnce
<1>8. CreditsExplained
  <2>1. PICK m \in Nat : m = Credits * Cardinality(ResetLines)
    BY <1>1, LinesFinite
  <2>2. redeemed = 0 /\ pass.balance = 0
    BY NoRowIsBlank DEF PassInit
  <2>3. QED
    BY <2>1, <2>2 DEF CreditsExplained
<1>9. QED
  BY <1>2, <1>3, <1>4, <1>5, <1>7, <1>8 DEF PassInv

LEMMA PassNextInv == PassInv /\ [PassNext]_passVars => PassInv'
<1> SUFFICES ASSUME PassInv, [PassNext]_passVars
             PROVE  PassInv'
  OBVIOUS
<1>1. /\ PassTypeOK /\ StripeInOrder /\ RowInOrder /\ PendingEndsNot
      /\ EndIsKnownToStripe /\ JobsFit /\ CreditsExplained /\ LinesBehind
      /\ PeriodFillsOnce
  BY DEF PassInv
<1>2. ASSUME StripeTyped', StripeInOrder', job' \in [Slot -> Job], JobsFit',
             RowFine', LedgerFine'
      PROVE  PassInv'
  BY <1>2 DEF PassInv, PassTypeOK, StripeTyped, RowFine, LedgerFine
<1>3. ASSUME Stripe
      PROVE  PassInv'
  BY <1>1, <1>2, <1>3, StripeMoves, JobsKept, RowKept, LedgerAlone
<1>4. ASSUME NEW c \in Slot, Handler(c)
      PROVE  PassInv'
  BY <1>1, <1>2, <1>4, HandlerAtStripe, HandlerJobs, HandlerRows
<1>5. CASE UNCHANGED passVars
  <2>1. UNCHANGED <<stripeVars, opened, pass, resets, redeemed, job, raced, crossed>>
    BY <1>5 DEF passVars, ledgerVars
  <2>2. raced \in BOOLEAN /\ crossed \in BOOLEAN
    BY <1>1 DEF PassTypeOK
  <2>3. StripeTyped' /\ StripeInOrder' /\ Grows
    BY <1>1, <2>1, <2>2, StripeStays
  <2>4. QED
    BY <1>1, <1>2, <2>1, <2>3, JobsKept, RowKept, LedgerAlone
<1>6. QED
  BY <1>3, <1>4, <1>5 DEF PassNext

LEMMA PassAlways == PassSpec => []PassInv
  BY PassInitInv, PassNextInv, PTL DEF PassSpec

\* Every variable of the pass keeps its type.
THEOREM PassTyped == PassSpec => []PassTypeOK
<1>1. PassInv => PassTypeOK
  BY DEF PassInv
<1>2. QED
  BY <1>1, PassAlways, PTL

\* The credits of a pass all come from RESET lines of its ledger, whatever runs
\* at the same time and whatever Stripe delivers.
THEOREM CreditsHaveLines == PassSpec => []CreditsExplained
<1>1. PassInv => CreditsExplained
  BY DEF PassInv
<1>2. QED
  BY <1>1, PassAlways, PTL

\* A billing period fills the balance once, by the webhook or by the polling.
THEOREM PeriodsFillOnce == PassSpec => []PeriodFillsOnce
<1>1. PassInv => PeriodFillsOnce
  BY DEF PassInv
<1>2. QED
  BY <1>1, PassAlways, PTL

\* A row that says that the pass ends is of a subscription that ends at Stripe.
THEOREM StripeKnowsTheEnd == PassSpec => []EndIsKnownToStripe
<1>1. PassInv => EndIsKnownToStripe
  BY DEF PassInv
<1>2. QED
  BY <1>1, PassAlways, PTL

\* No write leaves a canceled pass in a state that is neither canceled nor the
\* fruit of a payment or of a new subscription.
THEOREM CanceledStays == PassSpec => CanceledWins
<1>1. ASSUME PassInv, PassNext, pass.exists, pass.status = "CANCELED", ~raced'
      PROVE  pass'.status \in {"CANCELED", "PENDING", "ACTIVE"}
  <2>1. PassTypeOK /\ pass \in PassRow /\ JobsFit
    BY <1>1 DEF PassInv, PassTypeOK
  <2>2. CASE UNCHANGED pass
    BY <1>1, <2>2
  <2>3. ASSUME NEW c \in Slot, Upsert(c) \/ Activate(c) \/ DeleteRow(c) \/ WriteRedeem(c)
        PROVE  pass'.status \in {"CANCELED", "PENDING", "ACTIVE"}
    <3>1. CASE Upsert(c)
      BY <1>1, <2>1, <3>1 DEF Upsert, PendingRow, PassRow
    <3>2. CASE Activate(c)
      BY <1>1, <2>1, <3>2 DEF Activate, Update, Activated, PassRow
    <3>3. CASE DeleteRow(c)
      BY <1>1, <2>1, <3>3, NoRowIsBlank DEF DeleteRow, Update, NoRow, PassRow
    <3>4. CASE WriteRedeem(c)
      BY <1>1, <2>1, <3>4 DEF WriteRedeem, PassRow
    <3>5. QED
      BY <2>3, <3>1, <3>2, <3>3, <3>4
  <2>4. ASSUME NEW c \in Slot, WriteCancel(c) \/ WriteStatus(c)
        PROVE  pass'.status \in {"CANCELED", "PENDING", "ACTIVE"}
    <3>1. PICK j \in Job : j = job[c]
      BY <2>1 DEF PassTypeOK
    <3>2. Justified(j) /\ j.row \in PassRow
      BY <2>1, <3>1 DEF JobsFit, JobFits, Job
    <3>3. CASE UNCHANGED pass
      BY <1>1, <3>3
    <3>4. CASE ~UNCHANGED pass
      <4>1. ~Unread(j.row)
        BY <1>1, <2>4, <3>1, <3>4 DEF WriteCancel, WriteStatus, Update
      <4>2. j.row.status = "CANCELED"
        BY <1>1, <2>1, <3>2, <4>1, AsRead
      <4>3. j.kind \notin {"cancel", "failed"}
        BY <3>2, <4>2 DEF Justified
      <4>4. WriteStatus(c)
        BY <2>4, <3>1, <4>3 DEF WriteCancel
      <4>5. pass' = [pass EXCEPT !.status = "CANCELED", !.ends = FALSE]
        BY <3>1, <3>4, <4>3, <4>4 DEF WriteStatus, Update
      <4>6. QED
        BY <2>1, <4>5 DEF PassRow
    <3>5. QED
      BY <3>3, <3>4
  <2>5. ASSUME NEW c \in Slot,
               \/ Subscribe(c) \/ CancelOrphans(c) \/ OpenSession(c) \/ Cancel(c)
               \/ AskToEnd(c) \/ AskRemote(c) \/ Redeem(c) \/ Die(c)
               \/ \E s \in Sub : Confirm(c, s)
               \/ \E s \in Sub, kind \in {"paid", "failed", "deleted", "expired", "completed"} :
                     Webhook(c, kind, s)
        PROVE  UNCHANGED pass
    BY <2>5
      DEF Subscribe, CancelOrphans, OpenSession, Cancel, AskToEnd, AskRemote,
       Redeem, Die, Confirm, Webhook, Begin
  <2>6. Stripe => UNCHANGED pass
    BY DEF Stripe, Pay, Expire, Renew, Charge, End, ServiceUnchanged
  <2>7. QED
    BY <1>1, <2>2, <2>3, <2>4, <2>5, <2>6 DEF PassNext, Handler
<1>2. PassInv /\ [PassNext]_passVars =>
        [pass.exists /\ pass.status = "CANCELED" /\ ~raced'
            => pass'.status \in {"CANCELED", "PENDING", "ACTIVE"}]_passVars
  BY <1>1
<1>3. QED
  BY <1>2, PassAlways, PTL DEF PassSpec, CanceledWins

=============================================================================
