--------------------------- MODULE PaymentLedger ---------------------------
(***************************************************************************)
(* The hash-chained payment ledger (payment-ledger.ts).                    *)
(*                                                                         *)
(* Every state change of a payment appends PaymentEvent rows inside the    *)
(* transaction that makes the change. emitPaymentEvent takes the           *)
(* transaction-scoped advisory lock hashtext(paymentId), reads the last    *)
(* row of the payment and inserts its successor: three statements, between *)
(* which other transactions run. Settlements emit several events of one    *)
(* payment; the generation of a payout emits one event for each of several *)
(* payments, in the unspecified order of a query, so that two of them may  *)
(* deadlock and Postgres aborts one.                                       *)
(***************************************************************************)
EXTENDS Naturals, FiniteSets

CONSTANTS
    Tx,         \* transactions that emit events
    Payment,    \* payments
    Key,        \* values of hashtext, a 32-bit hash
    KeyOf,      \* KeyOf[p]: hashtext of the payment's id; it may collide
    MaxEmits,   \* events a transaction emits at most (a bound of the model)
    NoTx

ASSUME LedgerAssumption ==
    /\ Payment # {} /\ KeyOf \in [Payment -> Key]
    /\ MaxEmits \in Nat \ {0}
    /\ NoTx \notin Tx

VARIABLES
    rows,       \* committed PaymentEvent rows
    mine,       \* mine[t]: rows inserted by the open transaction t
    lock,       \* lock[x]: holder of the advisory lock on key x
    pc,         \* control of each transaction
    target,     \* target[t]: payment of the event being emitted
    last        \* last[t]: sequence number and hash read before inserting

vars == <<rows, mine, lock, pc, target, last>>

\* sha256(prevHash + canonicalJson(body)): free of collisions, and so equal
\* only for equal histories.
Hash(prev, payment, seq, body) == <<prev, payment, seq, body>>
Genesis == <<>>

\* A row; its body (type, actor, payload) is told apart by its emitter.
Event(payment, seq, body, prev) ==
    [payment |-> payment, seq |-> seq, body |-> body, prev |-> prev,
     hash |-> Hash(prev, payment, seq, body)]

Of(S, p) == {e \in S : e.payment = p}

\* Rows a statement of t sees under READ COMMITTED.
Visible(t) == rows \cup mine[t]

Init ==
    /\ rows = {}
    /\ mine = [t \in Tx |-> {}]
    /\ lock = [x \in Key |-> NoTx]
    /\ pc = [t \in Tx |-> "open"]
    /\ target = [t \in Tx |-> CHOOSE p \in Payment : TRUE]
    /\ last = [t \in Tx |-> [seq |-> 0, hash |-> Genesis]]

Goto(t, step) == pc' = [pc EXCEPT ![t] = step]

\* emitPaymentEvent is called: pg_advisory_xact_lock queues for the key.
Emit(t, p) ==
    /\ pc[t] = "open"
    /\ Cardinality(mine[t]) < MaxEmits
    /\ target' = [target EXCEPT ![t] = p]
    /\ Goto(t, "waiting")
    /\ UNCHANGED <<rows, mine, lock, last>>

\* Mutant of Acquire: nobody waits for anybody.
AcquireNothing(t) ==
    /\ pc[t] = "waiting"
    /\ Goto(t, "locked")
    /\ UNCHANGED <<rows, mine, lock, target, last>>

\* The lock is granted; a transaction that holds it already passes.
Acquire(t) ==
    LET x == KeyOf[target[t]] IN
    /\ pc[t] = "waiting"
    /\ lock[x] \in {NoTx, t}
    /\ lock' = [lock EXCEPT ![x] = t]
    /\ Goto(t, "locked")
    /\ UNCHANGED <<rows, mine, target, last>>

\* Mutant of ReadLast: the first row instead of the last (orderBy asc).
ReadFirst(t) ==
    LET seen == Of(Visible(t), target[t]) IN
    /\ pc[t] = "locked"
    /\ IF seen = {}
         THEN last' = [last EXCEPT ![t] = [seq |-> 0, hash |-> Genesis]]
         ELSE \E e \in seen :
                /\ \A f \in seen : e.seq <= f.seq
                /\ last' = [last EXCEPT ![t] =
                              [seq |-> Cardinality(seen), hash |-> e.hash]]
    /\ Goto(t, "read")
    /\ UNCHANGED <<rows, mine, lock, target>>

\* findFirst(orderBy seq desc): the last row, or none.
ReadLast(t) ==
    LET seen == Of(Visible(t), target[t]) IN
    /\ pc[t] = "locked"
    /\ IF seen = {}
         THEN last' = [last EXCEPT ![t] = [seq |-> 0, hash |-> Genesis]]
         ELSE \E e \in seen :
                /\ \A f \in seen : f.seq <= e.seq
                /\ last' = [last EXCEPT ![t] = [seq |-> e.seq, hash |-> e.hash]]
    /\ Goto(t, "read")
    /\ UNCHANGED <<rows, mine, lock, target>>

Clashes(S, e) == \E f \in S : f.payment = e.payment /\ f.seq = e.seq

NewEvent(t) == Event(target[t], last[t].seq + 1, t, last[t].hash)

\* Mutant of Released: locks of the session instead of the transaction.
ReleasedNone(t) == lock

\* Transaction-scoped locks end with the transaction.
Released(t) == [x \in Key |-> IF lock[x] = t THEN NoTx ELSE lock[x]]

\* The row is inserted. @@unique([paymentId, seq]) waits for an uncommitted
\* row of another transaction with the same key, and rejects a row, and with
\* it the whole transaction, if the key is taken.
Insert(t) ==
    LET e == NewEvent(t)
        rejected == Clashes(Visible(t), e) IN
    /\ pc[t] = "read"
    /\ \A u \in Tx \ {t} : ~Clashes(mine[u], e)
    /\ mine' = [mine EXCEPT ![t] = IF rejected THEN {} ELSE @ \cup {e}]
    /\ lock' = IF rejected THEN Released(t) ELSE lock
    /\ Goto(t, IF rejected THEN "duplicateSeq" ELSE "open")
    /\ UNCHANGED <<rows, target, last>>

Abort(t, why) ==
    /\ mine' = [mine EXCEPT ![t] = {}]
    /\ lock' = Released(t)
    /\ Goto(t, why)
    /\ UNCHANGED <<rows, target, last>>

Commit(t) ==
    /\ pc[t] = "open"
    /\ rows' = rows \cup mine[t]
    /\ mine' = [mine EXCEPT ![t] = {}]
    /\ lock' = Released(t)
    /\ Goto(t, "committed")
    /\ UNCHANGED <<target, last>>

\* The business transaction throws, or its process dies.
Rollback(t) ==
    /\ pc[t] \in {"open", "waiting", "locked", "read"}
    /\ Abort(t, "rolledBack")

\* t waits for u.
WaitsFor(t, u) ==
    pc[t] = "waiting" /\ lock[KeyOf[target[t]]] = u /\ u # t

\* t is on a cycle of waiting transactions.
Deadlocked(t) ==
    \E S \in SUBSET Tx :
        /\ t \in S
        /\ \A u \in S : /\ \E v \in S : WaitsFor(u, v)
                        /\ \E v \in S : WaitsFor(v, u)

\* Postgres' deadlock detector aborts one transaction of the cycle.
DeadlockAbort(t) ==
    /\ Deadlocked(t)
    /\ Abort(t, "deadlock")

Progress(t) ==
    \/ Acquire(t) \/ ReadLast(t) \/ Insert(t) \/ Commit(t) \/ DeadlockAbort(t)

Next == \E t \in Tx : (\E p \in Payment : Emit(t, p)) \/ Progress(t) \/ Rollback(t)

Spec == Init /\ [][Next]_vars

\* Every transaction is run to its end, the lock queue is served and the
\* deadlock detector runs.
FairSpec == Spec /\ \A t \in Tx : WF_vars(Progress(t))

-----------------------------------------------------------------------------
\* verifyPaymentChain: the least sequence number at which the chain of p
\* breaks when it is read in order of seq; 0 when it does not break.

\* Mutant of BadRow: the hash of a row is trusted instead of recomputed.
BadRowUnhashed(chain, e) ==
    LET before == {f \in chain : f.seq < e.seq}
        prev == IF before = {} THEN Genesis
                ELSE (CHOOSE f \in before : \A g \in before : g.seq <= f.seq).hash
    IN  e.prev # prev

BadRow(chain, e) ==
    LET before == {f \in chain : f.seq < e.seq}
        prev == IF before = {} THEN Genesis
                ELSE (CHOOSE f \in before : \A g \in before : g.seq <= f.seq).hash
    IN  e.prev # prev \/ e.hash # Hash(prev, e.payment, e.seq, e.body)

FirstBadSeq(chain) ==
    LET bad == {e \in chain : BadRow(chain, e)} IN
    IF bad = {} THEN 0
    ELSE (CHOOSE e \in bad : \A f \in bad : e.seq <= f.seq).seq

Row == rows \cup UNION {mine[t] : t \in Tx}

TypeOK ==
    /\ \A e \in Row :
          /\ e.payment \in Payment /\ e.seq \in Nat \ {0} /\ e.body \in Tx
    /\ lock \in [Key -> Tx \cup {NoTx}]
    /\ pc \in [Tx -> {"open", "waiting", "locked", "read", "committed",
                      "duplicateSeq", "rolledBack", "deadlock"}]
    /\ target \in [Tx -> Payment]

\* Whatever transactions interleave, roll back or are aborted, the committed
\* chain of every payment verifies, and so does the chain each open
\* transaction is writing.
ChainVerifies ==
    \A p \in Payment :
        /\ FirstBadSeq(Of(rows, p)) = 0
        /\ \A t \in Tx : FirstBadSeq(Of(Visible(t), p)) = 0

\* The sequence numbers of a payment are 1, 2, ... without gaps or repeats, a
\* rolled-back emitter leaves no hole, and @@unique([paymentId, seq]) aborts no
\* business transaction: the advisory lock is for that (payment-ledger.ts:41).
SequencesHold ==
    /\ \A p \in Payment : {e.seq : e \in Of(rows, p)} = 1..Cardinality(Of(rows, p))
    /\ \A t \in Tx : pc[t] # "duplicateSeq"

\* Evidence: changing the body of any committed row is reported at that row;
\* recomputing its hash as well is reported at the row after it, and removing
\* a row is reported at its successor.
TamperEvident ==
    \A e \in rows :
        LET chain == Of(rows, e.payment)
            next == {f \in chain : f.seq = e.seq + 1}
        IN /\ \A b \in Tx \ {e.body} :
                /\ FirstBadSeq((chain \ {e}) \cup {[e EXCEPT !.body = b]}) = e.seq
                /\ next # {} =>
                     FirstBadSeq((chain \ {e})
                        \cup {Event(e.payment, e.seq, b, e.prev)}) = e.seq + 1
           /\ next # {} => FirstBadSeq(chain \ {e}) = e.seq + 1

\* Every transaction that started to emit ends: lock queues and deadlocks
\* between payout generations never block a payment for ever.
EmittersEnd ==
    \A t \in Tx : pc[t] = "waiting" ~>
        pc[t] \in {"committed", "rolledBack", "deadlock", "duplicateSeq"}
=============================================================================
