--------------------------- MODULE ClassBookings ---------------------------
(***************************************************************************)
(* The places of an academy's classes (classes.controller.ts): students    *)
(* book with the credit of their plan, wait when the class is full, cancel *)
(* (which offers the place to who waits), or buy a single place, which the *)
(* settlement books (payment-settlement.service.ts). The academy cancels   *)
(* classes (class-series.controller.ts). Every transaction is READ         *)
(* COMMITTED and locks only the rows that it writes.                       *)
(***************************************************************************)
EXTENDS Integers, Sequences, FiniteSets

CONSTANTS
    Class,     \* classes of one week at one academy
    Student,
    Enrolled,  \* students with an enrollment that can book
    Order,     \* orders WORKSHOP
    Worker,    \* requests that overlap
    Capacity,  \* effectiveCapacity of each class
    Limit,     \* weeklyClasses of the plan of each enrolled student
    Buyer,     \* who each order belongs to
    Bought,    \* and the class that it is for
    Nobody,
    MaxCall    \* bound on the calls

ASSUME ConstantsAssumption ==
    /\ IsFiniteSet(Class) /\ IsFiniteSet(Student)
    /\ Enrolled \subseteq Student /\ Nobody \notin Student \cup Worker
    /\ Class \cap Student = {}
    /\ Capacity \in [Class -> Nat] /\ Limit \in [Enrolled -> Nat]
    /\ Buyer \in [Order -> Student] /\ Bought \in [Order -> Class]
    /\ MaxCall \in Nat

VARIABLES
    row,       \* the ClassBooking of each class and student
    line,      \* the students with a row, by its createdAt
    phase,     \* of each class: before the cutoff, after it, begun
    cancelled, \* classes that the academy has cancelled
    releasing, \* classes whose cancellation has not committed yet
    affected,  \* and the students whose rows it has selected
    order,     \* status of the Payment, "checked" while it is being bought
    call,      \* what each worker has read and decided
    calls,
    \* History: classes and students that two overlapping calls were about,
    \* and the places that a cancellation of the academy may not release.
    crossed, unreleased

academy == <<cancelled, releasing, affected>>
vars == <<row, line, phase, academy, order, call, calls, crossed, unreleased>>

Phase == {"early", "late", "begun"}
RowStatus == {"NONE", "BOOKED", "WAITLIST", "CANCELLED"}
Row == [status : RowStatus, paid : BOOLEAN, refunded : BOOLEAN]
NoRow == [status |-> "NONE", paid |-> FALSE, refunded |-> TRUE]
Active == {"BOOKED", "WAITLIST"}
Unpaid == {"checked", "PENDING", "FAILED"}
Idle == [step |-> "idle"]

Call ==
    {Idle}
    \cup [step : {"book"}, class : Class, student : Student, credit : BOOLEAN]
    \cup [step : {"take", "settle"}, class : Class, student : Student,
          place : Active, found : BOOLEAN, order : Order \cup {Nobody}]
    \cup [step : {"cancel", "commit"}, class : Class, student : Student,
          was : Active, refunded : BOOLEAN, promoted : Student \cup {Nobody}]

\* Types of the variables.
TypeOK ==
    /\ row \in [Class -> [Student -> Row]]
    /\ line \in [Class -> Seq(Student)]
    /\ phase \in [Class -> Phase]
    /\ cancelled \subseteq Class
    /\ releasing \subseteq Class /\ affected \in [Class -> SUBSET Student]
    /\ order \in [Order -> {"NONE", "PAID"} \cup Unpaid]
    /\ call \in [Worker -> Call]
    /\ calls \in 0..MaxCall
    /\ crossed \subseteq (Class \cup Student)
    /\ unreleased \subseteq (Class \X Student)

Init ==
    /\ row = [c \in Class |-> [s \in Student |-> NoRow]]
    /\ line = [c \in Class |-> <<>>]
    /\ phase = [c \in Class |-> "early"]
    /\ cancelled = {} /\ releasing = {} /\ affected = [c \in Class |-> {}]
    /\ order = [o \in Order |-> "NONE"]
    /\ call = [w \in Worker |-> Idle]
    /\ calls = 0
    /\ crossed = {} /\ unreleased = {}

-----------------------------------------------------------------------------
(* Places, credits and the calls that are at them.                         *)

Booked(c) == Cardinality({s \in Student : row[c][s].status = "BOOKED"})

Place(c) == IF Booked(c) < Capacity[c] THEN "BOOKED" ELSE "WAITLIST"

\* A row that uses credit: a place in a class, or one canceled too late.
Consumes(r) ==
    /\ ~r.paid
    /\ r.status = "BOOKED" \/ (r.status = "CANCELLED" /\ ~r.refunded)

Used(s) == Cardinality({c \in Class : Consumes(row[c][s])})

HasCredit(s) == s \in Enrolled /\ Used(s) < Limit[s]

\* The students and the class that a call is about.
About(k) ==
    IF k = Idle THEN {}
    ELSE {k.class, k.student}
         \cup (IF k.step = "commit" THEN {k.promoted} \ {Nobody} ELSE {})

\* Worker w goes on with k; what it now shares with the others has crossed.
Goes(w, k) ==
    /\ call' = [call EXCEPT ![w] = k]
    /\ crossed' = crossed \cup
           {x \in About(k) : \E v \in Worker \ {w} : x \in About(call[v])}

Begins(w, k) ==
    /\ call[w] = Idle /\ calls < MaxCall
    /\ calls' = calls + 1
    /\ Goes(w, k)
    /\ unreleased' = unreleased \cup ((releasing \cap {k.class}) \X {k.student})

Returns(w) == Goes(w, Idle)

\* The row is written by a transaction of another worker that has not ended.
Locked(w, c, s) ==
    \E v \in Worker \ {w} :
        call[v].step = "commit" /\ call[v].class = c /\ call[v].student = s

Reset(c, s) == Append(SelectSeq(line[c], LAMBDA t : t # s), s)

ClassAhead(c) == c \notin cancelled /\ phase[c] # "begun"

-----------------------------------------------------------------------------
(* Booking with the plan.                                                  *)

\* The class is read outside the transaction, the credit is its first read.
BookBegins(w, c, s) ==
    /\ ClassAhead(c) /\ s \in Enrolled
    /\ Begins(w, [step |-> "book", class |-> c, student |-> s,
                  credit |-> HasCredit(s)])
    /\ UNCHANGED <<row, line, phase, academy, order>>

BookCounts(w) ==
    LET k == call[w]
        r == row[k.class][k.student]
        place == Place(k.class)
    IN  /\ k.step = "book"
        /\ IF r.status \in Active \/ (place = "BOOKED" /\ ~r.paid /\ ~k.credit)
           THEN Returns(w)
           ELSE Goes(w, [step |-> "take", class |-> k.class,
                         student |-> k.student, place |-> place,
                         found |-> r.status # "NONE", order |-> Nobody])
        /\ UNCHANGED <<row, line, phase, academy, order, calls, unreleased>>

\* A row that was found is updated by its id, whatever has become of it; one
\* that was not found is created, unless the unique key refuses it.
BookWrites(w) ==
    LET k == call[w]
        here == row[k.class][k.student]
    IN  /\ k.step = "take"
        /\ ~Locked(w, k.class, k.student)
        /\ IF k.found \/ here.status = "NONE"
           THEN /\ row' = [row EXCEPT ![k.class][k.student] =
                              [here EXCEPT !.status = k.place, !.refunded = TRUE]]
                /\ line' = [line EXCEPT ![k.class] = Reset(k.class, k.student)]
           ELSE UNCHANGED <<row, line>>
        /\ Returns(w)
        /\ UNCHANGED <<phase, academy, order, calls, unreleased>>

-----------------------------------------------------------------------------
(* Cancelling, which offers the place to the first who waits with credit.  *)

Refunds(r, c) == r.status = "WAITLIST" \/ (~r.paid /\ phase[c] = "early")

\* The booking is read, and its refund decided, outside the transaction.
CancelBegins(w, c, s) ==
    /\ row[c][s].status \in Active
    /\ Begins(w, [step |-> "cancel", class |-> c, student |-> s,
                  was |-> row[c][s].status,
                  refunded |-> Refunds(row[c][s], c), promoted |-> Nobody])
    /\ UNCHANGED <<row, line, phase, academy, order>>

\* Of the students who, the one who is first in the line of class c.
FirstOf(c, who) ==
    LET first == {t \in who : \A i, j \in DOMAIN line[c] :
                     line[c][j] = t /\ line[c][i] \in who => j <= i}
    IN  IF first = {} THEN Nobody ELSE CHOOSE t \in first : TRUE

Waiting(c) == {t \in Student : row[c][t].status = "WAITLIST"}

\* Mutant of Promoted: the credit is not looked at.
PromotedAnyone(c, s) == FirstOf(c, Waiting(c) \ {s})

\* promoteWaitlist: the first in line, of those who wait with credit left.
Promoted(c, s) == FirstOf(c, {t \in Waiting(c) \ {s} : HasCredit(t)})

\* The update locks the row; who is promoted is read within the transaction.
CancelWrites(w) ==
    LET k == call[w]
    IN  /\ k.step = "cancel"
        /\ ~Locked(w, k.class, k.student)
        /\ Goes(w, [k EXCEPT !.step = "commit",
                       !.promoted = IF k.was = "BOOKED"
                                    THEN Promoted(k.class, k.student)
                                    ELSE Nobody])
        /\ UNCHANGED <<row, line, phase, academy, order, calls, unreleased>>

CancelCommits(w) ==
    LET k == call[w]
    IN  /\ k.step = "commit"
        /\ ~Locked(w, k.class, k.promoted)
        /\ row' = [row EXCEPT ![k.class] = [s \in Student |->
                      IF s = k.student
                      THEN [@[s] EXCEPT !.status = "CANCELLED",
                                        !.refunded = k.refunded]
                      ELSE IF s = k.promoted
                      THEN [@[s] EXCEPT !.status = "BOOKED"]
                      ELSE @[s]]]
        /\ Returns(w)
        /\ UNCHANGED <<line, phase, academy, order, calls, unreleased>>

-----------------------------------------------------------------------------
(* Buying a place. An order that waits for its payment holds none.         *)

PurchaseReads(o) ==
    /\ order[o] = "NONE" /\ ClassAhead(Bought[o])
    /\ order' = [order EXCEPT ![o] = "checked"]
    /\ UNCHANGED <<row, line, phase, academy, call, calls, crossed, unreleased>>

\* The places and the buyer's own row are read later, and then the order is
\* created or refused.
PurchaseCounts(o) ==
    LET c == Bought[o]
        sold == row[c][Buyer[o]].status \notin Active /\ Booked(c) < Capacity[c]
    IN  /\ order[o] = "checked"
        /\ order' = [order EXCEPT ![o] = IF sold THEN "PENDING" ELSE "NONE"]
        /\ UNCHANGED <<row, line, phase, academy, call, calls, crossed, unreleased>>

Settling(o) == \E v \in Worker : call[v].step = "settle" /\ call[v].order = o

\* The gateway refuses the payment.
Fails(o) ==
    /\ order[o] = "PENDING" /\ ~Settling(o)
    /\ order' = [order EXCEPT ![o] = "FAILED"]
    /\ UNCHANGED <<row, line, phase, academy, call, calls, crossed, unreleased>>

\* The claim of the order, whatever it is but PAID: others of it wait; and
\* the count of the places, which takes in one that the payer already has.
SettleBegins(w, o) ==
    LET c == Bought[o]
        s == Buyer[o]
    IN  /\ order[o] \in {"PENDING", "FAILED"} /\ ~Settling(o)
        /\ Begins(w, [step |-> "settle", class |-> c, student |-> s,
                      place |-> Place(c), found |-> row[c][s].status # "NONE",
                      order |-> o])
        /\ UNCHANGED <<row, line, phase, academy, order>>

\* A create that the unique key refuses undoes the claim too.
SettleCommits(w) ==
    LET k == call[w]
        here == row[k.class][k.student]
    IN  /\ k.step = "settle"
        /\ ~Locked(w, k.class, k.student)
        /\ IF k.found \/ here.status = "NONE"
           THEN /\ row' = [row EXCEPT ![k.class][k.student] =
                              [here EXCEPT !.status = k.place, !.paid = TRUE]]
                /\ line' = IF k.found THEN line
                           ELSE [line EXCEPT ![k.class] = Append(@, k.student)]
                /\ order' = [order EXCEPT ![k.order] = "PAID"]
           ELSE UNCHANGED <<row, line, order>>
        /\ Returns(w)
        /\ UNCHANGED <<phase, academy, calls, unreleased>>

-----------------------------------------------------------------------------
(* The academy, the clock and what ends a call without effect.             *)

\* Mutant of Released: who waits is left waiting.
ReleasedBookedOnly(r) ==
    IF r.status = "BOOKED"
    THEN [r EXCEPT !.status = "CANCELLED", !.refunded = TRUE]
    ELSE r

\* releaseBookings: who has a place or waits is out, with the credit back.
Released(r) ==
    IF r.status \in Active
    THEN [r EXCEPT !.status = "CANCELLED", !.refunded = TRUE]
    ELSE r

\* The places of c that a cancellation may not reach: of calls and orders
\* that are under way, and what was lost by canceling late.
OutOfReach(c) ==
    {s \in Student :
        \/ \E w \in Worker : {c, s} \subseteq About(call[w])
        \/ \E o \in Order : Bought[o] = c /\ Buyer[o] = s /\ order[o] \in Unpaid
        \/ row[c][s].status = "CANCELLED" /\ Consumes(row[c][s])}

\* The transaction has flagged the class, which nobody sees before it commits,
\* and selected the rows to release; a second one waits for it.
CancelClassSelects(c) ==
    /\ c \notin cancelled \cup releasing
    /\ releasing' = releasing \cup {c}
    /\ affected' = [affected EXCEPT ![c] = {s \in Student : row[c][s].status \in Active}]
    /\ unreleased' = unreleased \cup ({c} \X OutOfReach(c))
    /\ UNCHANGED <<row, line, phase, cancelled, order, call, calls, crossed>>

\* The rows are updated by their ids, if they are active still, when no other
\* transaction holds one; what was booked after the select stays.
CancelClassCommits(c) ==
    /\ c \in releasing
    /\ \A s \in affected[c] : row[c][s].status \in Active => ~Locked(Nobody, c, s)
    /\ cancelled' = cancelled \cup {c} /\ releasing' = releasing \ {c}
    /\ affected' = [affected EXCEPT ![c] = {}]
    /\ row' = [row EXCEPT ![c] = [s \in Student |->
                  IF s \in affected[c] THEN Released(@[s]) ELSE @[s]]]
    /\ unreleased' = unreleased \cup ({c} \X OutOfReach(c))
    /\ UNCHANGED <<line, phase, order, call, calls, crossed>>

\* The transaction is undone.
CancelClassAborts(c) ==
    /\ c \in releasing
    /\ releasing' = releasing \ {c} /\ affected' = [affected EXCEPT ![c] = {}]
    /\ unreleased' = {u \in unreleased : u[1] # c}
    /\ UNCHANGED <<row, line, phase, cancelled, order, call, calls, crossed>>

CancelClass(c) ==
    CancelClassSelects(c) \/ CancelClassCommits(c) \/ CancelClassAborts(c)

Passes(c) ==
    /\ phase' = [phase EXCEPT ![c] = CASE @ = "early" -> "late"
                                       [] OTHER -> "begun"]
    /\ phase[c] # "begun"
    /\ UNCHANGED <<row, line, academy, order, call, calls, crossed, unreleased>>

\* The process dies, or the database breaks a deadlock.
Aborts(w) ==
    /\ call[w] # Idle
    /\ Returns(w)
    /\ UNCHANGED <<row, line, phase, academy, order, calls, unreleased>>

Steps(w) ==
    \/ BookCounts(w) \/ BookWrites(w)
    \/ CancelWrites(w) \/ CancelCommits(w)
    \/ SettleCommits(w)
    \/ Aborts(w)

Next ==
    \/ \E w \in Worker, c \in Class, s \in Student :
           BookBegins(w, c, s) \/ CancelBegins(w, c, s)
    \/ \E o \in Order :
           \/ PurchaseReads(o) \/ PurchaseCounts(o) \/ Fails(o)
           \/ \E w \in Worker : SettleBegins(w, o)
    \/ \E w \in Worker : Steps(w)
    \/ \E c \in Class : CancelClass(c) \/ Passes(c)

Spec == Init /\ [][Next]_vars

-----------------------------------------------------------------------------
(* Properties.                                                             *)

\* A class has more students than places, or a student has spent more credit
\* than the plan gives, only after two calls about that class or student have
\* overlapped: book, cancel's promotion and the settlement count first and
\* write later without a lock, and one after the other they keep both limits.
RacesAloneBreakLimits ==
    /\ \A c \in Class : Booked(c) > Capacity[c] => c \in crossed
    /\ \A s \in Enrolled : Used(s) > Limit[s] => s \in crossed

\* A class that the academy cancelled holds no place and keeps no credit,
\* but of students who had a call or an order under way while the transaction
\* of the cancellation was open, and the credit that was already lost.
CancelledClassIsReleased ==
    \A c \in cancelled, s \in Student :
        row[c][s].status \in Active \/ Consumes(row[c][s])
            => <<c, s>> \in unreleased

\* A student who cancels after the cutoff loses the class (the comment of
\* cancel): the credit stays spent, unless a payment replaces it.
LateCancelLosesTheClass ==
    [][\A c \in Class, s \in Student :
          row[c][s].status = "CANCELLED" /\ Consumes(row[c][s])
              => Consumes(row'[c][s]) \/ row'[c][s].paid]_vars

=============================================================================
