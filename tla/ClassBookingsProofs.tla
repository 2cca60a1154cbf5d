------------------------ MODULE ClassBookingsProofs ------------------------
(***************************************************************************)
(* Proofs about ClassBookings, for any classes, students, orders, requests,*)
(* capacities and limits: a class that the academy cancelled keeps no      *)
(* place and no credit but those that the cancellation could not reach,    *)
(* and only calls that overlap break the limits of classes and plans.      *)
(***************************************************************************)
EXTENDS ClassBookings, FiniteSetTheorems, TLAPS

\* The types of what the argument is about.
Typed ==
    /\ row \in [Class -> [Student -> Row]]
    /\ cancelled \subseteq Class /\ releasing \subseteq Class
    /\ affected \in [Class -> SUBSET Student]
    /\ order \in [Order -> {"NONE", "PAID"} \cup Unpaid]
    /\ call \in [Worker -> Call]

\* A call is about the place of student s in class c.
Touches(k, c, s) == k # Idle /\ c \in About(k) /\ s \in About(k)

\* Classes that the academy has cancelled or is cancelling.
Closing == cancelled \cup releasing

\* The cancellation of the class has selected the place, or may not reach it.
Known(c, s) ==
    <<c, s>> \in unreleased \/ (c \in releasing /\ s \in affected[c])

\* The places of such a class, and the calls and orders that are under way
\* about it, are known to its cancellation.
PlacesAreKnown ==
    \A c \in Closing : \A s \in Student :
        row[c][s].status \in Active => Known(c, s)

CallsAreKnown ==
    \A w \in Worker : \A c \in Closing : \A s \in Student :
        Touches(call[w], c, s) => Known(c, s)

OrdersAreKnown ==
    \A o \in Order :
        Bought[o] \in cancelled /\ order[o] \in Unpaid
            => <<Bought[o], Buyer[o]>> \in unreleased

IInv ==
    /\ Typed /\ cancelled \cap releasing = {}
    /\ CancelledClassIsReleased
    /\ PlacesAreKnown /\ CallsAreKnown /\ OrdersAreKnown

\* The kinds of calls.
Books == [step : {"book"}, class : Class, student : Student, credit : BOOLEAN]
Takes == [step : {"take", "settle"}, class : Class, student : Student,
          place : Active, found : BOOLEAN, order : Order \cup {Nobody}]
Cancels == [step : {"cancel", "commit"}, class : Class, student : Student,
            was : Active, refunded : BOOLEAN, promoted : Student \cup {Nobody}]

-----------------------------------------------------------------------------
\* A step of a call tells its kind.
LEMMA CallKinds ==
    ASSUME NEW k \in Call
    PROVE  /\ k = Idle \/ k \in Books \/ k \in Takes \/ k \in Cancels
           /\ k.step = "book" => k \in Books
           /\ k.step \in {"take", "settle"} => k \in Takes
           /\ k.step \in {"cancel", "commit"} => k \in Cancels
           /\ k # Idle => k.class \in Class /\ k.student \in Student
<1>1. k = Idle \/ k \in Books \/ k \in Takes \/ k \in Cancels
  BY DEF Call, Books, Takes, Cancels
<1>2. k = Idle => k.step = "idle"
  BY DEF Idle
<1>3. k \in Books => k.step = "book" /\ k.class \in Class /\ k.student \in Student
  BY DEF Books
<1>4. k \in Takes => /\ k.step \in {"take", "settle"}
                     /\ k.class \in Class /\ k.student \in Student
  BY DEF Takes
<1>5. k \in Cancels => /\ k.step \in {"cancel", "commit"}
                       /\ k.class \in Class /\ k.student \in Student
  BY DEF Cancels
<1>6. QED
  BY <1>1, <1>2, <1>3, <1>4, <1>5

\* The place that a call is about, and the one that it promotes to.
LEMMA TouchesFields ==
    ASSUME NEW k \in Call, k # Idle, NEW c \in Class, NEW s \in Student
    PROVE  Touches(k, c, s) <=>
             k.class = c /\ (k.student = s \/ (k.step = "commit" /\ k.promoted = s))
<1>1. k.class \in Class /\ k.student \in Student
  BY CallKinds
<1>2. k.step = "commit" => k.promoted \in Student \cup {Nobody}
  <2>1. k.step = "commit" => k \in Cancels
    BY CallKinds
  <2>2. k \in Cancels => k.promoted \in Student \cup {Nobody}
    BY DEF Cancels
  <2>3. QED
    BY <2>1, <2>2
<1>3. c # s /\ k.class # s /\ k.student # c /\ s # Nobody
  BY <1>1, ConstantsAssumption
<1>4. k.step = "commit" /\ k.promoted # Nobody => k.promoted # c
  BY <1>2, ConstantsAssumption
<1>5. QED
  BY <1>1, <1>2, <1>3, <1>4 DEF Touches, About

LEMMA FirstOfIsOneOf ==
    ASSUME NEW c \in Class, NEW who \in SUBSET Student
    PROVE  FirstOf(c, who) = Nobody \/ FirstOf(c, who) \in who
<1> DEFINE first == {t \in who : \A i, j \in DOMAIN line[c] :
                        line[c][j] = t /\ line[c][i] \in who => j <= i}
<1>1. FirstOf(c, who) = IF first = {} THEN Nobody ELSE CHOOSE t \in first : TRUE
  BY DEF FirstOf
<1>2. first \subseteq who
  OBVIOUS
<1> HIDE DEF first
<1>3. first # {} => (CHOOSE t \in first : TRUE) \in first
  OBVIOUS
<1>4. QED
  BY <1>1, <1>2, <1>3

-----------------------------------------------------------------------------
\* A call that goes on about nothing that the cancellations do not know.
LEMMA GoesKnown ==
    ASSUME IInv, NEW w \in Worker, NEW k \in Call, Goes(w, k),
           UNCHANGED academy, unreleased \subseteq unreleased',
           \A c \in Closing, s \in Student : Touches(k, c, s) => Known(c, s)'
    PROVE  call' \in [Worker -> Call] /\ CallsAreKnown'
<1>1. call' = [call EXCEPT ![w] = k]
  BY DEF Goes
<1>2. call' \in [Worker -> Call]
  BY <1>1 DEF IInv, Typed
<1>3. \A v \in Worker : call'[v] = IF v = w THEN k ELSE call[v]
  BY <1>1 DEF IInv, Typed
<1>4. \A c, s : Known(c, s) => Known(c, s)'
  BY DEF Known, academy
<1>5. ASSUME NEW v \in Worker, NEW c \in Closing, NEW s \in Student,
             Touches(call'[v], c, s)
      PROVE  Known(c, s)'
  BY <1>3, <1>4, <1>5 DEF IInv, CallsAreKnown
<1>6. Closing' = Closing
  BY DEF Closing, academy
<1>7. QED
  BY <1>2, <1>5, <1>6 DEF CallsAreKnown, Touches, About, Idle

\* To go idle is to go on about nothing.
LEMMA ReturnsKnown ==
    ASSUME IInv, NEW w \in Worker, Returns(w), UNCHANGED <<academy, unreleased>>
    PROVE  call' \in [Worker -> Call] /\ CallsAreKnown'
<1>1. Idle \in Call
  BY DEF Call
<1>2. \A c, s : ~Touches(Idle, c, s)
  BY DEF Touches
<1>3. Goes(w, Idle)
  BY DEF Returns
<1>4. QED
  BY <1>1, <1>2, <1>3, GoesKnown

\* A step of no cancellation that writes no place but known ones, and creates
\* no order for a cancelled class.
LEMMA StepKnown ==
    ASSUME IInv, UNCHANGED academy, unreleased \subseteq unreleased',
           row' \in [Class -> [Student -> Row]],
           \A c \in Closing, s \in Student :
               row'[c][s] = row[c][s] \/ Known(c, s),
           order' \in [Order -> {"NONE", "PAID"} \cup Unpaid],
           \A o \in Order : order'[o] \in Unpaid
               => order[o] \in Unpaid \/ Bought[o] \notin cancelled,
           call' \in [Worker -> Call], CallsAreKnown'
    PROVE  IInv'
<1>1. Closing' = Closing /\ cancelled' = cancelled /\ releasing' = releasing
  BY DEF Closing, academy
<1>2. \A c, s : Known(c, s) => Known(c, s)'
  BY DEF Known, academy
<1>3. \A c \in cancelled : \A s : Known(c, s) => <<c, s>> \in unreleased
  BY DEF IInv, Known
<1>4. PlacesAreKnown'
  BY <1>1, <1>2 DEF IInv, PlacesAreKnown
<1>5. CancelledClassIsReleased'
  <2>1. ASSUME NEW c \in cancelled, NEW s \in Student,
               row'[c][s].status \in Active \/ Consumes(row'[c][s])
        PROVE  <<c, s>> \in unreleased'
    BY <1>3, <2>1 DEF IInv, CancelledClassIsReleased, Closing
  <2>2. QED
    BY <1>1, <2>1 DEF CancelledClassIsReleased, Consumes
<1>6. OrdersAreKnown'
  BY <1>1 DEF IInv, OrdersAreKnown
<1>7. QED
  BY <1>1, <1>4, <1>5, <1>6 DEF IInv, Typed, academy

\* A step of a call that writes neither row nor order.
LEMMA CallKnown ==
    ASSUME IInv, UNCHANGED <<academy, row, order>>, unreleased \subseteq unreleased',
           call' \in [Worker -> Call], CallsAreKnown'
    PROVE  IInv'
  BY StepKnown DEF IInv, Typed

\* A call that begins about a class whose cancellation is open is known.
LEMMA BeginsKnown ==
    ASSUME IInv, NEW w \in Worker, NEW k \in Call, k # Idle, k.step # "commit",
           Begins(w, k), UNCHANGED <<academy, row, order>>,
           k.class \in cancelled => Known(k.class, k.student)
    PROVE  IInv'
<1>1. /\ unreleased' = unreleased \cup ((releasing \cap {k.class}) \X {k.student})
      /\ Goes(w, k)
  BY DEF Begins
<1>2. ASSUME NEW c \in Closing, NEW s \in Student, Touches(k, c, s)
      PROVE  Known(c, s)'
  <2>1. c \in Class
    BY DEF IInv, Typed, Closing
  <2>2. c = k.class /\ s = k.student
    BY <1>2, <2>1, TouchesFields
  <2>3. CASE c \in releasing
    BY <1>1, <2>2, <2>3 DEF Known
  <2>4. CASE c \in cancelled
    BY <1>1, <2>2, <2>4 DEF Known, academy
  <2>5. QED
    BY <2>3, <2>4 DEF Closing
<1>3. unreleased \subseteq unreleased'
  BY <1>1
<1>4. call' \in [Worker -> Call] /\ CallsAreKnown'
  BY <1>1, <1>2, <1>3, GoesKnown DEF academy
<1>5. QED
  BY <1>3, <1>4, CallKnown

-----------------------------------------------------------------------------
(* The steps of the calls.                                                 *)

LEMMA BookBeginsInv ==
    ASSUME IInv, NEW w \in Worker, NEW c \in Class, NEW s \in Student,
           BookBegins(w, c, s)
    PROVE  IInv'
<1> DEFINE k == [step |-> "book", class |-> c, student |-> s, credit |-> HasCredit(s)]
<1>1. k \in Call /\ k.step = "book" /\ k.class = c
  BY DEF Call, HasCredit
<1>2. /\ c \notin cancelled /\ Begins(w, k)
      /\ UNCHANGED <<academy, row, order>>
  BY DEF BookBegins, ClassAhead
<1>3. k # Idle
  BY <1>1 DEF Idle
<1> HIDE DEF k
<1>4. QED
  BY <1>1, <1>2, <1>3, BeginsKnown

LEMMA BookCountsInv ==
    ASSUME IInv, NEW w \in Worker, BookCounts(w)
    PROVE  IInv'
<1> DEFINE k == call[w]
           n(place, found) == [step |-> "take", class |-> k.class,
                        student |-> k.student, place |-> place,
                        found |-> found, order |-> Nobody]
<1>1. /\ k \in Call /\ k.step = "book"
      /\ UNCHANGED <<academy, row, order, unreleased>>
  BY DEF IInv, Typed, BookCounts
<1>2. k.class \in Class /\ k.student \in Student /\ k # Idle
  BY <1>1, CallKinds DEF Idle
<1>3. call' \in [Worker -> Call] /\ CallsAreKnown'
  <2>1. CASE Returns(w)
    BY <1>1, <2>1, ReturnsKnown
  <2>2. CASE ~Returns(w)
    <3>1. PICK place \in Active, found \in BOOLEAN : Goes(w, n(place, found))
      BY <2>2 DEF BookCounts, Place, Active
    <3> DEFINE m == n(place, found)
    <3>2. /\ m \in Call /\ m.step = "take"
          /\ m.class = k.class /\ m.student = k.student
      BY <1>2 DEF Call
    <3>3. m # Idle
      BY <3>2 DEF Idle
    <3> HIDE DEF m, k
    <3>4. \A d \in Closing, t \in Student : Touches(m, d, t) => Touches(k, d, t)
      BY <1>1, <1>2, <3>2, <3>3, TouchesFields DEF IInv, Typed, Closing
    <3>5. \A d, t : Known(d, t) => Known(d, t)'
      BY <1>1 DEF Known, academy
    <3>6. \A d \in Closing, t \in Student : Touches(m, d, t) => Known(d, t)'
      BY <3>4, <3>5 DEF IInv, CallsAreKnown, k
    <3>7. Goes(w, m)
      BY <3>1 DEF m
    <3>8. QED
      BY <1>1, <3>2, <3>6, <3>7, GoesKnown
  <2>3. QED
    BY <2>1, <2>2
<1>4. QED
  BY <1>1, <1>3, CallKnown

LEMMA BookWritesInv ==
    ASSUME IInv, NEW w \in Worker, BookWrites(w)
    PROVE  IInv'
<1> DEFINE k == call[w]
<1>1. k \in Takes
  BY CallKinds DEF IInv, Typed, BookWrites
<1>2. k.class \in Class /\ k.student \in Student /\ k.place \in Active /\ k # Idle
  BY <1>1 DEF Takes, Idle
<1>3. k.class \in Closing => Known(k.class, k.student)
  BY <1>1, <1>2, TouchesFields DEF IInv, Typed, CallsAreKnown
<1>4. row' \in [Class -> [Student -> Row]]
  <2> DEFINE here == row[k.class][k.student]
             r == [here EXCEPT !.status = k.place, !.refunded = TRUE]
  <2>1. here \in Row
    BY <1>2 DEF IInv, Typed
  <2>2. r \in Row
    BY <1>2, <2>1 DEF Row, Active, RowStatus
  <2>3. row' = row \/ row' = [row EXCEPT ![k.class][k.student] = r]
    BY DEF BookWrites
  <2> HIDE DEF r, k
  <2>4. row \in [Class -> [Student -> Row]]
    BY DEF IInv, Typed
  <2>5. QED
    BY <1>2, <2>2, <2>3, <2>4
<1>5. \A c \in Class, s \in Student :
        row'[c][s] = row[c][s] \/ (c = k.class /\ s = k.student)
  BY <1>2 DEF BookWrites, IInv, Typed
<1>6. \A c \in Closing, s \in Student :
        row'[c][s] = row[c][s] \/ Known(c, s)
  BY <1>3, <1>5 DEF IInv, Typed, Closing
<1>7. call' \in [Worker -> Call] /\ CallsAreKnown'
  BY ReturnsKnown DEF BookWrites
<1>8. QED
  BY <1>4, <1>6, <1>7, StepKnown DEF BookWrites, IInv, Typed

LEMMA CancelBeginsInv ==
    ASSUME IInv, NEW w \in Worker, NEW c \in Class, NEW s \in Student,
           CancelBegins(w, c, s)
    PROVE  IInv'
<1> DEFINE k == [step |-> "cancel", class |-> c, student |-> s,
                  was |-> row[c][s].status,
                  refunded |-> Refunds(row[c][s], c), promoted |-> Nobody]
<1>1. row[c][s].status \in Active /\ row[c][s] \in Row
  BY DEF CancelBegins, IInv, Typed
<1>2. /\ k \in Cancels /\ k \in Call
      /\ k.step = "cancel" /\ k.class = c /\ k.student = s
  BY <1>1 DEF Cancels, Call, Refunds, Row
<1>3. /\ Begins(w, k) /\ k # Idle
      /\ UNCHANGED <<academy, row, order>>
  BY <1>2 DEF CancelBegins, Idle
<1> HIDE DEF k
<1>4. c \in cancelled => Known(c, s)
  BY <1>1 DEF IInv, PlacesAreKnown, Closing
<1>5. QED
  BY <1>2, <1>3, <1>4, BeginsKnown

LEMMA CancelWritesInv ==
    ASSUME IInv, NEW w \in Worker, CancelWrites(w)
    PROVE  IInv'
<1> DEFINE k == call[w]
           p == IF k.was = "BOOKED" THEN Promoted(k.class, k.student) ELSE Nobody
           m == [k EXCEPT !.step = "commit", !.promoted = p]
<1>1. k \in Cancels /\ k.step = "cancel"
  BY CallKinds DEF IInv, Typed, CancelWrites
<1>2. k.class \in Class /\ k.student \in Student /\ k # Idle
  BY <1>1 DEF Cancels, Idle
<1>3. p # Nobody => p \in Student /\ row[k.class][p].status = "WAITLIST"
  <2> DEFINE who == {t \in Waiting(k.class) \ {k.student} : HasCredit(t)}
  <2>1. who \in SUBSET Student
    BY DEF Waiting
  <2>2. Promoted(k.class, k.student) = FirstOf(k.class, who)
    BY DEF Promoted
  <2>3. \A t \in who : row[k.class][t].status = "WAITLIST"
    BY DEF Waiting
  <2> HIDE DEF who
  <2>4. FirstOf(k.class, who) = Nobody \/ FirstOf(k.class, who) \in who
    BY <1>2, <2>1, FirstOfIsOneOf
  <2>5. QED
    BY <2>1, <2>2, <2>3, <2>4
<1>4. Goes(w, m)
  BY DEF CancelWrites
<1> HIDE DEF p
<1>5. /\ m \in Cancels /\ m \in Call
      /\ m.step = "commit" /\ m.class = k.class
      /\ m.student = k.student /\ m.promoted = p
  BY <1>1, <1>3 DEF Cancels, Call
<1>6. m # Idle
  BY <1>5 DEF Idle
<1> HIDE DEF m
<1>7. \A d, t : Known(d, t) => Known(d, t)'
  BY DEF CancelWrites, Known, academy
<1>8. ASSUME NEW d \in Closing, NEW t \in Student, Touches(m, d, t)
      PROVE  Known(d, t)'
  <2>1. d \in Class
    BY DEF IInv, Typed, Closing
  <2>2. d = k.class /\ (t = k.student \/ t = p)
    BY <1>5, <1>6, <1>8, <2>1, TouchesFields
  <2>3. CASE t = k.student
    <3>1. Touches(k, d, t)
      BY <1>2, <1>1, <2>1, <2>2, <2>3, TouchesFields DEF IInv, Typed
    <3>2. QED
      BY <1>7, <3>1 DEF IInv, CallsAreKnown
  <2>4. CASE t = p
    <3>1. row[d][t].status \in Active
      BY <1>3, <2>2, <2>4, ConstantsAssumption DEF Active
    <3>2. QED
      BY <1>7, <3>1 DEF IInv, PlacesAreKnown
  <2>5. QED
    BY <2>2, <2>3, <2>4
<1>9. call' \in [Worker -> Call] /\ CallsAreKnown'
  BY <1>4, <1>5, <1>8, GoesKnown DEF CancelWrites
<1>10. QED
  BY <1>9, CallKnown DEF CancelWrites

LEMMA CancelCommitsInv ==
    ASSUME IInv, NEW w \in Worker, CancelCommits(w)
    PROVE  IInv'
<1> DEFINE k == call[w]
           written(s) == IF s = k.student
                         THEN [row[k.class][s] EXCEPT !.status = "CANCELLED",
                                                      !.refunded = k.refunded]
                         ELSE IF s = k.promoted
                         THEN [row[k.class][s] EXCEPT !.status = "BOOKED"]
                         ELSE row[k.class][s]
<1>1. k \in Cancels /\ k.step = "commit" /\ k \in Call
  BY CallKinds DEF IInv, Typed, CancelCommits
<1>2. /\ k.class \in Class /\ k.student \in Student /\ k # Idle
      /\ k.refunded \in BOOLEAN
  BY <1>1 DEF Cancels, Idle
<1>3. \A s \in Student : written(s) \in Row
  <2>1. \A r \in Row : /\ [r EXCEPT !.status = "CANCELLED",
                                    !.refunded = k.refunded] \in Row
                       /\ [r EXCEPT !.status = "BOOKED"] \in Row
    BY <1>2 DEF Row, RowStatus
  <2>2. \A s \in Student : row[k.class][s] \in Row
    BY <1>2 DEF IInv, Typed
  <2> HIDE DEF k
  <2>3. QED
    BY <2>1, <2>2
<1>4. row' = [row EXCEPT ![k.class] = [s \in Student |-> written(s)]]
  BY DEF CancelCommits
<1>5. \A s \in Student : written(s) = row[k.class][s] \/ s = k.student \/ s = k.promoted
  OBVIOUS
<1> HIDE DEF written
<1>6. row' \in [Class -> [Student -> Row]]
  BY <1>2, <1>3, <1>4 DEF IInv, Typed
<1>7. ASSUME NEW c \in Closing, NEW s \in Student
      PROVE  row'[c][s] = row[c][s] \/ Known(c, s)
  <2>1. c \in Class
    BY DEF IInv, Typed, Closing
  <2>2. row'[c][s] = row[c][s] \/ (c = k.class /\ (s = k.student \/ s = k.promoted))
    BY <1>2, <1>4, <1>5, <2>1 DEF IInv, Typed
  <2>3. Touches(k, c, s) <=> c = k.class /\ (s = k.student \/ s = k.promoted)
    BY <1>1, <1>2, <2>1, TouchesFields
  <2>4. Touches(k, c, s) => Known(c, s)
    BY DEF IInv, CallsAreKnown
  <2>5. QED
    BY <2>2, <2>3, <2>4
<1>8. call' \in [Worker -> Call] /\ CallsAreKnown'
  BY ReturnsKnown DEF CancelCommits
<1>9. QED
  BY <1>6, <1>7, <1>8, StepKnown DEF CancelCommits, IInv, Typed

\* The buyer's order is created in two steps, for a class that was not
\* cancelled at the first, and may fail.
LEMMA OrderInv ==
    ASSUME IInv, NEW o \in Order,
           PurchaseReads(o) \/ PurchaseCounts(o) \/ Fails(o)
    PROVE  IInv'
<1>1. UNCHANGED <<academy, row, call, unreleased>>
  BY DEF PurchaseReads, PurchaseCounts, Fails
<1>2. PICK status \in {"NONE"} \cup Unpaid : order' = [order EXCEPT ![o] = status]
  BY DEF PurchaseReads, PurchaseCounts, Fails, Unpaid
<1>3. order[o] \in Unpaid \/ Bought[o] \notin cancelled
  BY DEF PurchaseReads, PurchaseCounts, Fails, ClassAhead, Unpaid
<1>4. CallsAreKnown'
  BY <1>1 DEF IInv, CallsAreKnown, Closing, Known, Touches, About, academy
<1>5. QED
  BY <1>1, <1>2, <1>3, <1>4, StepKnown DEF IInv, Typed

LEMMA SettleBeginsInv ==
    ASSUME IInv, NEW w \in Worker, NEW o \in Order, SettleBegins(w, o)
    PROVE  IInv'
<1> DEFINE c == Bought[o]
           s == Buyer[o]
           k == [step |-> "settle", class |-> c, student |-> s,
                 place |-> Place(c), found |-> row[c][s].status # "NONE",
                 order |-> o]
<1>1. c \in Class /\ s \in Student /\ order[o] \in Unpaid
  BY ConstantsAssumption DEF SettleBegins, Unpaid
<1>2. /\ k \in Call
      /\ k.step = "settle" /\ k.class = c /\ k.student = s
  BY <1>1 DEF Call, Place, Active
<1>3. /\ Begins(w, k) /\ k # Idle
      /\ UNCHANGED <<academy, row, order>>
  BY <1>2 DEF SettleBegins, Idle
<1> HIDE DEF k
<1>4. c \in cancelled => Known(c, s)
  BY <1>1 DEF IInv, OrdersAreKnown, Known
<1>5. QED
  BY <1>2, <1>3, <1>4, BeginsKnown

LEMMA SettleCommitsInv ==
    ASSUME IInv, NEW w \in Worker, SettleCommits(w)
    PROVE  IInv'
<1> DEFINE k == call[w]
<1>1. k \in Takes
  BY CallKinds DEF IInv, Typed, SettleCommits
<1>2. k.class \in Class /\ k.student \in Student /\ k.place \in Active /\ k # Idle
  BY <1>1 DEF Takes, Idle
<1>3. k.class \in Closing => Known(k.class, k.student)
  BY <1>1, <1>2, TouchesFields DEF IInv, Typed, CallsAreKnown
<1>4. row' \in [Class -> [Student -> Row]]
  <2> DEFINE here == row[k.class][k.student]
             r == [here EXCEPT !.status = k.place, !.paid = TRUE]
  <2>1. here \in Row
    BY <1>2 DEF IInv, Typed
  <2>2. r \in Row
    BY <1>2, <2>1 DEF Row, Active, RowStatus
  <2>3. row' = row \/ row' = [row EXCEPT ![k.class][k.student] = r]
    BY DEF SettleCommits
  <2> HIDE DEF r, k
  <2>4. row \in [Class -> [Student -> Row]]
    BY DEF IInv, Typed
  <2>5. QED
    BY <1>2, <2>2, <2>3, <2>4
<1>5. \A c \in Class, s \in Student :
        row'[c][s] = row[c][s] \/ (c = k.class /\ s = k.student)
  BY <1>2 DEF SettleCommits, IInv, Typed
<1>6. \A c \in Closing, s \in Student :
        row'[c][s] = row[c][s] \/ Known(c, s)
  BY <1>3, <1>5 DEF IInv, Typed, Closing
<1>7. call' \in [Worker -> Call] /\ CallsAreKnown'
  BY ReturnsKnown DEF SettleCommits
<1>8. /\ order' \in [Order -> {"NONE", "PAID"} \cup Unpaid]
      /\ \A o \in Order : order'[o] \in Unpaid => order[o] \in Unpaid
  <2>1. order' = order \/ order' = [order EXCEPT ![k.order] = "PAID"]
    BY DEF SettleCommits
  <2>2. QED
    BY <2>1 DEF IInv, Typed, Unpaid
<1>9. QED
  BY <1>4, <1>6, <1>7, <1>8, StepKnown DEF SettleCommits

-----------------------------------------------------------------------------
(* The academy, the clock and the deaths.                                  *)

\* What is out of reach when the cancellation selects or commits is recorded.
LEMMA OutOfReachIsKnown ==
    ASSUME NEW c \in Class, NEW s \in Student,
           \/ \E w \in Worker : Touches(call[w], c, s)
           \/ \E o \in Order : Bought[o] = c /\ Buyer[o] = s /\ order[o] \in Unpaid
           \/ row[c][s].status = "CANCELLED" /\ Consumes(row[c][s])
    PROVE  s \in OutOfReach(c)
  BY DEF OutOfReach, Touches

LEMMA CancelClassSelectsInv ==
    ASSUME IInv, NEW c \in Class, CancelClassSelects(c)
    PROVE  IInv'
<1>1. /\ c \notin cancelled \cup releasing
      /\ releasing' = releasing \cup {c} /\ cancelled' = cancelled
      /\ affected' = [affected EXCEPT ![c] =
                         {s \in Student : row[c][s].status \in Active}]
      /\ unreleased' = unreleased \cup ({c} \X OutOfReach(c))
      /\ UNCHANGED <<row, order, call>>
  BY DEF CancelClassSelects
<1>2. \A d, s : d # c /\ Known(d, s) => Known(d, s)'
  BY <1>1 DEF Known
<1>3. PlacesAreKnown'
  <2>1. ASSUME NEW s \in Student, row[c][s].status \in Active
        PROVE  Known(c, s)'
    BY <1>1, <2>1 DEF Known, IInv, Typed
  <2>2. QED
    BY <1>1, <1>2, <2>1 DEF IInv, PlacesAreKnown, Closing
<1>4. CallsAreKnown'
  <2>1. ASSUME NEW w \in Worker, NEW s \in Student, Touches(call[w], c, s)
        PROVE  Known(c, s)'
    BY <1>1, <2>1, OutOfReachIsKnown DEF Known
  <2>2. QED
    BY <1>1, <1>2, <2>1 DEF IInv, CallsAreKnown, Closing, Touches, About
<1>5. QED
  BY <1>1, <1>3, <1>4 DEF IInv, Typed, CancelledClassIsReleased, OrdersAreKnown,
                          Consumes

LEMMA CancelClassCommitsInv ==
    ASSUME IInv, NEW c \in Class, CancelClassCommits(c)
    PROVE  IInv'
<1>1. /\ c \in releasing
      /\ cancelled' = cancelled \cup {c} /\ releasing' = releasing \ {c}
      /\ affected' = [affected EXCEPT ![c] = {}]
      /\ unreleased' = unreleased \cup ({c} \X OutOfReach(c))
      /\ UNCHANGED <<order, call>>
  BY DEF CancelClassCommits
<1>2. \A s \in Student : row[c][s] \in Row
  BY DEF IInv, Typed
<1>3. \A r \in Row :
        /\ Released(r) \in Row /\ Released(r).status \notin Active
        /\ Consumes(Released(r)) => r.status = "CANCELLED" /\ Consumes(r)
        /\ Consumes(r) => r.status \in Active \cup {"CANCELLED"}
  BY DEF Row, RowStatus, Active, Released, Consumes
<1>4. /\ row' \in [Class -> [Student -> Row]]
      /\ \A s \in Student :
            row'[c][s] = IF s \in affected[c] THEN Released(row[c][s]) ELSE row[c][s]
      /\ \A d \in Class \ {c} : row'[d] = row[d]
  <2>1. row' = [row EXCEPT ![c] = [s \in Student |->
                   IF s \in affected[c] THEN Released(row[c][s]) ELSE row[c][s]]]
    BY DEF CancelClassCommits
  <2>2. QED
    BY <1>2, <1>3, <2>1 DEF IInv, Typed
<1>5. \A s \in OutOfReach(c) : <<c, s>> \in unreleased'
  BY <1>1
<1>6. \A d, s : d # c /\ Known(d, s) => Known(d, s)'
  BY <1>1 DEF Known
<1>7. ASSUME NEW s \in Student,
             row'[c][s].status \in Active \/ Consumes(row'[c][s])
      PROVE  <<c, s>> \in unreleased'
  <2>1. CASE row[c][s].status = "CANCELLED" /\ Consumes(row[c][s])
    BY <1>5, <2>1, OutOfReachIsKnown
  <2>2. CASE row[c][s].status \in Active /\ s \notin affected[c]
    BY <1>1, <2>2 DEF IInv, PlacesAreKnown, Known, Closing
  <2>3. QED
    BY <1>2, <1>3, <1>4, <1>7, <2>1, <2>2
<1>8. CancelledClassIsReleased'
  <2>1. ASSUME NEW d \in cancelled, NEW s \in Student,
               row'[d][s].status \in Active \/ Consumes(row'[d][s])
        PROVE  <<d, s>> \in unreleased'
    BY <1>1, <1>4, <2>1 DEF IInv, Typed, CancelledClassIsReleased
  <2>2. QED
    BY <1>1, <1>7, <2>1 DEF CancelledClassIsReleased, Consumes
<1>9. PlacesAreKnown'
  <2>1. ASSUME NEW s \in Student, row'[c][s].status \in Active
        PROVE  Known(c, s)'
    BY <1>7, <2>1 DEF Known
  <2>2. ASSUME NEW d \in Closing \ {c}, NEW s \in Student,
               row'[d][s].status \in Active
        PROVE  Known(d, s)'
    BY <1>4, <1>6, <2>2 DEF IInv, Typed, PlacesAreKnown, Closing
  <2>3. QED
    BY <1>1, <2>1, <2>2 DEF PlacesAreKnown, Closing
<1>10. CallsAreKnown'
  <2>1. ASSUME NEW w \in Worker, NEW s \in Student, Touches(call[w], c, s)
        PROVE  Known(c, s)'
    BY <1>5, <2>1, OutOfReachIsKnown DEF Known
  <2>2. QED
    BY <1>1, <1>6, <2>1 DEF IInv, CallsAreKnown, Closing, Touches, About
<1>11. OrdersAreKnown'
  <2>1. \A o \in Order : Bought[o] = c /\ order[o] \in Unpaid
          => Buyer[o] \in OutOfReach(c)
    BY ConstantsAssumption DEF OutOfReach
  <2>2. QED
    BY <1>1, <1>5, <2>1 DEF IInv, OrdersAreKnown
<1>12. QED
  BY <1>1, <1>4, <1>8, <1>9, <1>10, <1>11 DEF IInv, Typed

\* A cancellation that is undone forgets what it had recorded.
LEMMA CancelClassAbortsInv ==
    ASSUME IInv, NEW c \in Class, CancelClassAborts(c)
    PROVE  IInv'
<1>1. /\ c \in releasing /\ c \notin cancelled
      /\ releasing' = releasing \ {c} /\ cancelled' = cancelled
      /\ affected' = [affected EXCEPT ![c] = {}]
      /\ unreleased' = {u \in unreleased : u[1] # c}
      /\ UNCHANGED <<row, order, call>>
  BY DEF CancelClassAborts, IInv
<1>2. \A d, s : d # c /\ <<d, s>> \in unreleased => <<d, s>> \in unreleased'
  BY <1>1
<1>3. \A d, s : d # c /\ Known(d, s) => Known(d, s)'
  BY <1>1, <1>2 DEF Known
<1>4. c \notin Closing' /\ Closing' \subseteq Closing
  BY <1>1 DEF Closing
<1>5. CancelledClassIsReleased' /\ OrdersAreKnown'
  BY <1>1, <1>2 DEF IInv, CancelledClassIsReleased, OrdersAreKnown, Consumes
<1>6. PlacesAreKnown'
  BY <1>1, <1>3, <1>4 DEF IInv, PlacesAreKnown
<1>7. CallsAreKnown'
  BY <1>1, <1>3, <1>4 DEF IInv, CallsAreKnown, Touches, About
<1>8. QED
  BY <1>1, <1>5, <1>6, <1>7 DEF IInv, Typed

LEMMA AbortsInv ==
    ASSUME IInv, NEW w \in Worker, Aborts(w)
    PROVE  IInv'
<1>1. call' \in [Worker -> Call] /\ CallsAreKnown'
  BY ReturnsKnown DEF Aborts
<1>2. QED
  BY <1>1, CallKnown DEF Aborts

LEMMA StaysInv ==
    ASSUME IInv, UNCHANGED <<row, academy, order, call, unreleased>>
    PROVE  IInv'
<1>1. CallsAreKnown'
  BY DEF IInv, CallsAreKnown, Closing, Known, Touches, About, academy
<1>2. QED
  BY <1>1, CallKnown DEF IInv, Typed

-----------------------------------------------------------------------------
LEMMA InitInv == Init => IInv
<1> SUFFICES ASSUME Init PROVE IInv
  OBVIOUS
<1>1. NoRow \in Row /\ Idle \in Call
  BY DEF NoRow, Row, RowStatus, Call
<1>2. Typed
  BY <1>1 DEF Init, Typed
<1>3. QED
  BY <1>2 DEF Init, IInv, CancelledClassIsReleased, PlacesAreKnown, CallsAreKnown,
              OrdersAreKnown, Closing

LEMMA NextInv == IInv /\ [Next]_vars => IInv'
<1> SUFFICES ASSUME IInv, [Next]_vars PROVE IInv'
  OBVIOUS
<1>1. ASSUME NEW w \in Worker, NEW c \in Class, NEW s \in Student,
             BookBegins(w, c, s) \/ CancelBegins(w, c, s)
      PROVE  IInv'
  BY <1>1, BookBeginsInv, CancelBeginsInv
<1>2. ASSUME NEW o \in Order,
             \/ PurchaseReads(o) \/ PurchaseCounts(o) \/ Fails(o)
             \/ \E w \in Worker : SettleBegins(w, o)
      PROVE  IInv'
  BY <1>2, OrderInv, SettleBeginsInv
<1>3. ASSUME NEW w \in Worker, Steps(w)
      PROVE  IInv'
  BY <1>3, BookCountsInv, BookWritesInv, CancelWritesInv, CancelCommitsInv,
     SettleCommitsInv, AbortsInv DEF Steps
<1>4. ASSUME NEW c \in Class, CancelClass(c) \/ Passes(c)
      PROVE  IInv'
  <2>1. CASE CancelClass(c)
    BY <2>1, CancelClassSelectsInv, CancelClassCommitsInv, CancelClassAbortsInv
       DEF CancelClass
  <2>2. CASE Passes(c)
    BY <2>2, StaysInv DEF Passes
  <2>3. QED
    BY <1>4, <2>1, <2>2
<1>5. CASE UNCHANGED vars
  BY <1>5, StaysInv DEF vars
<1>6. QED
  BY <1>1, <1>2, <1>3, <1>4, <1>5 DEF Next

\* A class that the academy cancelled keeps no place and no credit but of
\* students with a call or an order under way while the transaction of the
\* cancellation was open (releaseBookings selects the rows and updates them by
\* their ids, class-series.controller.ts), and credit that was already lost,
\* for any number of calls that overlap with it.
THEOREM CancelledClassesEmpty == Spec => []CancelledClassIsReleased
<1>1. IInv => CancelledClassIsReleased
  BY DEF IInv
<1>2. QED
  BY InitInv, NextInv, <1>1, PTL DEF Spec

-----------------------------------------------------------------------------
(* The limits of the classes and of the plans. One call after the other    *)
(* keeps them; the argument follows what a call has read until it writes.  *)

\* What a call is about is crossed as soon as another call is about it too.
OneCallEach ==
    \A x \in (Class \cup Student) \ crossed : \A v, w \in Worker :
        x \in About(call[v]) /\ x \in About(call[w]) => v = w

\* A place that a call has counted is still free.
PlaceIsFree(w) ==
    LET k == call[w] IN
    k.step \in {"take", "settle"} /\ k.place = "BOOKED" /\ k.class \notin crossed
        => Booked(k.class) < Capacity[k.class]

\* The credit that a call has found is still there, for the student who books
\* and for the one who is promoted.
CreditIsLeft(w) ==
    LET k == call[w] IN
    /\ k.step = "book" /\ k.credit /\ k.student \notin crossed
           => HasCredit(k.student)
    /\ k.step = "take" /\ k.place = "BOOKED" /\ k.student \notin crossed
           => HasCredit(k.student) \/ row[k.class][k.student].paid
    /\ k.step = "commit" /\ k.promoted # Nobody /\ k.promoted \notin crossed
           => HasCredit(k.promoted)

\* Who cancels too late has paid, has spent the credit already or, when the
\* academy has given it back meanwhile, has it to lose.
LateIsSpent(w) ==
    LET k == call[w] IN
    (/\ k.step \in {"cancel", "commit"} /\ ~k.refunded
     /\ k.student \notin crossed /\ k.student \in Enrolled)
        => \/ row[k.class][k.student].paid
           \/ Consumes(row[k.class][k.student])
           \/ HasCredit(k.student)

\* Who is promoted gets the place of who cancels: she has it until then, or
\* the academy has released it and it is free.
PlaceIsHandedOver(w) ==
    LET k == call[w] IN
    (/\ \/ k.step = "cancel" /\ k.was = "BOOKED"
        \/ k.step = "commit" /\ k.promoted # Nobody
     /\ k.class \notin crossed)
        => \/ row[k.class][k.student].status = "BOOKED"
           \/ Booked(k.class) < Capacity[k.class]

\* What the call of worker w relies on.
Relies(w) ==
    PlaceIsFree(w) /\ CreditIsLeft(w) /\ LateIsSpent(w) /\ PlaceIsHandedOver(w)

LimitInv ==
    /\ OneCallEach
    /\ \A w \in Worker : Relies(w)
    /\ RacesAloneBreakLimits

\* The step of worker w: the other calls stay as they are, what it now shares
\* with them is crossed, and it writes what its call is about.
StepOf(w) ==
    /\ \A v \in Worker \ {w} : call'[v] = call[v]
    /\ crossed \subseteq crossed'
    /\ \A v \in Worker \ {w} : About(call'[w]) \cap About(call[v]) \subseteq crossed'
    /\ \A c \in Class, s \in Student :
          row'[c][s] # row[c][s] => c \in About(call[w]) /\ s \in About(call[w])

-----------------------------------------------------------------------------
(* Counting.                                                               *)

LEMMA FewerCount ==
    ASSUME NEW T, IsFiniteSet(T), NEW S, S \subseteq T
    PROVE  /\ Cardinality(S) \in Nat /\ Cardinality(T) \in Nat
           /\ Cardinality(S) <= Cardinality(T)
  BY FS_Subset, FS_CardinalityType

LEMMA OneMoreCounts ==
    ASSUME NEW T, IsFiniteSet(T), NEW x, NEW S, S \subseteq T \cup {x}
    PROVE  /\ Cardinality(S) \in Nat /\ Cardinality(T) \in Nat
           /\ Cardinality(S) <= Cardinality(T) + 1
<1>1. /\ IsFiniteSet(T \cup {x})
      /\ Cardinality(T \cup {x}) = IF x \in T THEN Cardinality(T)
                                   ELSE Cardinality(T) + 1
  BY FS_AddElement
<1>2. Cardinality(S) \in Nat /\ Cardinality(S) <= Cardinality(T \cup {x})
  BY <1>1, FewerCount
<1>3. Cardinality(T) \in Nat /\ Cardinality(T \cup {x}) \in Nat
  BY <1>1, FS_CardinalityType
<1>4. QED
  BY <1>1, <1>2, <1>3

LEMMA OneLessCounts ==
    ASSUME NEW T, IsFiniteSet(T), NEW x \in T, NEW S, S \subseteq T \ {x}
    PROVE  /\ Cardinality(S) \in Nat /\ Cardinality(T) \in Nat
           /\ Cardinality(S) <= Cardinality(T) - 1
<1>1. IsFiniteSet(T \ {x}) /\ Cardinality(T \ {x}) = Cardinality(T) - 1
  BY FS_RemoveElement
<1>2. Cardinality(S) \in Nat /\ Cardinality(S) <= Cardinality(T \ {x})
  BY <1>1, FewerCount
<1>3. Cardinality(T) \in Nat
  BY FS_CardinalityType
<1>4. QED
  BY <1>1, <1>2, <1>3

\* One out, one in.
LEMMA ExchangeCounts ==
    ASSUME NEW T, IsFiniteSet(T), NEW x \in T, NEW y, NEW S,
           S \subseteq (T \ {x}) \cup {y}
    PROVE  /\ Cardinality(S) \in Nat /\ Cardinality(T) \in Nat
           /\ Cardinality(S) <= Cardinality(T)
<1>1. /\ IsFiniteSet(T \ {x}) /\ Cardinality(T) \in Nat
      /\ Cardinality(T \ {x}) = Cardinality(T) - 1
  BY FS_RemoveElement, FS_CardinalityType
<1>2. /\ Cardinality(S) \in Nat
      /\ Cardinality(S) <= Cardinality(T \ {x}) + 1
  BY <1>1, OneMoreCounts
<1>3. QED
  BY <1>1, <1>2

\* The places of a class when one student's row is written.
LEMMA BookedMoves ==
    ASSUME NEW c \in Class, NEW s \in Student,
           \A t \in Student \ {s} : row'[c][t] = row[c][t]
    PROVE  /\ Booked(c) \in Nat /\ Booked(c)' \in Nat
           /\ Booked(c)' <= Booked(c) + 1
           /\ row'[c][s].status # "BOOKED" => Booked(c)' <= Booked(c)
<1> DEFINE T == {t \in Student : row[c][t].status = "BOOKED"}
           S == {t \in Student : row'[c][t].status = "BOOKED"}
<1>1. Booked(c) = Cardinality(T) /\ Booked(c)' = Cardinality(S)
  BY DEF Booked
<1>2. IsFiniteSet(T)
  BY ConstantsAssumption, FS_Subset
<1>3. S \subseteq T \cup {s} /\ (row'[c][s].status # "BOOKED" => S \subseteq T)
  OBVIOUS
<1> HIDE DEF S, T
<1>4. QED
  BY <1>1, <1>2, <1>3, FewerCount, OneMoreCounts

\* The credit of a student when one of her rows is written.
LEMMA UsedMoves ==
    ASSUME NEW s \in Student, NEW c \in Class,
           \A d \in Class \ {c} : row'[d][s] = row[d][s]
    PROVE  /\ Used(s) \in Nat /\ Used(s)' \in Nat
           /\ Used(s)' <= Used(s) + 1
           /\ (Consumes(row'[c][s]) => Consumes(row[c][s])) => Used(s)' <= Used(s)
           /\ Consumes(row[c][s]) /\ ~Consumes(row'[c][s]) => Used(s)' <= Used(s) - 1
<1> DEFINE T == {d \in Class : Consumes(row[d][s])}
           S == {d \in Class : Consumes(row'[d][s])}
<1>1. Used(s) = Cardinality(T) /\ Used(s)' = Cardinality(S)
  BY DEF Used, Consumes
<1>2. IsFiniteSet(T)
  BY ConstantsAssumption, FS_Subset
<1>3. /\ S \subseteq T \cup {c}
      /\ (Consumes(row'[c][s]) => Consumes(row[c][s])) => S \subseteq T
      /\ Consumes(row[c][s]) /\ ~Consumes(row'[c][s]) => c \in T /\ S \subseteq T \ {c}
  OBVIOUS
<1> HIDE DEF S, T
<1>4. QED
  BY <1>1, <1>2, <1>3, FewerCount, OneMoreCounts, OneLessCounts

LEMMA BookedNat ==
    ASSUME NEW c \in Class
    PROVE  Booked(c) \in Nat /\ Booked(c)' \in Nat
<1>1. /\ IsFiniteSet({s \in Student : row[c][s].status = "BOOKED"})
      /\ IsFiniteSet({s \in Student : row'[c][s].status = "BOOKED"})
  BY ConstantsAssumption, FS_Subset
<1>2. QED
  BY <1>1, FS_CardinalityType DEF Booked

LEMMA UsedNat ==
    ASSUME NEW s
    PROVE  Used(s) \in Nat /\ Used(s)' \in Nat
<1>1. /\ IsFiniteSet({c \in Class : Consumes(row[c][s])})
      /\ IsFiniteSet({c \in Class : Consumes(row'[c][s])})
  BY ConstantsAssumption, FS_Subset
<1>2. QED
  BY <1>1, FS_CardinalityType DEF Used, Consumes

\* The counts of classes and students that a step does not write.
LEMMA ClassStays ==
    ASSUME NEW c \in Class, \A s \in Student : row'[c][s] = row[c][s]
    PROVE  Booked(c)' = Booked(c) /\ Waiting(c)' = Waiting(c)
<1>1. {s \in Student : row'[c][s].status = "BOOKED"}
        = {s \in Student : row[c][s].status = "BOOKED"}
  OBVIOUS
<1>2. {s \in Student : row'[c][s].status = "WAITLIST"}
        = {s \in Student : row[c][s].status = "WAITLIST"}
  OBVIOUS
<1>3. QED
  BY <1>1, <1>2 DEF Booked, Waiting

LEMMA StudentStays ==
    ASSUME NEW s \in Student, \A c \in Class : row'[c][s] = row[c][s]
    PROVE  Used(s)' = Used(s) /\ (HasCredit(s)' <=> HasCredit(s))
<1>1. {c \in Class : Consumes(row'[c][s])} = {c \in Class : Consumes(row[c][s])}
  OBVIOUS
<1>2. Used(s)' = Used(s)
  BY <1>1 DEF Used, Consumes
<1>3. QED
  BY <1>2 DEF HasCredit

-----------------------------------------------------------------------------
(* What a step of one call does to the others.                             *)

LEMMA GoesIsStep ==
    ASSUME Typed, NEW w \in Worker, NEW k \in Call, Goes(w, k),
           \A c \in Class, s \in Student :
               row'[c][s] # row[c][s] => c \in About(call[w]) /\ s \in About(call[w])
    PROVE  StepOf(w) /\ call'[w] = k
<1>1. call' = [call EXCEPT ![w] = k]
  BY DEF Goes
<1>2. call'[w] = k /\ \A v \in Worker \ {w} : call'[v] = call[v]
  BY <1>1 DEF Typed
<1>3. \A v \in Worker \ {w} : About(k) \cap About(call[v]) \subseteq crossed'
  BY DEF Goes
<1>4. crossed \subseteq crossed'
  BY DEF Goes
<1>5. QED
  BY <1>2, <1>3, <1>4 DEF StepOf

LEMMA ReturnsIsStep ==
    ASSUME Typed, NEW w \in Worker, Returns(w),
           \A c \in Class, s \in Student :
               row'[c][s] # row[c][s] => c \in About(call[w]) /\ s \in About(call[w])
    PROVE  StepOf(w) /\ call'[w] = Idle
<1>1. Idle \in Call /\ Goes(w, Idle)
  BY DEF Call, Returns
<1>2. QED
  BY <1>1, GoesIsStep

\* A call with nothing in it relies on nothing.
LEMMA IdleReliesNext ==
    ASSUME NEW w \in Worker, call'[w] = Idle
    PROVE  Relies(w)'
<1>1. call'[w].step = "idle"
  BY DEF Idle
<1>2. PlaceIsFree(w)'
  BY <1>1 DEF PlaceIsFree
<1>3. CreditIsLeft(w)'
  BY <1>1 DEF CreditIsLeft
<1>4. LateIsSpent(w)'
  BY <1>1 DEF LateIsSpent
<1>5. PlaceIsHandedOver(w)'
  BY <1>1 DEF PlaceIsHandedOver
<1>6. QED
  BY <1>2, <1>3, <1>4, <1>5 DEF Relies

\* The class, the student and the promoted of a call.
LEMMA CallAbout ==
    ASSUME NEW k \in Call, k # Idle
    PROVE  /\ k.class \in Class /\ k.class \in About(k)
           /\ k.student \in Student /\ k.student \in About(k)
           /\ k.step = "commit" /\ k.promoted # Nobody =>
                 k.promoted \in Student /\ k.promoted \in About(k)
           /\ \A c \in Class : c \in About(k) => c = k.class
           /\ \A s \in Student : s \in About(k) =>
                 s = k.student \/ (k.step = "commit" /\ s = k.promoted)
<1>1. k.class \in Class /\ k.student \in Student
  BY CallKinds
<1>2. k.step = "commit" => k.promoted \in Student \cup {Nobody}
  <2>1. k.step = "commit" => k \in Cancels
    BY CallKinds
  <2>2. k \in Cancels => k.promoted \in Student \cup {Nobody}
    BY DEF Cancels
  <2>3. QED
    BY <2>1, <2>2
<1>3. QED
  BY <1>1, <1>2, ConstantsAssumption DEF About

\* What a call relies on does not move when another call steps: what both are
\* about is crossed.
LEMMA OthersRely ==
    ASSUME Typed, LimitInv, NEW w \in Worker, StepOf(w),
           NEW v \in Worker \ {w}
    PROVE  Relies(v)'
<1> DEFINE k == call[v]
<1>1. call'[v] = k /\ k \in Call /\ Relies(v) /\ crossed \subseteq crossed'
  BY DEF StepOf, Typed, LimitInv
<1>2. CASE k = Idle
  BY <1>1, <1>2, IdleReliesNext
<1>3. CASE k # Idle
  <2>1. ASSUME NEW x \in (Class \cup Student) \ crossed', x \in About(k)
        PROVE  x \notin About(call[w])
    BY <1>1, <2>1 DEF LimitInv, OneCallEach
  <2>2. /\ k.class \in Class /\ k.class \in About(k)
        /\ k.student \in Student /\ k.student \in About(k)
        /\ k.step = "commit" /\ k.promoted # Nobody =>
              k.promoted \in Student /\ k.promoted \in About(k)
    BY <1>1, <1>3, CallAbout
  <2>3. k.class \notin crossed' =>
          /\ \A s \in Student : row'[k.class][s] = row[k.class][s]
          /\ Booked(k.class)' = Booked(k.class)
          /\ Waiting(k.class)' = Waiting(k.class)
    BY <2>1, <2>2, ClassStays DEF StepOf
  <2>4. ASSUME NEW s \in Student, s \in About(k), s \notin crossed'
        PROVE  /\ \A c \in Class : row'[c][s] = row[c][s]
               /\ HasCredit(s)' <=> HasCredit(s)
    BY <2>1, <2>4, StudentStays DEF StepOf
  <2> HIDE DEF k
  <2>5. PlaceIsFree(v)'
    BY <1>1, <2>3 DEF k, Relies, PlaceIsFree
  <2>6. CreditIsLeft(v)'
    BY <1>1, <2>2, <2>4 DEF k, Relies, CreditIsLeft
  <2>7. LateIsSpent(v)'
    BY <1>1, <2>2, <2>4 DEF k, Relies, LateIsSpent, Consumes
  <2>8. PlaceIsHandedOver(v)'
    BY <1>1, <2>2, <2>3 DEF k, Relies, PlaceIsHandedOver
  <2>9. QED
    BY <2>5, <2>6, <2>7, <2>8 DEF Relies
<1>4. QED
  BY <1>2, <1>3

\* A step keeps the limits when its own call goes on with what it can rely on
\* and what it has written is within them.
LEMMA StepLimits ==
    ASSUME Typed, LimitInv, NEW w \in Worker, StepOf(w), Relies(w)',
           \A c \in Class : c \in About(call[w]) /\ c \notin crossed
               => Booked(c)' <= Capacity[c],
           \A s \in Enrolled : s \in About(call[w]) /\ s \notin crossed
               => Used(s)' <= Limit[s]
    PROVE  LimitInv'
<1>1. OneCallEach'
  <2>1. ASSUME NEW x \in (Class \cup Student) \ crossed', NEW u \in Worker,
               NEW v \in Worker, x \in About(call'[u]), x \in About(call'[v])
        PROVE  u = v
    BY <2>1 DEF LimitInv, OneCallEach, StepOf
  <2>2. QED
    BY <2>1 DEF OneCallEach, About, Idle
<1>2. \A v \in Worker : Relies(v)'
  BY OthersRely
<1>3. \A c \in Class : Booked(c)' > Capacity[c] => c \in crossed'
  <2>1. ASSUME NEW c \in Class, c \notin crossed' PROVE ~(Booked(c)' > Capacity[c])
    <3>1. c \notin crossed /\ Capacity[c] \in Nat /\ Booked(c)' \in Nat
      BY <2>1, ConstantsAssumption, BookedNat DEF StepOf
    <3>2. CASE c \in About(call[w])
      BY <3>1, <3>2
    <3>3. CASE c \notin About(call[w])
      <4>1. Booked(c)' = Booked(c)
        BY <3>3, ClassStays DEF StepOf
      <4>2. QED
        BY <3>1, <4>1 DEF LimitInv, RacesAloneBreakLimits
    <3>4. QED
      BY <3>2, <3>3
  <2>2. QED
    BY <2>1
<1>4. \A s \in Enrolled : Used(s)' > Limit[s] => s \in crossed'
  <2>1. ASSUME NEW s \in Enrolled, s \notin crossed' PROVE ~(Used(s)' > Limit[s])
    <3>1. /\ s \notin crossed /\ Limit[s] \in Nat /\ s \in Student
          /\ Used(s)' \in Nat
      BY <2>1, ConstantsAssumption, UsedNat DEF StepOf
    <3>2. CASE s \in About(call[w])
      BY <3>1, <3>2
    <3>3. CASE s \notin About(call[w])
      <4>1. Used(s)' = Used(s)
        BY <3>1, <3>3, StudentStays DEF StepOf
      <4>2. QED
        BY <3>1, <4>1 DEF LimitInv, RacesAloneBreakLimits
    <3>4. QED
      BY <3>2, <3>3
  <2>2. QED
    BY <2>1
<1>5. RacesAloneBreakLimits'
  BY <1>3, <1>4 DEF RacesAloneBreakLimits
<1>6. QED
  BY <1>1, <1>2, <1>5 DEF LimitInv

\* A step that writes no row keeps the limits when its call goes on well.
LEMMA ReadLimits ==
    ASSUME Typed, LimitInv, NEW w \in Worker, StepOf(w), Relies(w)', row' = row
    PROVE  LimitInv'
<1>1. \A c \in Class : Booked(c)' = Booked(c)
  BY ClassStays
<1>2. \A s \in Student : Used(s)' = Used(s)
  BY StudentStays
<1>3. ASSUME NEW c \in Class, c \notin crossed
      PROVE  Booked(c)' <= Capacity[c]
  <2>1. Booked(c) \in Nat /\ Capacity[c] \in Nat
    BY BookedNat, ConstantsAssumption
  <2>2. QED
    BY <1>1, <1>3, <2>1 DEF LimitInv, RacesAloneBreakLimits
<1>4. ASSUME NEW s \in Enrolled, s \notin crossed
      PROVE  Used(s)' <= Limit[s]
  <2>1. Used(s) \in Nat /\ Limit[s] \in Nat /\ s \in Student
    BY UsedNat, ConstantsAssumption
  <2>2. QED
    BY <1>2, <1>4, <2>1 DEF LimitInv, RacesAloneBreakLimits
<1>5. QED
  BY <1>3, <1>4, StepLimits

-----------------------------------------------------------------------------
(* The steps of the calls, again.                                          *)

LEMMA BookBeginsLimits ==
    ASSUME Typed, LimitInv, NEW w \in Worker, NEW c \in Class, NEW s \in Student,
           BookBegins(w, c, s)
    PROVE  LimitInv'
<1> DEFINE k == [step |-> "book", class |-> c, student |-> s, credit |-> HasCredit(s)]
<1>1. /\ k \in Call /\ k.step = "book" /\ k.student = s
      /\ k.credit <=> HasCredit(s)
  BY DEF Call, HasCredit
<1>2. Goes(w, k) /\ row' = row
  BY DEF BookBegins, Begins
<1> HIDE DEF k
<1>3. StepOf(w) /\ call'[w] = k
  BY <1>1, <1>2, GoesIsStep
<1>4. HasCredit(s)' <=> HasCredit(s)
  BY <1>2, StudentStays
<1>5. Relies(w)'
  <2>1. PlaceIsFree(w)' /\ PlaceIsHandedOver(w)'
    BY <1>1, <1>3 DEF PlaceIsFree, PlaceIsHandedOver
  <2>2. CreditIsLeft(w)'
    BY <1>1, <1>3, <1>4 DEF CreditIsLeft
  <2>3. LateIsSpent(w)'
    BY <1>1, <1>3 DEF LateIsSpent
  <2>4. QED
    BY <2>1, <2>2, <2>3 DEF Relies
<1>6. QED
  BY <1>2, <1>3, <1>5, ReadLimits

LEMMA BookCountsLimits ==
    ASSUME Typed, LimitInv, NEW w \in Worker, BookCounts(w)
    PROVE  LimitInv'
<1> DEFINE k == call[w]
           r == row[k.class][k.student]
           place == Place(k.class)
           m == [step |-> "take", class |-> k.class, student |-> k.student,
                 place |-> place, found |-> r.status # "NONE", order |-> Nobody]
<1>1. k \in Call /\ k.step = "book" /\ row' = row
  BY DEF Typed, BookCounts
<1>2. k.class \in Class /\ k.student \in Student /\ k \in Books /\ k # Idle
  BY <1>1, CallKinds DEF Idle
<1>3. CASE Returns(w)
  <2>1. StepOf(w) /\ call'[w] = Idle
    BY <1>1, <1>3, ReturnsIsStep
  <2>2. Relies(w)'
    BY <2>1, IdleReliesNext
  <2>3. QED
    BY <1>1, <2>1, <2>2, ReadLimits
<1>4. CASE ~Returns(w)
  <2>1. Goes(w, m) /\ (place = "BOOKED" => r.paid \/ k.credit)
    BY <1>4 DEF BookCounts
  <2>2. /\ m \in Call /\ m.step = "take" /\ m.class = k.class
        /\ m.student = k.student /\ m.place = place
    BY <1>2 DEF Call, Place, Active
  <2>3. place = "BOOKED" => Booked(k.class) < Capacity[k.class]
    BY DEF Place
  <2>4. k.student \notin crossed /\ k.credit => HasCredit(k.student)
    BY <1>1 DEF LimitInv, Relies, CreditIsLeft
  <2> HIDE DEF m, place
  <2>5. StepOf(w) /\ call'[w] = m /\ crossed \subseteq crossed'
    BY <1>1, <2>1, <2>2, GoesIsStep DEF StepOf
  <2>6. PICK c \in Class, s \in Student : c = k.class /\ s = k.student
    BY <1>2
  <2> HIDE DEF k
  <2>7. Booked(c)' = Booked(c) /\ (HasCredit(s)' <=> HasCredit(s))
    BY <1>1, ClassStays, StudentStays
  <2>8. PlaceIsFree(w)'
    BY <2>2, <2>3, <2>5, <2>6, <2>7 DEF PlaceIsFree
  <2>9. CreditIsLeft(w)'
    BY <1>1, <2>1, <2>2, <2>4, <2>5, <2>6, <2>7 DEF CreditIsLeft
  <2>10. LateIsSpent(w)' /\ PlaceIsHandedOver(w)'
    BY <2>2, <2>5 DEF LateIsSpent, PlaceIsHandedOver
  <2>11. Relies(w)'
    BY <2>8, <2>9, <2>10 DEF Relies
  <2>12. QED
    BY <1>1, <2>5, <2>11, ReadLimits
<1>5. QED
  BY <1>3, <1>4

\* A write of one row: its place is within the class when it was counted, and
\* within the plan when the credit is there.
LEMMA WriteLimits ==
    ASSUME Typed, LimitInv, NEW w \in Worker, Returns(w),
           NEW c \in Class, NEW s \in Student,
           c = call[w].class, s = call[w].student,
           call[w].step \in {"take", "settle"},
           \A d \in Class, t \in Student :
               row'[d][t] # row[d][t] => d = c /\ t = s,
           row'[c][s] # row[c][s] =>
               /\ row'[c][s].status = call[w].place
               /\ Consumes(row'[c][s]) =>
                    /\ call[w].step = "take" /\ call[w].place = "BOOKED"
                    /\ ~row[c][s].paid
    PROVE  LimitInv'
<1> DEFINE k == call[w]
           here == row[c][s]
           new == row'[c][s]
<1>1. k \in Call /\ k \in Takes /\ k # Idle /\ Relies(w)
  BY CallKinds DEF Typed, Idle, LimitInv
<1>2. /\ c \in About(k) /\ s \in About(k) /\ k.place \in Active
      /\ \A d \in Class : d \in About(k) => d = c
      /\ \A t \in Student : t \in About(k) => t = s
  BY <1>1, CallAbout DEF Takes
<1>3. StepOf(w) /\ call'[w] = Idle
  BY <1>2, ReturnsIsStep
<1>4. Relies(w)'
  BY <1>3, IdleReliesNext
<1>5. ASSUME c \notin crossed
      PROVE  Booked(c)' <= Capacity[c]
  <2>1. /\ Booked(c) \in Nat /\ Booked(c)' \in Nat
        /\ Booked(c)' <= Booked(c) + 1
        /\ new.status # "BOOKED" => Booked(c)' <= Booked(c)
    BY BookedMoves
  <2>2. new = here => Booked(c)' = Booked(c)
    BY ClassStays
  <2>3. Capacity[c] \in Nat /\ ~(Booked(c) > Capacity[c])
    BY <1>5, ConstantsAssumption DEF LimitInv, RacesAloneBreakLimits
  <2>4. k.place = "BOOKED" => Booked(c) < Capacity[c]
    BY <1>1, <1>5 DEF Relies, PlaceIsFree
  <2>5. new # here => new.status = k.place
    OBVIOUS
  <2> HIDE DEF k, new, here
  <2>6. QED
    BY <2>1, <2>2, <2>3, <2>4, <2>5
<1>6. ASSUME s \notin crossed, s \in Enrolled
      PROVE  Used(s)' <= Limit[s]
  <2>1. /\ Used(s) \in Nat /\ Used(s)' \in Nat
        /\ Used(s)' <= Used(s) + 1
        /\ (Consumes(new) => Consumes(here)) => Used(s)' <= Used(s)
    BY UsedMoves
  <2>2. Limit[s] \in Nat /\ ~(Used(s) > Limit[s])
    BY <1>6, ConstantsAssumption DEF LimitInv, RacesAloneBreakLimits
  <2>3. k.step = "take" /\ k.place = "BOOKED" => HasCredit(s) \/ here.paid
    BY <1>1, <1>6 DEF Relies, CreditIsLeft
  <2>4. HasCredit(s) => Used(s) < Limit[s]
    BY DEF HasCredit
  <2>5. new # here /\ Consumes(new) =>
          k.step = "take" /\ k.place = "BOOKED" /\ ~here.paid
    OBVIOUS
  <2> HIDE DEF k, new, here
  <2>6. QED
    BY <2>1, <2>2, <2>3, <2>4, <2>5
<1>7. \A d \in Class : d \in About(k) /\ d \notin crossed => Booked(d)' <= Capacity[d]
  BY <1>2, <1>5
<1>8. \A t \in Enrolled : t \in About(k) /\ t \notin crossed => Used(t)' <= Limit[t]
  BY <1>2, <1>6, ConstantsAssumption
<1>9. QED
  BY <1>3, <1>4, <1>7, <1>8, StepLimits

LEMMA BookWritesLimits ==
    ASSUME Typed, LimitInv, NEW w \in Worker, BookWrites(w)
    PROVE  LimitInv'
<1> DEFINE k == call[w]
<1>1. k \in Takes /\ k.step = "take"
  BY CallKinds DEF Typed, BookWrites
<1>2. PICK c \in Class, s \in Student : c = k.class /\ s = k.student
  BY <1>1 DEF Takes
<1> DEFINE r == [row[c][s] EXCEPT !.status = k.place, !.refunded = TRUE]
<1>3. row[c][s] \in Row
  BY DEF Typed
<1>4. /\ r.status = k.place
      /\ Consumes(r) => k.place = "BOOKED" /\ ~row[c][s].paid
  BY <1>1, <1>3 DEF Row, Active, Consumes, Takes
<1>5. row' = row \/ row' = [row EXCEPT ![c][s] = r]
  BY <1>2 DEF BookWrites
<1> HIDE DEF r
<1>6. /\ \A d \in Class, t \in Student : row'[d][t] # row[d][t] => d = c /\ t = s
      /\ row'[c][s] # row[c][s] => row'[c][s] = r
  BY <1>5 DEF Typed
<1>7. Returns(w)
  BY DEF BookWrites
<1>8. QED
  BY <1>1, <1>2, <1>4, <1>6, <1>7, WriteLimits

LEMMA SettleCommitsLimits ==
    ASSUME Typed, LimitInv, NEW w \in Worker, SettleCommits(w)
    PROVE  LimitInv'
<1> DEFINE k == call[w]
<1>1. k \in Takes /\ k.step = "settle"
  BY CallKinds DEF Typed, SettleCommits
<1>2. PICK c \in Class, s \in Student : c = k.class /\ s = k.student
  BY <1>1 DEF Takes
<1> DEFINE r == [row[c][s] EXCEPT !.status = k.place, !.paid = TRUE]
<1>3. row[c][s] \in Row
  BY DEF Typed
<1>4. r.status = k.place /\ ~Consumes(r)
  BY <1>3 DEF Row, Consumes
<1>5. row' = row \/ row' = [row EXCEPT ![c][s] = r]
  BY <1>2 DEF SettleCommits
<1> HIDE DEF r
<1>6. /\ \A d \in Class, t \in Student : row'[d][t] # row[d][t] => d = c /\ t = s
      /\ row'[c][s] # row[c][s] => row'[c][s] = r
  BY <1>5 DEF Typed
<1>7. Returns(w)
  BY DEF SettleCommits
<1>8. QED
  BY <1>1, <1>2, <1>4, <1>6, <1>7, WriteLimits

LEMMA CancelBeginsLimits ==
    ASSUME Typed, LimitInv, NEW w \in Worker, NEW c \in Class, NEW s \in Student,
           CancelBegins(w, c, s)
    PROVE  LimitInv'
<1> DEFINE k == [step |-> "cancel", class |-> c, student |-> s,
                  was |-> row[c][s].status,
                  refunded |-> Refunds(row[c][s], c), promoted |-> Nobody]
<1>1. row[c][s].status \in Active /\ row[c][s] \in Row /\ row' = row
  BY DEF CancelBegins, Typed
<1>2. /\ k \in Call /\ k.step = "cancel" /\ k.class = c /\ k.student = s
      /\ k.was = row[c][s].status /\ (k.refunded <=> Refunds(row[c][s], c))
  BY <1>1 DEF Call, Refunds, Row
<1>3. Goes(w, k)
  BY DEF CancelBegins, Begins
<1> HIDE DEF k
<1>4. StepOf(w) /\ call'[w] = k
  BY <1>1, <1>2, <1>3, GoesIsStep
<1>5. ~Refunds(row[c][s], c) => row[c][s].paid \/ Consumes(row[c][s])
  BY <1>1 DEF Refunds, Consumes, Active
<1>6. PlaceIsFree(w)' /\ CreditIsLeft(w)'
  BY <1>2, <1>4 DEF PlaceIsFree, CreditIsLeft
<1>7. LateIsSpent(w)'
  BY <1>1, <1>2, <1>4, <1>5 DEF LateIsSpent, Consumes
<1>8. PlaceIsHandedOver(w)'
  BY <1>1, <1>2, <1>4 DEF PlaceIsHandedOver
<1>9. QED
  BY <1>1, <1>4, <1>6, <1>7, <1>8, ReadLimits DEF Relies

LEMMA CancelWritesLimits ==
    ASSUME Typed, LimitInv, NEW w \in Worker, CancelWrites(w)
    PROVE  LimitInv'
<1> DEFINE k == call[w]
           p == IF k.was = "BOOKED" THEN Promoted(k.class, k.student) ELSE Nobody
           m == [k EXCEPT !.step = "commit", !.promoted = p]
<1>1. k \in Cancels /\ k.step = "cancel" /\ row' = row /\ Goes(w, m) /\ Relies(w)
  BY CallKinds DEF Typed, CancelWrites, LimitInv
<1>2. PICK c \in Class, s \in Student : c = k.class /\ s = k.student
  BY <1>1 DEF Cancels
<1>3. p # Nobody => /\ k.was = "BOOKED" /\ p # s
                    /\ p \in Waiting(c) /\ HasCredit(p)
  <2> DEFINE who == {t \in Waiting(c) \ {s} : HasCredit(t)}
  <2>1. who \in SUBSET Student
    BY DEF Waiting
  <2>2. Promoted(c, s) = FirstOf(c, who)
    BY DEF Promoted
  <2>3. \A t \in who : t # s /\ t \in Waiting(c) /\ HasCredit(t)
    OBVIOUS
  <2> HIDE DEF who
  <2>4. FirstOf(c, who) = Nobody \/ FirstOf(c, who) \in who
    BY <2>1, FirstOfIsOneOf
  <2>5. QED
    BY <1>2, <2>2, <2>3, <2>4
<1>4. Waiting(c) \subseteq Student
  BY DEF Waiting
<1> HIDE DEF p
<1>5. /\ m \in Call /\ m.step = "commit" /\ m.class = c /\ m.student = s
      /\ m.promoted = p /\ m.refunded = k.refunded
  BY <1>1, <1>2, <1>3, <1>4 DEF Cancels, Call
<1> HIDE DEF m
<1>6. StepOf(w) /\ call'[w] = m /\ crossed \subseteq crossed'
  BY <1>1, <1>5, GoesIsStep DEF StepOf
<1>7. \A t \in Student : HasCredit(t)' <=> HasCredit(t)
  BY <1>1, StudentStays
<1> HIDE DEF k
<1>8. PlaceIsFree(w)'
  BY <1>5, <1>6 DEF PlaceIsFree
<1>9. CreditIsLeft(w)'
  <2>1. PICK q : q = p
    OBVIOUS
  <2>2. q # Nobody => HasCredit(q)'
    BY <1>3, <1>4, <1>7, <2>1
  <2>3. m.promoted = q
    BY <1>5, <2>1
  <2>4. QED
    BY <1>5, <1>6, <2>2, <2>3 DEF CreditIsLeft
<1>10. LateIsSpent(w)'
  BY <1>1, <1>2, <1>5, <1>6, <1>7 DEF k, Relies, LateIsSpent, Consumes
<1>11. PlaceIsHandedOver(w)'
  <2>1. p # Nobody /\ c \notin crossed =>
          row[c][s].status = "BOOKED" \/ Booked(c) < Capacity[c]
    BY <1>1, <1>2, <1>3 DEF k, Relies, PlaceIsHandedOver
  <2>2. Booked(c)' = Booked(c)
    BY <1>1, ClassStays
  <2>3. QED
    BY <1>1, <1>3, <1>5, <1>6, <2>1, <2>2 DEF PlaceIsHandedOver
<1>12. QED
  BY <1>1, <1>6, <1>8, <1>9, <1>10, <1>11, ReadLimits DEF Relies

LEMMA SettleBeginsLimits ==
    ASSUME Typed, LimitInv, NEW w \in Worker, NEW o \in Order, SettleBegins(w, o)
    PROVE  LimitInv'
<1>1. PICK c \in Class, s \in Student : c = Bought[o] /\ s = Buyer[o]
  BY ConstantsAssumption
<1> DEFINE k == [step |-> "settle", class |-> c, student |-> s,
                 place |-> Place(c), found |-> row[c][s].status # "NONE",
                 order |-> o]
<1>2. k \in Call /\ k.step = "settle" /\ k.class = c /\ k.place = Place(c)
  BY DEF Call, Place, Active
<1>3. Goes(w, k) /\ row' = row
  BY <1>1 DEF SettleBegins, Begins
<1> HIDE DEF k
<1>4. StepOf(w) /\ call'[w] = k
  BY <1>2, <1>3, GoesIsStep
<1>5. Booked(c)' = Booked(c) /\ (Place(c) = "BOOKED" => Booked(c) < Capacity[c])
  BY <1>3, ClassStays DEF Place
<1>6. PlaceIsFree(w)'
  BY <1>2, <1>4, <1>5 DEF PlaceIsFree
<1>7. CreditIsLeft(w)' /\ PlaceIsHandedOver(w)'
  BY <1>2, <1>4 DEF CreditIsLeft, PlaceIsHandedOver
<1>8. LateIsSpent(w)'
  BY <1>2, <1>4 DEF LateIsSpent
<1>9. QED
  BY <1>3, <1>4, <1>6, <1>7, <1>8, ReadLimits DEF Relies

LEMMA CancelCommitsLimits ==
    ASSUME Typed, LimitInv, NEW w \in Worker, CancelCommits(w)
    PROVE  LimitInv'
<1> DEFINE k == call[w]
<1>1. k \in Cancels /\ k.step = "commit" /\ k \in Call /\ k # Idle /\ Relies(w)
  <2>1. k \in Call /\ k.step = "commit" /\ Relies(w)
    BY DEF Typed, CancelCommits, LimitInv
  <2>2. k \in Cancels
    BY <2>1, CallKinds
  <2>3. QED
    BY <2>1, <2>2 DEF Idle
<1>2. PICK c \in Class, s \in Student, p \in Student \cup {Nobody} :
         c = k.class /\ s = k.student /\ p = k.promoted
  BY <1>1 DEF Cancels
<1> DEFINE written(t) == IF t = s
                         THEN [row[c][t] EXCEPT !.status = "CANCELLED",
                                                !.refunded = k.refunded]
                         ELSE IF t = p
                         THEN [row[c][t] EXCEPT !.status = "BOOKED"]
                         ELSE row[c][t]
<1>3. row' = [row EXCEPT ![c] = [t \in Student |-> written(t)]]
  BY <1>2 DEF CancelCommits
<1>4. \A t \in Student : row[c][t] \in Row
  BY DEF Typed
<1>5. /\ written(s).status = "CANCELLED"
      /\ Consumes(written(s)) => ~row[c][s].paid /\ ~k.refunded
      /\ \A t \in Student : written(t) = row[c][t] \/ t = s \/ t = p
  BY <1>4 DEF Consumes, Row
<1> HIDE DEF written
<1>6. /\ \A t \in Student : row'[c][t] = written(t)
      /\ \A d \in Class \ {c} : row'[d] = row[d]
  BY <1>3 DEF Typed
<1>7. /\ \A d \in Class, t \in Student :
           row'[d][t] # row[d][t] => d = c /\ (t = s \/ t = p)
      /\ row'[c][s].status = "CANCELLED"
      /\ Consumes(row'[c][s]) => ~row[c][s].paid /\ ~k.refunded
  BY <1>5, <1>6
<1>8. /\ c \in About(k) /\ s \in About(k)
      /\ p # Nobody => p \in Student /\ p \in About(k)
      /\ \A d \in Class : d \in About(k) => d = c
      /\ \A t \in Student : t \in About(k) => t = s \/ t = p
  BY <1>1, <1>2, CallAbout
<1>9. StepOf(w) /\ call'[w] = Idle
  <2>1. Returns(w)
    BY DEF CancelCommits
  <2>2. QED
    BY <1>7, <1>8, <2>1, ConstantsAssumption, ReturnsIsStep
<1>10. Relies(w)'
  BY <1>9, IdleReliesNext
<1>11. ASSUME c \notin crossed
       PROVE  Booked(c)' <= Capacity[c]
  <2> DEFINE T == {t \in Student : row[c][t].status = "BOOKED"}
             S == {t \in Student : row'[c][t].status = "BOOKED"}
  <2>1. Booked(c) = Cardinality(T) /\ Booked(c)' = Cardinality(S)
    BY DEF Booked
  <2>2. IsFiniteSet(T)
    BY ConstantsAssumption, FS_Subset
  <2>3. p = Nobody => S \subseteq T
    BY <1>7, ConstantsAssumption
  <2>4. p # Nobody => s \in T \/ Booked(c) < Capacity[c]
    BY <1>1, <1>2, <1>11 DEF Relies, PlaceIsHandedOver
  <2>5. S \subseteq (T \ {s}) \cup {p}
    BY <1>7
  <2> HIDE DEF S, T
  <2>6. /\ Cardinality(S) \in Nat /\ Cardinality(T) \in Nat
        /\ p = Nobody \/ s \in T => Cardinality(S) <= Cardinality(T)
    BY <2>2, <2>3, <2>5, FewerCount, ExchangeCounts, OneMoreCounts
  <2>7. Cardinality(S) <= Cardinality(T) + 1
    BY <2>2, <2>5, OneMoreCounts
  <2>8. Capacity[c] \in Nat /\ ~(Booked(c) > Capacity[c])
    BY <1>11, ConstantsAssumption DEF LimitInv, RacesAloneBreakLimits
  <2>9. QED
    BY <2>1, <2>4, <2>6, <2>7, <2>8
<1>12. ASSUME NEW t \in Enrolled, t = s \/ t = p, t \notin crossed
       PROVE  Used(t)' <= Limit[t]
  <2>1. t \in Student /\ Limit[t] \in Nat /\ ~(Used(t) > Limit[t])
    BY <1>12, ConstantsAssumption DEF LimitInv, RacesAloneBreakLimits
  <2>2. /\ Used(t) \in Nat /\ Used(t)' \in Nat
        /\ Used(t)' <= Used(t) + 1
        /\ (Consumes(row'[c][t]) => Consumes(row[c][t])) => Used(t)' <= Used(t)
    BY <1>7, <2>1, UsedMoves
  <2>3. HasCredit(t) => Used(t) < Limit[t]
    BY DEF HasCredit
  <2>4. HasCredit(t) \/ (Consumes(row'[c][t]) => Consumes(row[c][t]))
    <3>1. CASE t = s
      <4>1. ~k.refunded => \/ row[c][s].paid \/ Consumes(row[c][s])
                           \/ HasCredit(s)
        BY <1>1, <1>2, <1>12, <3>1 DEF Relies, LateIsSpent
      <4>2. QED
        BY <1>7, <3>1, <4>1
    <3>2. CASE t = p
      BY <1>1, <1>2, <1>12, <2>1, <3>2, ConstantsAssumption DEF Relies, CreditIsLeft
    <3>3. QED
      BY <1>12, <3>1, <3>2
  <2>5. QED
    BY <2>1, <2>2, <2>3, <2>4
<1>13. \A d \in Class : d \in About(k) /\ d \notin crossed => Booked(d)' <= Capacity[d]
  BY <1>8, <1>11
<1>14. \A t \in Enrolled : t \in About(k) /\ t \notin crossed => Used(t)' <= Limit[t]
  BY <1>8, <1>12, ConstantsAssumption
<1>15. QED
  BY <1>9, <1>10, <1>13, <1>14, StepLimits

LEMMA AbortsLimits ==
    ASSUME Typed, LimitInv, NEW w \in Worker, Aborts(w)
    PROVE  LimitInv'
<1>1. StepOf(w) /\ call'[w] = Idle /\ row' = row
  BY ReturnsIsStep DEF Aborts
<1>2. QED
  BY <1>1, IdleReliesNext, ReadLimits

\* What touches no row and no call keeps the limits.
LEMMA StaysLimits ==
    ASSUME LimitInv, UNCHANGED <<row, call, crossed>>
    PROVE  LimitInv'
<1>1. /\ \A c : Booked(c)' = Booked(c) /\ Waiting(c)' = Waiting(c)
      /\ \A s : HasCredit(s)' <=> HasCredit(s)
      /\ \A s : Used(s)' = Used(s)
  BY DEF HasCredit, Used, Booked, Waiting, Consumes
<1>2. ASSUME NEW w \in Worker PROVE Relies(w)'
  <2>1. Relies(w)
    BY DEF LimitInv
  <2>2. PlaceIsFree(w)' /\ PlaceIsHandedOver(w)'
    BY <1>1, <2>1 DEF Relies, PlaceIsFree, PlaceIsHandedOver
  <2>3. CreditIsLeft(w)'
    BY <1>1, <2>1 DEF Relies, CreditIsLeft
  <2>4. LateIsSpent(w)'
    BY <1>1, <2>1 DEF Relies, LateIsSpent, Consumes
  <2>5. QED
    BY <2>2, <2>3, <2>4 DEF Relies
<1>3. OneCallEach => OneCallEach'
  BY DEF OneCallEach, About
<1>4. RacesAloneBreakLimits => RacesAloneBreakLimits'
  BY <1>1 DEF RacesAloneBreakLimits
<1>5. QED
  BY <1>2, <1>3, <1>4 DEF LimitInv

\* The cancellation of a class commits: places are free and who held them has
\* the credit back, which only leaves more of what the calls rely on.
LEMMA CancelClassLimits ==
    ASSUME Typed, LimitInv, NEW c \in Class, CancelClassCommits(c)
    PROVE  LimitInv'
<1> DEFINE written(s) == IF s \in affected[c] THEN Released(row[c][s]) ELSE row[c][s]
<1>1. /\ UNCHANGED <<call, crossed>>
      /\ row' = [row EXCEPT ![c] = [s \in Student |-> written(s)]]
  BY DEF CancelClassCommits
<1>2. \A s \in Student : row[c][s] \in Row
  BY DEF Typed
<1>3. \A r \in Row :
        /\ Released(r).status \notin Active \/ Released(r) = r
        /\ Released(r).paid = r.paid
        /\ Consumes(Released(r)) => Consumes(r)
        /\ r.status \notin Active => Released(r) = r
  BY DEF Row, RowStatus, Active, Released, Consumes
<1>4. \A s \in Student : /\ written(s).status \notin Active \/ written(s) = row[c][s]
                         /\ written(s).paid = row[c][s].paid
                         /\ Consumes(written(s)) => Consumes(row[c][s])
  BY <1>2, <1>3
<1> HIDE DEF written
<1>5. /\ \A s \in Student : row'[c][s] = written(s)
      /\ \A d \in Class \ {c}, s \in Student : row'[d][s] = row[d][s]
  BY <1>1 DEF Typed
<1>6. \A d \in Class, s \in Student :
        /\ row'[d][s].paid = row[d][s].paid
        /\ Consumes(row'[d][s]) => Consumes(row[d][s])
        /\ row'[d][s].status \in Active => row'[d][s] = row[d][s]
  BY <1>4, <1>5
<1>7. ASSUME NEW d \in Class
      PROVE  /\ Booked(d) \in Nat /\ Booked(d)' \in Nat /\ Booked(d)' <= Booked(d)
             /\ \A s \in Student : row[d][s].status = "BOOKED" =>
                   row'[d][s].status = "BOOKED" \/ Booked(d)' < Booked(d)
  <2> DEFINE T == {t \in Student : row[d][t].status = "BOOKED"}
             S == {t \in Student : row'[d][t].status = "BOOKED"}
  <2>1. IsFiniteSet(T) /\ S \subseteq T
    BY <1>6, ConstantsAssumption, FS_Subset DEF Active
  <2>2. Booked(d) = Cardinality(T) /\ Booked(d)' = Cardinality(S)
    BY DEF Booked
  <2>3. \A s \in Student : row[d][s].status = "BOOKED" =>
          row'[d][s].status = "BOOKED" \/ (s \in T /\ S \subseteq T \ {s})
    BY <2>1
  <2> HIDE DEF S, T
  <2>4. Booked(d) \in Nat /\ Booked(d)' \in Nat /\ Booked(d)' <= Booked(d)
    BY <2>1, <2>2, FewerCount
  <2>5. \A s \in Student : s \in T /\ S \subseteq T \ {s} => Booked(d)' < Booked(d)
    BY <2>1, <2>2, <2>4, OneLessCounts
  <2>6. QED
    BY <2>3, <2>4, <2>5
<1>8. ASSUME NEW s \in Student
      PROVE  /\ Used(s) \in Nat /\ Used(s)' \in Nat /\ Used(s)' <= Used(s)
             /\ HasCredit(s) => HasCredit(s)'
             /\ \A d \in Class : Consumes(row[d][s]) /\ ~Consumes(row'[d][s])
                   => Used(s)' <= Used(s) - 1
  <2>1. /\ Used(s) \in Nat /\ Used(s)' \in Nat /\ Used(s)' <= Used(s)
        /\ Consumes(row[c][s]) /\ ~Consumes(row'[c][s]) => Used(s)' <= Used(s) - 1
    BY <1>5, <1>6, UsedMoves
  <2>2. HasCredit(s) => HasCredit(s)'
    BY <2>1, ConstantsAssumption DEF HasCredit
  <2>3. QED
    BY <1>5, <2>1, <2>2
<1>9. ASSUME NEW w \in Worker
      PROVE  Relies(w)'
  <2> DEFINE k == call[w]
  <2>1. k \in Call /\ call'[w] = k /\ crossed' = crossed /\ Relies(w)
    BY <1>1 DEF Typed, LimitInv
  <2>2. CASE k = Idle
    BY <2>1, <2>2, IdleReliesNext
  <2>3. CASE k # Idle
    <3>1. PICK d \in Class, s \in Student : d = k.class /\ s = k.student
      BY <2>1, <2>3, CallAbout
    <3>2. k.step = "commit" /\ k.promoted # Nobody => k.promoted \in Student
      BY <2>1, <2>3, CallAbout
    <3>3. /\ Capacity[d] \in Nat /\ Booked(d) \in Nat
          /\ d \notin crossed => ~(Booked(d) > Capacity[d])
      BY <1>7, ConstantsAssumption DEF LimitInv, RacesAloneBreakLimits
    <3> HIDE DEF k
    <3>4. PlaceIsFree(w)'
      BY <1>7, <2>1, <3>1, <3>3 DEF k, Relies, PlaceIsFree
    <3>5. CreditIsLeft(w)'
      BY <1>6, <1>8, <2>1, <3>1, <3>2 DEF k, Relies, CreditIsLeft
    <3>6. LateIsSpent(w)'
      <4>1. s \in Enrolled /\ s \notin crossed /\ Consumes(row[d][s]) /\ ~Consumes(row'[d][s])
              => HasCredit(s)'
        BY <1>8, ConstantsAssumption DEF LimitInv, RacesAloneBreakLimits, HasCredit
      <4>2. QED
        BY <1>6, <1>8, <2>1, <3>1, <4>1 DEF k, Relies, LateIsSpent, Consumes
    <3>7. PlaceIsHandedOver(w)'
      <4>1. d \notin crossed /\ (\/ row[d][s].status = "BOOKED"
                                 \/ Booked(d) < Capacity[d])
              => row'[d][s].status = "BOOKED" \/ Booked(d)' < Capacity[d]
        BY <1>7, <3>3
      <4>2. QED
        BY <2>1, <3>1, <4>1 DEF k, Relies, PlaceIsHandedOver
    <3>8. QED
      BY <3>4, <3>5, <3>6, <3>7 DEF Relies
  <2>4. QED
    BY <2>2, <2>3
<1>10. RacesAloneBreakLimits'
  <2>1. ASSUME NEW d \in Class, d \notin crossed
        PROVE  ~(Booked(d)' > Capacity[d])
    BY <1>7, <2>1, ConstantsAssumption DEF LimitInv, RacesAloneBreakLimits
  <2>2. ASSUME NEW s \in Enrolled, s \notin crossed
        PROVE  ~(Used(s)' > Limit[s])
    BY <1>8, <2>2, ConstantsAssumption DEF LimitInv, RacesAloneBreakLimits
  <2>3. QED
    BY <1>1, <2>1, <2>2 DEF RacesAloneBreakLimits
<1>11. OneCallEach'
  <2>1. OneCallEach => OneCallEach'
    BY <1>1 DEF OneCallEach, About
  <2>2. QED
    BY <2>1 DEF LimitInv
<1>12. QED
  BY <1>9, <1>10, <1>11 DEF LimitInv

-----------------------------------------------------------------------------
LEMMA InitLimits == Init => LimitInv
<1> SUFFICES ASSUME Init PROVE LimitInv
  OBVIOUS
<1>1. \A w \in Worker : call[w] = Idle
  BY DEF Init
<1>2. \A w \in Worker : Relies(w)
  <2>1. \A w \in Worker : call[w].step = "idle"
    BY <1>1 DEF Idle
  <2>2. QED
    BY <2>1 DEF Relies, PlaceIsFree, CreditIsLeft, LateIsSpent, PlaceIsHandedOver
<1>3. OneCallEach
  BY <1>1 DEF OneCallEach, About
<1>4. ASSUME NEW c \in Class
      PROVE  ~(Booked(c) > Capacity[c])
  <2>1. {s \in Student : row[c][s].status = "BOOKED"} = {}
    BY DEF Init, NoRow
  <2>2. Booked(c) = 0 /\ Capacity[c] \in Nat
    BY <2>1, FS_EmptySet, ConstantsAssumption DEF Booked
  <2>3. QED
    BY <2>2
<1>5. ASSUME NEW s \in Enrolled
      PROVE  ~(Used(s) > Limit[s])
  <2>1. {c \in Class : Consumes(row[c][s])} = {}
    BY ConstantsAssumption DEF Init, NoRow, Consumes
  <2>2. Used(s) = 0 /\ Limit[s] \in Nat
    BY <2>1, FS_EmptySet, ConstantsAssumption DEF Used
  <2>3. QED
    BY <2>2
<1>6. QED
  BY <1>2, <1>3, <1>4, <1>5 DEF LimitInv, RacesAloneBreakLimits

LEMMA NextLimits == Typed /\ LimitInv /\ [Next]_vars => LimitInv'
<1> SUFFICES ASSUME Typed, LimitInv, [Next]_vars PROVE LimitInv'
  OBVIOUS
<1>1. ASSUME NEW w \in Worker, NEW c \in Class, NEW s \in Student,
             BookBegins(w, c, s) \/ CancelBegins(w, c, s)
      PROVE  LimitInv'
  BY <1>1, BookBeginsLimits, CancelBeginsLimits
<1>2. ASSUME NEW o \in Order,
             \/ PurchaseReads(o) \/ PurchaseCounts(o) \/ Fails(o)
             \/ \E w \in Worker : SettleBegins(w, o)
      PROVE  LimitInv'
  <2>1. CASE PurchaseReads(o) \/ PurchaseCounts(o) \/ Fails(o)
    BY <2>1, StaysLimits DEF PurchaseReads, PurchaseCounts, Fails
  <2>2. QED
    BY <1>2, <2>1, SettleBeginsLimits
<1>3. ASSUME NEW w \in Worker, Steps(w)
      PROVE  LimitInv'
  BY <1>3, BookCountsLimits, BookWritesLimits, CancelWritesLimits,
     CancelCommitsLimits, SettleCommitsLimits, AbortsLimits DEF Steps
<1>4. ASSUME NEW c \in Class, CancelClass(c) \/ Passes(c)
      PROVE  LimitInv'
  <2>1. CASE Passes(c)
    BY <2>1, StaysLimits DEF Passes
  <2>2. CASE CancelClassSelects(c) \/ CancelClassAborts(c)
    BY <2>2, StaysLimits DEF CancelClassSelects, CancelClassAborts
  <2>3. QED
    BY <1>4, <2>1, <2>2, CancelClassLimits DEF CancelClass
<1>5. CASE UNCHANGED vars
  BY <1>5, StaysLimits DEF vars
<1>6. QED
  BY <1>1, <1>2, <1>3, <1>4, <1>5 DEF Next

\* No class has more students than places and no student has spent more than
\* the plan gives, unless two calls about it have overlapped: what book, the
\* promotion of cancel and the settlement have counted holds until they write
\* when nobody else is at it, whatever the academy cancels meanwhile.
THEOREM LimitsBreakOnlyByRaces == Spec => []RacesAloneBreakLimits
<1>1. IInv => Typed
  BY DEF IInv
<1>2. LimitInv => RacesAloneBreakLimits
  BY DEF LimitInv
<1>3. QED
  BY InitInv, NextInv, InitLimits, NextLimits, <1>1, <1>2, PTL DEF Spec
=============================================================================
