-------------------------- MODULE MCClassBookings --------------------------
(***************************************************************************)
(* Instances of ClassBookings for TLC: two classes with one place each and *)
(* a credit for each enrolled student.                                     *)
(***************************************************************************)
EXTENDS ClassBookings, TLC

CONSTANTS ana, beto, c1, c2, o1, w1, w2

OnePlace == [c \in Class |-> 1]
OneCredit == [s \in Enrolled |-> 1]

\* The second class is there for the credits; the academy and the clock leave
\* it alone.
OtherClassStays == phase[c2] = "early" /\ c2 \notin cancelled \cup releasing

Workers == Permutations({w1, w2})
AnaBuys == [o \in Order |-> ana]
OfFirstClass == [o \in Order |-> c1]

=============================================================================
