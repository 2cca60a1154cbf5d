------------------------ MODULE CardMembershipProofs ------------------------
(***************************************************************************)
(* Proofs about CardMembership, for any plans, requests, prices and        *)
(* bounds: which rows of a person are in force, and what a cancellation    *)
(* and the end of a remote subscription do to them.                        *)
(***************************************************************************)
EXTENDS CardMembership, WellFoundedInduction, TLAPS

\* The rows over which the protocol was crossed.
Known == overwritten \cup repricing

\* A worker that has had a remote subscription created, one that acts on a
\* subscription that it did not create, one that has claimed its row, and one
\* that goes by a remote id that it found on its row.
Creates(w) == work[w].at \in {"link", "activate", "compensate"}
ActsOn(w) ==
    work[w].at \in {"adopt", "fetch", "sync", "end", "ended", "drift", "flag", "kill"}
Claimer(w) == At(w, "adopt") \/ (~work[w].reprice /\ (At(w, "create") \/ Creates(w)))
Follower(w) ==
    work[w].reprice
    \/ work[w].at \in {"fetch", "sync", "end", "ended", "drift", "flag", "undo"}

\* The rows are used in order, and one that waits for a card has neither a
\* remote id nor a note of a reprice.
RowsKnown ==
    /\ \A s, t \in Sub : s < t /\ row[s].status = "NONE" => row[t].status = "NONE"
    /\ \A s \in Sub : row[s].status \in {"NONE", "PENDING_CARD"}
                        => row[s].remote = None /\ ~row[s].reprice

\* What each worker has in its hands.
Hand(w) ==
    /\ work[w].at \notin {"idle", "kill"} => row[work[w].sub].status # "NONE"
    /\ Follower(w) => row[work[w].sub].remote # None
    /\ Creates(w) \/ ActsOn(w) => work[w].remote # None
    /\ work[w].reprice => /\ At(w, "create") \/ Creates(w) \/ At(w, "undo")
                          /\ work[w].seen.reprice
    /\ At(w, "undo") => work[w].reprice
    /\ IF work[w].reprice \/ work[w].at \in {"fetch", "sync"}
         THEN work[w].seen.status \notin {"NONE", "PENDING_CARD"}
         ELSE work[w].seen.status = "NONE" /\ ~work[w].seen.reprice
    /\ w \in Sweeper => work[w].at \in {"idle", "kill"}
WorkKnown == \A w \in Worker : Hand(w)

\* One worker at a time has claimed a row, and the row has no remote id until
\* this worker writes it.
ClaimsAlone ==
    \A w \in Worker : Claimer(w) =>
        /\ row[work[w].sub].status # "PENDING_CARD"
        /\ work[w].at \in {"create", "link", "adopt"} => row[work[w].sub].remote = None
        /\ \A u \in Worker \ {w} : Claimer(u) => work[u].sub # work[w].sub

\* A row that is claimed has not been ACTIVE yet, and nobody has read that it
\* was or is repricing it.
NeverActive ==
    \A w \in Worker : Claimer(w) =>
        /\ row[work[w].sub].status # "ACTIVE" /\ ~row[work[w].sub].reprice
        /\ \A u \in Worker : work[u].sub = work[w].sub =>
             /\ work[u].seen.status # "ACTIVE" /\ ~work[u].seen.reprice
             /\ work[u].at \notin {"drift", "flag"}

\* A row is in force no more once there is a newer one of its plan.
OneLivePerPlan ==
    \A s, t \in Sub :
        /\ s < t /\ row[s].plan = row[t].plan
        /\ row[t].status # "NONE" /\ row[s].status \in Live
        => s \in Known

\* A note of a reprice is on a row that is not in force, or was read of one,
\* only where a cancellation met the reprice.
NotesKnown ==
    /\ \A s \in Sub : row[s].reprice /\ row[s].status \in {"CANCELED", "ACTIVATING"}
                        => s \in Known
    /\ \A w \in Worker : work[w].seen.reprice /\ work[w].seen.status = "CANCELED"
                           => work[w].sub \in Known

\* A row whose cancellation was answered stays canceled, and nobody has a
\* note of a reprice of it.
AskedStays ==
    \A s \in asked : s \notin Known =>
        /\ row[s].status \in {"CANCEL_PENDING", "CANCELED"}
        /\ ~row[s].reprice /\ ~NoteRead(s)

\* Every remote id that is written somewhere is of a subscription that began,
\* and those that a card form returns with are not audited.
Returned == {t[2] : t \in tokens}
RemotesKnown ==
    /\ \A s \in Sub : row[s].remote # None => remote[row[s].remote] # "none"
    /\ \A r \in Remote : r \in Returned \cup audited => remote[r] # "none"
    /\ \A w \in Worker : work[w].remote # None => remote[work[w].remote] # "none"
    /\ audited \cap Returned = {}

\* The subscription that a worker has had created is on no other row, in no
\* other hands, and out of the sweep.
CreatedAlone ==
    \A w \in Worker :
       /\ Creates(w) =>
            /\ work[w].remote \notin Returned \cup settledAudit
            /\ \A s \in Sub : row[s].remote = work[w].remote => s = work[w].sub
            /\ \A u \in Worker \ {w} : Creates(u) => work[u].remote # work[w].remote
       /\ At(w, "link") =>
            /\ remote[work[w].remote] = "active" \/ work[w].remote \in outside
            /\ \A s \in Sub : row[s].remote # work[w].remote
            /\ \A u \in Worker \ {w} : work[u].remote # work[w].remote
       /\ At(w, "adopt") => work[w].remote \in Returned

\* What the provider told of an end stays true.
ToldTruth ==
    \A w \in Worker : At(w, "sync") =>
       /\ work[w].told = "ended" => remote[work[w].remote] = "ended"
       /\ work[w].told = "ending" => remote[work[w].remote] \in {"ending", "ended"}

\* What the sweep is about to cancel is on no row that is ACTIVE by right.
KillsNoActive ==
    \A w \in Worker : At(w, "kill") =>
       /\ work[w].remote \in settledAudit
       /\ \A s \in Sub : row[s].remote = work[w].remote /\ row[s].status = "ACTIVE"
                           => s \in overwritten

\* The remote subscription of an ACTIVE row goes on, or its end is noted, is
\* about to be, was asked for, came from outside, or is known to have lost its
\* note.
ActiveIsCharged ==
    \A s \in Sub :
        /\ row[s].status = "ACTIVE" /\ ~row[s].reprice
        /\ row[s].remote # None /\ remote[row[s].remote] # "active"
        => \/ s \in asked \cup dropped \cup overwritten
           \/ row[s].remote \in outside
           \/ \E w \in Request : work[w].at \in {"ended", "flag", "undo"} /\ work[w].sub = s

IInv ==
    /\ TypeOK /\ RowsKnown /\ WorkKnown /\ ClaimsAlone /\ NeverActive
    /\ OnePendingCard /\ OneLivePerPlan /\ NotesKnown /\ AskedStays
    /\ RemotesKnown /\ CreatedAlone /\ ToldTruth /\ KillsNoActive /\ ActiveIsCharged

-----------------------------------------------------------------------------
(* Frames.                                                                 *)

LEMMA ConstantFacts ==
    /\ MaxSub \in Nat /\ 1 \in Sub /\ Sub \subseteq Nat /\ Remote \subseteq Nat
    /\ None \notin Remote /\ None \notin Sub
    /\ MaxPrice \in Nat /\ MaxCall \in Nat /\ MaxCrash \in Nat
    /\ Request \subseteq Worker /\ Sweeper \subseteq Worker /\ Request \cap Sweeper = {}
    /\ \E p \in Plan : TRUE
BY ConstantsAssumption DEF Sub, Remote, None, Worker

LEMMA BlankRow ==
    /\ Blank \in Row /\ Blank.status = "NONE" /\ Blank.remote = None
    /\ Blank.reprice = FALSE /\ Blank.charge = 0
<1>1. (CHOOSE p \in Plan : TRUE) \in Plan
  BY ConstantFacts
<1> QED
  BY <1>1, ConstantFacts DEF Blank, Row, Status

LEMMA IdleWork ==
    /\ Idle \in Work /\ Idle.at = "idle" /\ Idle.sub = 1 /\ Idle.remote = None
    /\ Idle.seen = Unread /\ Idle.told = "none" /\ Idle.reprice = FALSE
    /\ Unread \in Seen /\ Unread.status = "NONE" /\ Unread.reprice = FALSE
BY ConstantFacts DEF Idle, Unread, Work, Seen, Step, Status, RemoteStatus

LEMMA WorkFields ==
    ASSUME TypeOK, NEW w \in Worker
    PROVE  /\ work[w] \in Work /\ work[w].at \in Step /\ work[w].sub \in Sub
           /\ work[w].remote \in Remote \cup {None} /\ work[w].seen \in Seen
           /\ work[w].told \in RemoteStatus /\ work[w].reprice \in BOOLEAN
BY DEF TypeOK, Work

LEMMA RowFields ==
    ASSUME TypeOK, NEW s \in Sub
    PROVE  /\ row[s] \in Row /\ row[s].status \in Status /\ row[s].plan \in Plan
           /\ row[s].remote \in Remote \cup {None} /\ row[s].fresh \in BOOLEAN
           /\ row[s].reprice \in BOOLEAN /\ row[s].charge \in 0..MaxPrice
BY DEF TypeOK, Row

\* The names that the state holds.
Names ==
    /\ \A u \in Worker : work[u].sub \in Sub /\ work[u].remote \in Remote \cup {None}
    /\ \A s \in Sub : row[s].remote \in Remote \cup {None}
    /\ audited \subseteq Remote /\ settledAudit \subseteq audited
    /\ Returned \subseteq Remote \cup {None} /\ None \notin Remote
    /\ Request \subseteq Worker

LEMMA NamesKnown == TypeOK => Names
<1> SUFFICES ASSUME TypeOK PROVE Names
  OBVIOUS
<1>1. Returned \subseteq Remote \cup {None}
  BY DEF TypeOK, Returned
<1> QED
  BY <1>1, WorkFields, RowFields, ConstantFacts DEF Names, TypeOK

\* A worker that acts on a remote subscription has the id of one that began.
Hands ==
    \A u \in Worker :
        Creates(u) \/ ActsOn(u) =>
            work[u].remote \in Remote /\ remote[work[u].remote] # "none"

LEMMA HandsKnown == TypeOK /\ WorkKnown /\ RemotesKnown => Hands
<1> SUFFICES ASSUME TypeOK, WorkKnown, RemotesKnown PROVE Hands
  OBVIOUS
<1>1. Names
  BY NamesKnown
<1> QED
  BY <1>1 DEF Names, Hands, WorkKnown, Hand, RemotesKnown

LEMMA ReadFields ==
    ASSUME NEW r \in Row
    PROVE  /\ Read(r) \in Seen /\ Read(r).status = r.status
           /\ Read(r).reprice = r.reprice /\ Read(r).charge = r.charge
BY DEF Read, Row, Seen

LEMMA DoFrame ==
    ASSUME TypeOK, NEW w \in Worker, NEW job \in Work, Do(w, job)
    PROVE  /\ work' \in [Worker -> Work]
           /\ work'[w] = job
           /\ \A u \in Worker \ {w} : work'[u] = work[u]
<1> HIDE DEF Work
<1>1. work \in [Worker -> Work] /\ work' = [work EXCEPT ![w] = job]
  BY DEF TypeOK, Do
<1> QED
  BY <1>1

\* What a worker that is done has in its hands, and one that goes on.
DoneAt(w) ==
    /\ work' \in [Worker -> Work]
    /\ work'[w].at = "idle" /\ work'[w].sub = 1 /\ work'[w].remote = None
    /\ work'[w].seen.status = "NONE" /\ ~work'[w].seen.reprice /\ ~work'[w].reprice
    /\ \A u \in Worker \ {w} : work'[u] = work[u]
ThenAt(w, step) ==
    /\ work' \in [Worker -> Work]
    /\ work'[w].at = step /\ work'[w].sub = work[w].sub
    /\ work'[w].remote = work[w].remote /\ work'[w].seen = work[w].seen
    /\ work'[w].told = work[w].told /\ work'[w].reprice = work[w].reprice
    /\ \A u \in Worker \ {w} : work'[u] = work[u]

LEMMA DoneFrame ==
    ASSUME TypeOK, NEW w \in Worker, Done(w)
    PROVE  DoneAt(w)
BY DoFrame, IdleWork DEF Done, DoneAt

LEMMA ThenFrame ==
    ASSUME TypeOK, NEW w \in Worker, NEW step \in Step, Then(w, step)
    PROVE  ThenAt(w, step)
<1> DEFINE job == [work[w] EXCEPT !.at = step]
<1>1. /\ job \in Work /\ job.at = step /\ job.sub = work[w].sub /\ job.remote = work[w].remote
      /\ job.seen = work[w].seen /\ job.told = work[w].told /\ job.reprice = work[w].reprice
  BY WorkFields DEF Work
<1>2. Do(w, job)
  BY DEF Then
<1> HIDE DEF job
<1> QED
  BY <1>1, <1>2, DoFrame DEF ThenAt

\* A row of which only the status is written.
StatusAt(s, status) ==
    /\ row' \in [Sub -> Row]
    /\ row'[s].status = status /\ row'[s].plan = row[s].plan
    /\ row'[s].remote = row[s].remote /\ row'[s].reprice = row[s].reprice
    /\ \A t \in Sub \ {s} : row'[t] = row[t]

LEMMA StatusFrame ==
    ASSUME TypeOK, NEW s \in Sub, NEW status \in Status,
           row' = [row EXCEPT ![s].status = status]
    PROVE  StatusAt(s, status)
<1> DEFINE new == [row[s] EXCEPT !.status = status]
<1>1. /\ new \in Row /\ new.status = status /\ new.plan = row[s].plan
      /\ new.remote = row[s].remote /\ new.reprice = row[s].reprice
  BY RowFields DEF Row
<1>2. row' = [row EXCEPT ![s] = new] /\ row \in [Sub -> Row]
  BY DEF TypeOK
<1> HIDE DEF new, Row
<1> QED
  BY <1>1, <1>2 DEF StatusAt

\* The subscription that begins.
BeginsAt(r) ==
    /\ remote' \in [Remote -> RemoteStatus]
    /\ remote[r] = "none" /\ remote'[r] = "active"
    /\ \A q \in Remote \ {r} : remote'[q] = remote[q]

LEMMA BeginsFrame ==
    ASSUME TypeOK, NEW r \in Remote, Begins(r)
    PROVE  BeginsAt(r)
BY DEF TypeOK, Begins, BeginsAt, RemoteStatus

LEMMA CalledCounts ==
    ASSUME TypeOK, NEW w \in Worker, Called(w)
    PROVE  calls' \in 0..MaxCall /\ work[w].at = "idle"
BY ConstantFacts DEF TypeOK, Called, At

LEMMA NewestExists ==
    ASSUME NEW S \in SUBSET Sub, S # {}
    PROVE  Newest(S) \in S /\ \A t \in S : t <= Newest(S)
<1> DEFINE T == {MaxSub - t : t \in S}
<1>1. \A t \in S : t \in Nat /\ MaxSub - t \in Nat
  BY ConstantFacts DEF Sub
<1>2. T \subseteq Nat /\ T # {}
  BY <1>1
<1>3. PICK n \in T : \A m \in T : ~ (<<m, n>> \in OpToRel(<, Nat))
  <2> HIDE DEF T
  <2> QED
    BY <1>2, WFMin, NatLessThanWellFounded
<1>4. PICK s \in S : n = MaxSub - s
  OBVIOUS
<1>5. \A t \in S : t <= s
  <2> TAKE t \in S
  <2>1. MaxSub - t \in T /\ n \in Nat /\ MaxSub - t \in Nat
    BY <1>1, <1>2
  <2>2. ~ (MaxSub - t < n)
    <3>1. <<MaxSub - t, n>> \in Nat \X Nat
      BY <2>1
    <3> QED
      BY <2>1, <3>1, <1>3 DEF OpToRel
  <2> QED
    BY <2>1, <2>2, <1>1, <1>4, ConstantFacts
<1> QED
  BY <1>5 DEF Newest

-----------------------------------------------------------------------------
(* The invariant holds at first, and every step preserves it.              *)

LEMMA InitInv == ASSUME Init PROVE IInv
<1>1. /\ row \in [Sub -> Row] /\ \A s \in Sub : row[s] = Blank
      /\ remote \in [Remote -> RemoteStatus]
      /\ work \in [Worker -> Work] /\ \A w \in Worker : work[w] = Idle
  BY BlankRow, IdleWork DEF Init, RemoteStatus
<1>2. calls \in 0..MaxCall /\ crashes \in 0..MaxCrash /\ price \in 0..MaxPrice
  BY ConstantFacts DEF Init
<1>3. TypeOK
  BY <1>1, <1>2 DEF Init, TypeOK
<1>4. RowsKnown /\ OnePendingCard /\ OneLivePerPlan /\ NotesKnown /\ ActiveIsCharged
  BY <1>1, BlankRow, IdleWork
     DEF Init, RowsKnown, OnePendingCard, OneLivePerPlan, NotesKnown, ActiveIsCharged, Live
<1>5. \A w \in Worker : /\ work[w].at = "idle" /\ work[w].remote = None /\ ~work[w].reprice
                       /\ work[w].seen.status = "NONE" /\ ~work[w].seen.reprice
  BY <1>1, IdleWork
<1>6. WorkKnown /\ ClaimsAlone /\ NeverActive
  BY <1>1, <1>5, BlankRow, IdleWork
     DEF WorkKnown, Hand, ClaimsAlone, NeverActive, Claimer, Follower, Creates, ActsOn, At
<1>7. AskedStays /\ RemotesKnown /\ CreatedAlone /\ ToldTruth /\ KillsNoActive
  BY <1>1, <1>5, BlankRow
     DEF Init, AskedStays, RemotesKnown, CreatedAlone, ToldTruth, KillsNoActive, Creates,
         Returned, At
<1> QED
  BY <1>3, <1>4, <1>6, <1>7 DEF IInv

\* What the invariant asks of the rows and of the history is as it was.
RowsSame ==
    \A s \in Sub : /\ row'[s].status = row[s].status /\ row'[s].plan = row[s].plan
                   /\ row'[s].remote = row[s].remote /\ row'[s].reprice = row[s].reprice
HistorySame ==
    /\ asked' = asked /\ repricing' = repricing /\ overwritten' = overwritten
    /\ putBack' = putBack /\ outside' = outside

LEMMA AsideInv ==
    ASSUME IInv, TypeOK', RowsSame, HistorySame, UNCHANGED <<providerVars,
                                                             auditVars, work,
                                                             dropped>>
    PROVE  IInv'
<1>0. /\ TypeOK /\ RowsKnown /\ WorkKnown /\ ClaimsAlone /\ NeverActive
      /\ OnePendingCard /\ OneLivePerPlan /\ NotesKnown /\ AskedStays
      /\ RemotesKnown /\ CreatedAlone /\ ToldTruth /\ KillsNoActive /\ ActiveIsCharged
  BY DEF IInv
<1>k. asked \subseteq Sub
  BY <1>0 DEF TypeOK
<1>n. Names
  BY <1>0, NamesKnown
<1>h. Hands
  BY <1>0, HandsKnown
<1>1. RowsSame /\ HistorySame /\ UNCHANGED <<remote, tokens, audited,
                                             settledAudit, work, dropped>>
  BY DEF providerVars, auditVars
<1>r. Returned' = Returned
  BY <1>1 DEF Returned
<1>t. TypeOK'
  OBVIOUS
<1>A. RowsKnown'
  BY <1>0, <1>n DEF RowsKnown, RowsSame
<1>B. WorkKnown'
  BY <1>0, <1>n
    DEF WorkKnown, Hand, Follower, Creates, ActsOn, At, Names, RowsSame
<1>C. ClaimsAlone'
  BY <1>0, <1>n DEF ClaimsAlone, Claimer, Creates, At, Names, RowsSame
<1>D. NeverActive'
  BY <1>0, <1>n DEF NeverActive, Claimer, Creates, At, Names, RowsSame
<1>E. OnePendingCard'
  BY <1>0, <1>n DEF OnePendingCard, RowsSame, HistorySame
<1>F. OneLivePerPlan'
  BY <1>0, <1>n DEF OneLivePerPlan, Known, RowsSame, HistorySame
<1>G. NotesKnown'
  BY <1>0, <1>n DEF NotesKnown, Known, RowsSame, HistorySame
<1>H. AskedStays'
  BY <1>0, <1>k DEF AskedStays, Known, NoteRead, RowsSame, HistorySame
<1>I. RemotesKnown'
  BY <1>0, <1>r, <1>1 DEF RemotesKnown, RowsSame
<1>J. CreatedAlone'
  BY <1>0, <1>r, <1>1 DEF CreatedAlone, Creates, At, RowsSame, HistorySame
<1>K. ToldTruth'
  BY <1>0, <1>h, <1>1 DEF ToldTruth, At
<1>L. KillsNoActive'
  BY <1>0, <1>h, <1>1 DEF KillsNoActive, At, RowsSame, HistorySame
<1>M. ActiveIsCharged'
  BY <1>0, <1>n, <1>1 DEF ActiveIsCharged, RowsSame, HistorySame
<1> QED
  BY <1>t, <1>A, <1>B, <1>C, <1>D, <1>E, <1>F, <1>G, <1>H, <1>I, <1>J, <1>K,
     <1>L, <1>M
    DEF IInv

LEMMA RowAgesInv == ASSUME IInv, NEW s \in Sub, RowAges(s) PROVE IInv'
<1>1. UNCHANGED <<providerVars, auditVars, price, outside, work, boundVars,
                  historyVars>> /\ TypeOK
  BY DEF RowAges, IInv
<1> DEFINE new == [row[s] EXCEPT !.fresh = FALSE]
<1>2. /\ new \in Row /\ new.status = row[s].status /\ new.plan = row[s].plan
      /\ new.remote = row[s].remote /\ new.reprice = row[s].reprice
  BY <1>1, RowFields DEF Row
<1>3. row' = [row EXCEPT ![s] = new] /\ row \in [Sub -> Row]
  BY <1>1 DEF RowAges, TypeOK
<1> HIDE DEF new, Row
<1>4. row' \in [Sub -> Row] /\ RowsSame
  BY <1>2, <1>3 DEF RowsSame
<1>5. TypeOK'
  BY <1>1, <1>4 DEF TypeOK, providerVars, auditVars, boundVars, historyVars
<1> QED
  BY <1>1, <1>4, <1>5, AsideInv DEF HistorySame, historyVars

LEMMA StutterInv == ASSUME IInv, UNCHANGED vars PROVE IInv'
<1>1. TypeOK' /\ RowsSame
  BY DEF IInv, TypeOK, vars, rowVars, providerVars, auditVars, boundVars,
         historyVars, RowsSame
<1> QED
  BY <1>1, AsideInv DEF HistorySame, vars, historyVars

LEMMA PriceChangesInv == ASSUME IInv, PriceChanges PROVE IInv'
<1>1. TypeOK' /\ RowsSame
  BY ConstantFacts
     DEF IInv, TypeOK, PriceChanges, providerVars, auditVars, boundVars, historyVars, RowsSame
<1> QED
  BY <1>1, AsideInv DEF HistorySame, PriceChanges, historyVars

LEMMA CompleteFormInv ==
    ASSUME IInv, NEW p \in Plan, CompleteForm(p)
    PROVE  IInv'
<1>0. /\ TypeOK /\ RowsKnown /\ WorkKnown /\ ClaimsAlone /\ NeverActive
      /\ OnePendingCard /\ OneLivePerPlan /\ NotesKnown /\ AskedStays
      /\ RemotesKnown /\ CreatedAlone /\ ToldTruth /\ KillsNoActive /\ ActiveIsCharged
  BY DEF IInv
<1>k. asked \subseteq Sub
  BY <1>0 DEF TypeOK
<1>n. Names
  BY <1>0, NamesKnown
<1>h. Hands
  BY <1>0, HandsKnown
<1>1. /\ UNCHANGED <<row, audited, settledAudit, work, asked, repricing,
                     overwritten, putBack, dropped>>
      /\ UNCHANGED <<price, outside, calls, crashes>>
  BY DEF CompleteForm, auditVars, historyVars, boundVars
<1>2. PICK x \in (Remote \cup {None}) : /\ tokens' = tokens \cup {<<Of(p), x>>}
                               /\ \/ x = None /\ remote' = remote
                                  \/ x \in Remote /\ BeginsAt(x)
  <2>1. CASE p \in Hosted
    BY <1>0, <2>1, BeginsFrame DEF CompleteForm, Of
  <2>2. CASE p \notin Hosted
    BY <2>2 DEF CompleteForm, Of
  <2> QED
    BY <2>1, <2>2
<1>3. Returned' = Returned \cup {x}
  <2> DEFINE t == <<Of(p), x>>
  <2>1. t[2] = x /\ tokens' = tokens \cup {t}
    BY <1>2
  <2> HIDE DEF t
  <2> QED
    BY <2>1 DEF Returned
<1>t. TypeOK'
  <2>1. remote' \in [Remote -> RemoteStatus] /\ Of(p) \in Provider
    BY <1>0, <1>2 DEF BeginsAt, TypeOK, Of, Provider
  <2> QED
    BY <1>0, <1>1, <1>2, <2>1 DEF TypeOK, CompleteForm
<1>A. RowsKnown'
  BY <1>0, <1>1 DEF RowsKnown
<1>B. WorkKnown'
  BY <1>0, <1>1 DEF WorkKnown, Hand, Follower, Creates, ActsOn, At
<1>C. ClaimsAlone'
  BY <1>0, <1>1 DEF ClaimsAlone, Claimer, Creates, At
<1>D. NeverActive'
  BY <1>0, <1>1 DEF NeverActive, Claimer, Creates, At
<1>E. OnePendingCard'
  BY <1>0, <1>1 DEF OnePendingCard
<1>F. OneLivePerPlan'
  BY <1>0, <1>1 DEF OneLivePerPlan, Known
<1>G. NotesKnown'
  BY <1>0, <1>1 DEF NotesKnown, Known
<1>H. AskedStays'
  BY <1>0, <1>1 DEF AskedStays, Known, NoteRead
<1>I. RemotesKnown'
  <2>1. audited \subseteq Remote /\ x \notin audited
    BY <1>0, <1>n, <1>2 DEF RemotesKnown, BeginsAt, Names
  <2>2. audited' \cap Returned' = {}
    BY <1>0, <1>1, <1>3, <2>1 DEF RemotesKnown
  <2>3. \A r \in Remote : remote[r] # "none" => remote'[r] # "none"
    BY <1>0, <1>2 DEF BeginsAt
  <2>4. \A w \in Worker : work'[w].remote # None => remote'[work'[w].remote] # "none"
    BY <1>0, <1>1, <2>3, WorkFields DEF RemotesKnown
  <2>5. \A s \in Sub : row'[s].remote # None => remote'[row'[s].remote] # "none"
    BY <1>0, <1>1, <2>3, RowFields DEF RemotesKnown
  <2>6. x \in Remote => remote'[x] # "none"
    BY <1>0, <1>n, <1>2 DEF BeginsAt, Names
  <2> QED
    BY <1>0, <1>1, <1>3, <2>2, <2>3, <2>4, <2>5, <2>6 DEF RemotesKnown
<1>J. CreatedAlone'
  BY <1>0, <1>n, <1>h, <1>1, <1>2, <1>3, <1>n
    DEF CreatedAlone, Creates, At, Hands, Names, BeginsAt
<1>K. ToldTruth'
  BY <1>0, <1>h, <1>1, <1>2 DEF ToldTruth, At, Hands, ActsOn, BeginsAt
<1>L. KillsNoActive'
  BY <1>0, <1>1 DEF KillsNoActive, At
<1>M. ActiveIsCharged'
  BY <1>0, <1>n, <1>1, <1>2 DEF ActiveIsCharged, Names, BeginsAt
<1> QED
  BY <1>t, <1>A, <1>B, <1>C, <1>D, <1>E, <1>F, <1>G, <1>H, <1>I, <1>J, <1>K,
     <1>L, <1>M
    DEF IInv

LEMMA PeriodEndsInv ==
    ASSUME IInv, NEW r \in Remote, PeriodEnds(r)
    PROVE  IInv'
<1>0. /\ TypeOK /\ RowsKnown /\ WorkKnown /\ ClaimsAlone /\ NeverActive
      /\ OnePendingCard /\ OneLivePerPlan /\ NotesKnown /\ AskedStays
      /\ RemotesKnown /\ CreatedAlone /\ ToldTruth /\ KillsNoActive /\ ActiveIsCharged
  BY DEF IInv
<1>k. asked \subseteq Sub
  BY <1>0 DEF TypeOK
<1>n. Names
  BY <1>0, NamesKnown
<1>h. Hands
  BY <1>0, HandsKnown
<1>1. /\ UNCHANGED <<row, tokens, audited, settledAudit, work, asked, repricing,
                     overwritten, putBack, dropped>>
      /\ UNCHANGED <<price, outside, calls, crashes, cards, forms>>
  BY DEF PeriodEnds, auditVars, historyVars, boundVars
<1>2. /\ remote' \in [Remote -> RemoteStatus]
      /\ remote[r] = "ending" /\ remote'[r] = "ended"
      /\ \A q \in Remote \ {r} : remote'[q] = remote[q]
  BY <1>0 DEF PeriodEnds, TypeOK, RemoteStatus
<1>r. Returned' = Returned
  BY <1>1 DEF Returned
<1>t. TypeOK'
  BY <1>0, <1>1, <1>2 DEF TypeOK
<1>A. RowsKnown'
  BY <1>0, <1>1 DEF RowsKnown
<1>B. WorkKnown'
  BY <1>0, <1>1 DEF WorkKnown, Hand, Follower, Creates, ActsOn, At
<1>C. ClaimsAlone'
  BY <1>0, <1>1 DEF ClaimsAlone, Claimer, Creates, At
<1>D. NeverActive'
  BY <1>0, <1>1 DEF NeverActive, Claimer, Creates, At
<1>E. OnePendingCard'
  BY <1>0, <1>1 DEF OnePendingCard
<1>F. OneLivePerPlan'
  BY <1>0, <1>1 DEF OneLivePerPlan, Known
<1>G. NotesKnown'
  BY <1>0, <1>1 DEF NotesKnown, Known
<1>H. AskedStays'
  BY <1>0, <1>1 DEF AskedStays, Known, NoteRead
<1>I. RemotesKnown'
  BY <1>0, <1>n, <1>r, <1>1, <1>2 DEF RemotesKnown, Names
<1>J. CreatedAlone'
  BY <1>0, <1>h, <1>r, <1>1, <1>2 DEF CreatedAlone, Creates, At, Hands
<1>K. ToldTruth'
  BY <1>0, <1>h, <1>1, <1>2 DEF ToldTruth, At, Hands, ActsOn
<1>L. KillsNoActive'
  BY <1>0, <1>1 DEF KillsNoActive, At
<1>M. ActiveIsCharged'
  BY <1>0, <1>n, <1>1, <1>2 DEF ActiveIsCharged, Names
<1> QED
  BY <1>t, <1>A, <1>B, <1>C, <1>D, <1>E, <1>F, <1>G, <1>H, <1>I, <1>J, <1>K,
     <1>L, <1>M
    DEF IInv

LEMMA EndsOutsideInv ==
    ASSUME IInv, NEW r \in Remote, EndsOutside(r)
    PROVE  IInv'
<1>0. /\ TypeOK /\ RowsKnown /\ WorkKnown /\ ClaimsAlone /\ NeverActive
      /\ OnePendingCard /\ OneLivePerPlan /\ NotesKnown /\ AskedStays
      /\ RemotesKnown /\ CreatedAlone /\ ToldTruth /\ KillsNoActive /\ ActiveIsCharged
  BY DEF IInv
<1>k. asked \subseteq Sub
  BY <1>0 DEF TypeOK
<1>n. Names
  BY <1>0, NamesKnown
<1>h. Hands
  BY <1>0, HandsKnown
<1>1. /\ UNCHANGED <<row, tokens, audited, settledAudit, work, asked, repricing,
                     overwritten, putBack, dropped>>
      /\ UNCHANGED <<price, crashes, cards, forms>>
  BY DEF EndsOutside, auditVars, historyVars, boundVars
<1>2. /\ remote' \in [Remote -> RemoteStatus]
      /\ remote[r] = "active" /\ remote'[r] \in {"ending", "ended"}
      /\ outside' = outside \cup {r} /\ calls' \in 0..MaxCall
      /\ \A q \in Remote \ {r} : remote'[q] = remote[q]
  BY <1>0, ConstantFacts DEF EndsOutside, TypeOK, RemoteStatus
<1>r. Returned' = Returned
  BY <1>1 DEF Returned
<1>t. TypeOK'
  BY <1>0, <1>1, <1>2 DEF TypeOK
<1>A. RowsKnown'
  BY <1>0, <1>1 DEF RowsKnown
<1>B. WorkKnown'
  BY <1>0, <1>1 DEF WorkKnown, Hand, Follower, Creates, ActsOn, At
<1>C. ClaimsAlone'
  BY <1>0, <1>1 DEF ClaimsAlone, Claimer, Creates, At
<1>D. NeverActive'
  BY <1>0, <1>1 DEF NeverActive, Claimer, Creates, At
<1>E. OnePendingCard'
  BY <1>0, <1>1 DEF OnePendingCard
<1>F. OneLivePerPlan'
  BY <1>0, <1>1 DEF OneLivePerPlan, Known
<1>G. NotesKnown'
  BY <1>0, <1>1 DEF NotesKnown, Known
<1>H. AskedStays'
  BY <1>0, <1>1 DEF AskedStays, Known, NoteRead
<1>I. RemotesKnown'
  BY <1>0, <1>n, <1>r, <1>1, <1>2 DEF RemotesKnown, Names
<1>J. CreatedAlone'
  BY <1>0, <1>h, <1>r, <1>1, <1>2 DEF CreatedAlone, Creates, At, Hands
<1>K. ToldTruth'
  BY <1>0, <1>h, <1>1, <1>2 DEF ToldTruth, At, Hands, ActsOn
<1>L. KillsNoActive'
  BY <1>0, <1>1 DEF KillsNoActive, At
<1>M. ActiveIsCharged'
  BY <1>0, <1>n, <1>1, <1>2 DEF ActiveIsCharged, Names
<1> QED
  BY <1>t, <1>A, <1>B, <1>C, <1>D, <1>E, <1>F, <1>G, <1>H, <1>I, <1>J, <1>K,
     <1>L, <1>M
    DEF IInv

LEMMA AuditAgesInv ==
    ASSUME IInv, NEW r \in Remote, AuditAges(r)
    PROVE  IInv'
<1>0. /\ TypeOK /\ RowsKnown /\ WorkKnown /\ ClaimsAlone /\ NeverActive
      /\ OnePendingCard /\ OneLivePerPlan /\ NotesKnown /\ AskedStays
      /\ RemotesKnown /\ CreatedAlone /\ ToldTruth /\ KillsNoActive /\ ActiveIsCharged
  BY DEF IInv
<1>k. asked \subseteq Sub
  BY <1>0 DEF TypeOK
<1>n. Names
  BY <1>0, NamesKnown
<1>h. Hands
  BY <1>0, HandsKnown
<1>1. /\ UNCHANGED <<row, remote, tokens, audited, work, asked, repricing,
                     overwritten, putBack, dropped>>
      /\ UNCHANGED <<price, outside, calls, crashes, cards, forms>>
      /\ r \in audited /\ settledAudit' = settledAudit \cup {r}
  BY DEF AuditAges, providerVars, historyVars, boundVars
<1>r. Returned' = Returned
  BY <1>1 DEF Returned
<1>t. TypeOK'
  BY <1>0, <1>1 DEF TypeOK
<1>A. RowsKnown'
  BY <1>0, <1>n, <1>1 DEF RowsKnown
<1>B. WorkKnown'
  BY <1>0, <1>1 DEF WorkKnown, Hand, Follower, Creates, ActsOn, At
<1>C. ClaimsAlone'
  BY <1>0, <1>n, <1>1 DEF ClaimsAlone, Claimer, Creates, At
<1>D. NeverActive'
  BY <1>0, <1>n, <1>1 DEF NeverActive, Claimer, Creates, At
<1>E. OnePendingCard'
  BY <1>0, <1>n, <1>1 DEF OnePendingCard
<1>F. OneLivePerPlan'
  BY <1>0, <1>n, <1>1 DEF OneLivePerPlan, Known
<1>G. NotesKnown'
  BY <1>0, <1>n, <1>1 DEF NotesKnown, Known
<1>H. AskedStays'
  BY <1>0, <1>k, <1>1 DEF AskedStays, Known, NoteRead
<1>I. RemotesKnown'
  BY <1>0, <1>r, <1>1 DEF RemotesKnown
<1>J. CreatedAlone'
  BY <1>0, <1>r, <1>1 DEF CreatedAlone, Creates, At, AuditAges
<1>K. ToldTruth'
  BY <1>0, <1>h, <1>1 DEF ToldTruth, At
<1>L. KillsNoActive'
  BY <1>0, <1>h, <1>1 DEF KillsNoActive, At
<1>M. ActiveIsCharged'
  BY <1>0, <1>n, <1>1 DEF ActiveIsCharged
<1> QED
  BY <1>t, <1>A, <1>B, <1>C, <1>D, <1>E, <1>F, <1>G, <1>H, <1>I, <1>J, <1>K,
     <1>L, <1>M
    DEF IInv

\* A worker takes up a job, of which it has read nothing yet.
StartAt(w, step, s, r) ==
    /\ work' \in [Worker -> Work]
    /\ work'[w].at = step /\ work'[w].sub = s /\ work'[w].remote = r
    /\ work'[w].seen.status = "NONE" /\ ~work'[w].seen.reprice /\ ~work'[w].reprice
    /\ \A u \in Worker \ {w} : work'[u] = work[u]

LEMMA StartFrame ==
    ASSUME TypeOK, NEW w \in Worker, NEW step \in Step, NEW s \in Sub,
           NEW r \in Remote \cup {None},
           Do(w, [Idle EXCEPT !.at = step, !.sub = s, !.remote = r])
    PROVE  StartAt(w, step, s, r)
<1> DEFINE job == [Idle EXCEPT !.at = step, !.sub = s, !.remote = r]
<1>1. /\ job \in Work /\ job.at = step /\ job.sub = s /\ job.remote = r
      /\ job.seen = Unread /\ job.reprice = FALSE
  BY IdleWork DEF Work, Idle
<1>2. Do(w, job)
  OBVIOUS
<1> HIDE DEF job
<1> QED
  BY <1>1, <1>2, DoFrame, IdleWork DEF StartAt

\* Remote subscriptions may begin, and those that had begun stay as they are.
KeepsRemote ==
    /\ remote' \in [Remote -> RemoteStatus]
    /\ \A r \in Remote : remote[r] # "none" => remote'[r] = remote[r]

LEMMA BeginsKeeps ==
    ASSUME TypeOK, UNCHANGED remote \/ \E r \in Remote : Begins(r)
    PROVE  KeepsRemote
BY BeginsFrame DEF BeginsAt, KeepsRemote, TypeOK

\* A worker stops, and what it knew of an end that is not noted is lost.
LEMMA DoneInv ==
    ASSUME IInv, NEW w \in Worker, DoneAt(w), TypeOK', RowsSame, HistorySame, KeepsRemote,
           UNCHANGED <<tokens, audited,
                       settledAudit>>, dropped \subseteq dropped',
           work[w].at \in {"ended", "flag", "undo"} => work[w].sub \in dropped'
    PROVE  IInv'
<1>0. /\ TypeOK /\ RowsKnown /\ WorkKnown /\ ClaimsAlone /\ NeverActive
      /\ OnePendingCard /\ OneLivePerPlan /\ NotesKnown /\ AskedStays
      /\ RemotesKnown /\ CreatedAlone /\ ToldTruth /\ KillsNoActive /\ ActiveIsCharged
  BY DEF IInv
<1>k. asked \subseteq Sub
  BY <1>0 DEF TypeOK
<1>n. Names
  BY <1>0, NamesKnown
<1>h. Hands
  BY <1>0, HandsKnown
<1>1. /\ DoneAt(w) /\ RowsSame /\ HistorySame /\ KeepsRemote
      /\ UNCHANGED <<tokens, audited,
                     settledAudit>> /\ dropped \subseteq dropped'
      /\ work[w].at \in {"ended", "flag", "undo"} => work[w].sub \in dropped'
  OBVIOUS
<1>2. 1 \in Sub
  BY ConstantFacts
<1>r. Returned' = Returned
  BY <1>1 DEF Returned
<1>t. TypeOK'
  OBVIOUS
<1>A. RowsKnown'
  BY <1>0 DEF RowsKnown, RowsSame
<1>B. WorkKnown'
  BY <1>0, <1>n
    DEF WorkKnown, Hand, Follower, Creates, ActsOn, At, Names, DoneAt,
        RowsSame
<1>C. ClaimsAlone'
  BY <1>0, <1>n DEF ClaimsAlone, Claimer, Creates, At, Names, DoneAt, RowsSame
<1>D. NeverActive'
  BY <1>0, <1>n DEF NeverActive, Claimer, Creates, At, Names, DoneAt, RowsSame
<1>E. OnePendingCard'
  BY <1>0 DEF OnePendingCard, RowsSame, HistorySame
<1>F. OneLivePerPlan'
  BY <1>0 DEF OneLivePerPlan, Known, RowsSame, HistorySame
<1>G. NotesKnown'
  BY <1>0 DEF NotesKnown, Known, DoneAt, RowsSame, HistorySame
<1>H. AskedStays'
  BY <1>0, <1>k DEF AskedStays, Known, NoteRead, DoneAt, RowsSame, HistorySame
<1>I. RemotesKnown'
  BY <1>0, <1>n, <1>r DEF RemotesKnown, Names, DoneAt, RowsSame, KeepsRemote
<1>J. CreatedAlone'
  BY <1>0, <1>n, <1>h, <1>r
    DEF CreatedAlone, Creates, At, Hands, Names, DoneAt, RowsSame, HistorySame,
        KeepsRemote
<1>K. ToldTruth'
  BY <1>0, <1>h DEF ToldTruth, At, Hands, ActsOn, DoneAt, KeepsRemote
<1>L. KillsNoActive'
  BY <1>0 DEF KillsNoActive, At, DoneAt, RowsSame, HistorySame
<1>M. ActiveIsCharged'
  BY <1>0, <1>n
    DEF ActiveIsCharged, Names, DoneAt, RowsSame, HistorySame, KeepsRemote
<1> QED
  BY <1>t, <1>A, <1>B, <1>C, <1>D, <1>E, <1>F, <1>G, <1>H, <1>I, <1>J, <1>K,
     <1>L, <1>M
    DEF IInv

LEMMA CrashInv == ASSUME IInv, NEW w \in Worker, Crash(w) PROVE IInv'
<1>1. TypeOK /\ DoneAt(w)
  BY DoneFrame DEF IInv, Crash
<1>2. UNCHANGED remote \/ \E r \in Remote : Begins(r)
  BY DEF Crash
<1>3. KeepsRemote
  BY <1>1, <1>2, BeginsKeeps
<1>4. /\ UNCHANGED <<row, cards, forms, tokens, audited, settledAudit, price,
                     outside, calls>>
      /\ UNCHANGED <<asked, repricing, overwritten, putBack>>
      /\ dropped' = IF work[w].at \in {"ended", "flag", "undo"}
                      THEN dropped \cup {work[w].sub} ELSE dropped
  BY DEF Crash, auditVars
<1>5. crashes' \in 0..MaxCrash
  BY <1>1, ConstantFacts DEF TypeOK, Crash
<1>6. TypeOK'
  <2>1. work[w].sub \in Sub
    BY <1>1, WorkFields
  <2> QED
    BY <1>1, <1>3, <1>4, <1>5, <2>1 DEF TypeOK, DoneAt, KeepsRemote
<1>7. RowsSame /\ HistorySame
  BY <1>4 DEF RowsSame, HistorySame
<1> QED
  BY <1>1, <1>3, <1>4, <1>6, <1>7, DoneInv

LEMMA IdleInv ==
    ASSUME IInv, NEW w \in Worker, DoneAt(w), work[w].at \notin {"ended", "flag", "undo"},
           UNCHANGED <<row, remote, cards, tokens, auditVars, price, outside,
                       boundVars, historyVars>>,
           forms' \subseteq Plan
    PROVE  IInv'
<1>1. TypeOK /\ RowsSame /\ HistorySame
  BY DEF IInv, RowsSame, HistorySame, historyVars
<1>2. TypeOK' /\ KeepsRemote
  BY <1>1 DEF TypeOK, auditVars, boundVars, historyVars, DoneAt, KeepsRemote
<1> QED
  BY <1>1, <1>2, DoneInv DEF auditVars, historyVars

LEMMA KillThrowsInv == ASSUME IInv, NEW w \in Worker, KillThrows(w) PROVE IInv'
<1>1. DoneAt(w) /\ work[w].at = "kill" /\ forms \subseteq Plan
  BY DoneFrame DEF IInv, TypeOK, KillThrows, At
<1> QED
  BY <1>1, IdleInv DEF KillThrows, providerVars

LEMMA FetchToldInv ==
    ASSUME IInv, NEW w \in Request, Fetch(w), ~Done(w)
    PROVE  IInv'
<1>0. /\ TypeOK /\ RowsKnown /\ WorkKnown /\ ClaimsAlone /\ NeverActive
      /\ OnePendingCard /\ OneLivePerPlan /\ NotesKnown /\ AskedStays
      /\ RemotesKnown /\ CreatedAlone /\ ToldTruth /\ KillsNoActive /\ ActiveIsCharged
  BY DEF IInv
<1>k. asked \subseteq Sub
  BY <1>0 DEF TypeOK
<1>n. Names
  BY <1>0, NamesKnown
<1>h. Hands
  BY <1>0, HandsKnown
<1>1. /\ UNCHANGED <<row, remote, tokens, audited, settledAudit, asked,
                     repricing, overwritten, putBack, dropped>>
      /\ UNCHANGED <<price, outside, crashes, cards, forms>>
  BY DEF Fetch, providerVars, auditVars, historyVars, boundVars
<1>2. PICK told \in {remote[work[w].remote]} \cup EventTells(work[w].sub, work[w].remote) :
        Do(w, [work[w] EXCEPT !.at = "sync", !.told = told])
  BY DEF Fetch
<1>3. w \in Worker /\ At(w, "fetch") /\ calls' = calls
  BY ConstantFacts DEF Fetch, boundVars
<1>4. /\ \/ told \in {remote[work[w].remote], "active"}
         \/ told = "ending" /\ remote[work[w].remote] = "ended"
      /\ told \in RemoteStatus
  <2>1. remote[work[w].remote] \in RemoteStatus
    BY <1>0, <1>h, <1>3 DEF TypeOK, Hands, ActsOn, At
  <2> QED
    BY <2>1 DEF EventTells, RemoteStatus
<1> DEFINE job == [work[w] EXCEPT !.at = "sync", !.told = told]
<1>5. /\ job \in Work /\ job.at = "sync" /\ job.sub = work[w].sub /\ job.remote = work[w].remote
      /\ job.seen = work[w].seen /\ job.told = told /\ job.reprice = work[w].reprice
  BY <1>0, <1>3, <1>4, WorkFields DEF Work, Step
<1> HIDE DEF job
<1>6. /\ work' \in [Worker -> Work] /\ work'[w] = job
      /\ \A u \in Worker \ {w} : work'[u] = work[u]
  BY <1>0, <1>2, <1>3, <1>5, DoFrame DEF job
<1>7. /\ At(w, "fetch") /\ w \in Worker
      /\ \/ told \in {remote[work[w].remote], "active"}
         \/ told = "ending" /\ remote[work[w].remote] = "ended"
  BY <1>3, <1>4
<1>8. /\ work' \in [Worker -> Work]
      /\ work'[w].at = "sync" /\ work'[w].sub = work[w].sub
      /\ work'[w].remote = work[w].remote /\ work'[w].seen = work[w].seen
      /\ work'[w].told = told /\ work'[w].reprice = work[w].reprice
      /\ \A u \in Worker \ {w} : work'[u] = work[u]
  BY <1>5, <1>6
<1>r. Returned' = Returned
  BY <1>1 DEF Returned
<1>t. TypeOK'
  BY <1>0, <1>1, <1>3, <1>8 DEF TypeOK
<1>A. RowsKnown'
  BY <1>0, <1>1 DEF RowsKnown
<1>B. WorkKnown'
  BY <1>0, <1>1, <1>7, <1>8 DEF WorkKnown, Hand, Follower, Creates, ActsOn, At
<1>C. ClaimsAlone'
  BY <1>0, <1>1, <1>8 DEF ClaimsAlone, Claimer, Creates, At
<1>D. NeverActive'
  BY <1>0, <1>1, <1>8 DEF NeverActive, Claimer, Creates, At
<1>E. OnePendingCard'
  BY <1>0, <1>1 DEF OnePendingCard
<1>F. OneLivePerPlan'
  BY <1>0, <1>1 DEF OneLivePerPlan, Known
<1>G. NotesKnown'
  BY <1>0, <1>1, <1>8 DEF NotesKnown, Known
<1>H. AskedStays'
  BY <1>0, <1>1, <1>8 DEF AskedStays, Known, NoteRead
<1>I. RemotesKnown'
  BY <1>0, <1>r, <1>1, <1>8 DEF RemotesKnown
<1>J. CreatedAlone'
  BY <1>0, <1>r, <1>1, <1>8 DEF CreatedAlone, Creates, At
<1>K. ToldTruth'
  BY <1>0, <1>1, <1>7, <1>8 DEF ToldTruth, At
<1>L. KillsNoActive'
  BY <1>0, <1>1, <1>8 DEF KillsNoActive, At
<1>M. ActiveIsCharged'
  BY <1>0, <1>n, <1>1, <1>7, <1>8 DEF ActiveIsCharged, Names, At
<1> QED
  BY <1>t, <1>A, <1>B, <1>C, <1>D, <1>E, <1>F, <1>G, <1>H, <1>I, <1>J, <1>K,
     <1>L, <1>M
    DEF IInv

LEMMA FetchInv == ASSUME IInv, NEW w \in Request, Fetch(w) PROVE IInv'
<1>1. CASE Done(w)
  <2>1. w \in Worker /\ DoneAt(w) /\ work[w].at = "fetch" /\ forms \subseteq Plan
    BY <1>1, ConstantFacts, DoneFrame DEF IInv, TypeOK, Fetch, At
  <2> QED
    BY <2>1, IdleInv DEF Fetch, providerVars
<1>2. CASE ~Done(w)
  BY <1>2, FetchToldInv
<1> QED
  BY <1>1, <1>2

LEMMA CancelReadInv ==
    ASSUME IInv, NEW w \in Request, NEW s \in Sub, CancelRead(w, s)
    PROVE  IInv'
<1>0. /\ TypeOK /\ RowsKnown /\ WorkKnown /\ ClaimsAlone /\ NeverActive
      /\ OnePendingCard /\ OneLivePerPlan /\ NotesKnown /\ AskedStays
      /\ RemotesKnown /\ CreatedAlone /\ ToldTruth /\ KillsNoActive /\ ActiveIsCharged
  BY DEF IInv
<1>k. asked \subseteq Sub
  BY <1>0 DEF TypeOK
<1>n. Names
  BY <1>0, NamesKnown
<1>h. Hands
  BY <1>0, HandsKnown
<1>1. /\ UNCHANGED <<row, remote, tokens, audited, settledAudit, asked,
                     repricing, overwritten, putBack, dropped>>
      /\ UNCHANGED <<price, outside, cards, forms>>
  BY DEF CancelRead, providerVars, auditVars, historyVars, boundVars
<1>2. w \in Worker /\ work[w].at = "idle" /\ calls' \in 0..MaxCall /\ crashes' = crashes
  BY <1>0, CalledCounts, ConstantFacts DEF CancelRead
<1>3. PICK step \in {"drop", "end"} :
        /\ step = "drop" <=> row[s].remote = None
        /\ Do(w, [Idle EXCEPT !.at = step, !.sub = s, !.remote = row[s].remote])
  BY DEF CancelRead
<1>4. step \in Step /\ row[s].remote \in Remote \cup {None}
  BY <1>n DEF Names, Step
<1>5. StartAt(w, step, s, row[s].remote)
  BY <1>0, <1>2, <1>3, <1>4, StartFrame
<1>6. row[s].status # "NONE" /\ step \in {"drop", "end"} /\ (step = "drop" <=> row[s].remote = None)
  BY <1>3 DEF CancelRead, Live
<1>r. Returned' = Returned
  BY <1>1 DEF Returned
<1>t. TypeOK'
  BY <1>0, <1>1, <1>2, <1>5 DEF TypeOK, StartAt
<1>A. RowsKnown'
  BY <1>0, <1>1 DEF RowsKnown
<1>B. WorkKnown'
  <2>1. ASSUME NEW u \in Worker, u # w
        PROVE  Hand(u)'
    BY <1>0, <1>1, <1>5, <2>1
      DEF WorkKnown, Hand, Follower, Creates, ActsOn, At, StartAt
  <2>2. Hand(w)'
    BY <1>0, <1>1, <1>5, <1>6, ConstantFacts
      DEF WorkKnown, Hand, Follower, Creates, ActsOn, At, StartAt
  <2> QED
    BY <2>1, <2>2 DEF WorkKnown
<1>C. ClaimsAlone'
  BY <1>0, <1>1, <1>5 DEF ClaimsAlone, Claimer, Creates, At, StartAt
<1>D. NeverActive'
  BY <1>0, <1>1, <1>5 DEF NeverActive, Claimer, Creates, At, StartAt
<1>E. OnePendingCard'
  BY <1>0, <1>1 DEF OnePendingCard
<1>F. OneLivePerPlan'
  BY <1>0, <1>1 DEF OneLivePerPlan, Known
<1>G. NotesKnown'
  BY <1>0, <1>1, <1>5 DEF NotesKnown, Known, StartAt
<1>H. AskedStays'
  BY <1>0, <1>1, <1>5 DEF AskedStays, Known, NoteRead, StartAt
<1>I. RemotesKnown'
  BY <1>0, <1>r, <1>1, <1>5 DEF RemotesKnown, StartAt
<1>J. CreatedAlone'
  BY <1>0, <1>r, <1>1, <1>5 DEF CreatedAlone, Creates, At, StartAt
<1>K. ToldTruth'
  BY <1>0, <1>1, <1>5 DEF ToldTruth, At, StartAt
<1>L. KillsNoActive'
  BY <1>0, <1>1, <1>5 DEF KillsNoActive, At, StartAt
<1>M. ActiveIsCharged'
  BY <1>0, <1>n, <1>1, <1>2, <1>5 DEF ActiveIsCharged, Names, StartAt
<1> QED
  BY <1>t, <1>A, <1>B, <1>C, <1>D, <1>E, <1>F, <1>G, <1>H, <1>I, <1>J, <1>K,
     <1>L, <1>M
    DEF IInv

LEMMA SweepReadInv ==
    ASSUME IInv, NEW w \in Sweeper, NEW r \in Remote, SweepRead(w, r)
    PROVE  IInv'
<1>0. /\ TypeOK /\ RowsKnown /\ WorkKnown /\ ClaimsAlone /\ NeverActive
      /\ OnePendingCard /\ OneLivePerPlan /\ NotesKnown /\ AskedStays
      /\ RemotesKnown /\ CreatedAlone /\ ToldTruth /\ KillsNoActive /\ ActiveIsCharged
  BY DEF IInv
<1>k. asked \subseteq Sub
  BY <1>0 DEF TypeOK
<1>n. Names
  BY <1>0, NamesKnown
<1>h. Hands
  BY <1>0, HandsKnown
<1>1. /\ UNCHANGED <<row, remote, tokens, audited, settledAudit, asked,
                     repricing, overwritten, putBack, dropped>>
      /\ UNCHANGED <<price, outside, cards, forms>>
  BY DEF SweepRead, providerVars, auditVars, historyVars, boundVars
<1>2. w \in Worker /\ work[w].at = "idle" /\ calls' = calls /\ crashes' = crashes
  BY ConstantFacts DEF SweepRead, At, boundVars
<1>3. StartAt(w, "kill", 1, r)
  <2> DEFINE job == [Idle EXCEPT !.at = "kill", !.remote = r]
  <2>1. /\ job \in Work /\ job.at = "kill" /\ job.sub = 1 /\ job.remote = r
        /\ job.seen = Unread /\ job.reprice = FALSE
    BY IdleWork, ConstantFacts DEF Work, Step, Idle
  <2>2. Do(w, job)
    BY DEF SweepRead
  <2> HIDE DEF job
  <2> QED
    BY <1>0, <1>2, <2>1, <2>2, DoFrame, IdleWork DEF StartAt
<1>4. /\ r \in settledAudit /\ remote[r] # "none"
      /\ \A s \in Sub : row[s].remote = r => row[s].status # "ACTIVE"
  BY DEF SweepRead, Orphan, Covered, Linked, Charging
<1>r. Returned' = Returned
  BY <1>1 DEF Returned
<1>t. TypeOK'
  BY <1>0, <1>1, <1>2, <1>3 DEF TypeOK, StartAt
<1>A. RowsKnown'
  BY <1>0, <1>1 DEF RowsKnown
<1>B. WorkKnown'
  BY <1>0, <1>1, <1>3, ConstantFacts
    DEF WorkKnown, Hand, Follower, Creates, ActsOn, At, StartAt
<1>C. ClaimsAlone'
  BY <1>0, <1>1, <1>3 DEF ClaimsAlone, Claimer, Creates, At, StartAt
<1>D. NeverActive'
  BY <1>0, <1>1, <1>3 DEF NeverActive, Claimer, Creates, At, StartAt
<1>E. OnePendingCard'
  BY <1>0, <1>1 DEF OnePendingCard
<1>F. OneLivePerPlan'
  BY <1>0, <1>1 DEF OneLivePerPlan, Known
<1>G. NotesKnown'
  BY <1>0, <1>1, <1>3 DEF NotesKnown, Known, StartAt
<1>H. AskedStays'
  BY <1>0, <1>1, <1>3 DEF AskedStays, Known, NoteRead, StartAt
<1>I. RemotesKnown'
  BY <1>0, <1>r, <1>1, <1>3, <1>4 DEF RemotesKnown, StartAt
<1>J. CreatedAlone'
  BY <1>0, <1>r, <1>1, <1>3, <1>4 DEF CreatedAlone, Creates, At, StartAt
<1>K. ToldTruth'
  BY <1>0, <1>1, <1>3 DEF ToldTruth, At, StartAt
<1>L. KillsNoActive'
  BY <1>0, <1>1, <1>3, <1>4 DEF KillsNoActive, At, StartAt
<1>M. ActiveIsCharged'
  BY <1>0, <1>n, <1>1, <1>2, <1>3 DEF ActiveIsCharged, Names, StartAt
<1> QED
  BY <1>t, <1>A, <1>B, <1>C, <1>D, <1>E, <1>F, <1>G, <1>H, <1>I, <1>J, <1>K,
     <1>L, <1>M
    DEF IInv

LEMMA ReconcileReadInv ==
    ASSUME IInv, NEW w \in Request, NEW s \in Sub, ReconcileRead(w, s)
    PROVE  IInv'
<1>0. /\ TypeOK /\ RowsKnown /\ WorkKnown /\ ClaimsAlone /\ NeverActive
      /\ OnePendingCard /\ OneLivePerPlan /\ NotesKnown /\ AskedStays
      /\ RemotesKnown /\ CreatedAlone /\ ToldTruth /\ KillsNoActive /\ ActiveIsCharged
  BY DEF IInv
<1>k. asked \subseteq Sub
  BY <1>0 DEF TypeOK
<1>n. Names
  BY <1>0, NamesKnown
<1>h. Hands
  BY <1>0, HandsKnown
<1>1. /\ UNCHANGED <<row, remote, tokens, audited, settledAudit, asked,
                     repricing, overwritten, putBack, dropped>>
      /\ UNCHANGED <<price, outside, cards, forms>>
  BY DEF ReconcileRead, providerVars, auditVars, historyVars, boundVars
<1>2. w \in Worker /\ work[w].at = "idle" /\ calls' \in 0..MaxCall /\ crashes' = crashes
  BY <1>0, CalledCounts, ConstantFacts DEF ReconcileRead
<1> DEFINE job == [Idle EXCEPT !.at = "fetch", !.sub = s, !.remote = row[s].remote,
                               !.seen = Read(row[s])]
<1>3. /\ job \in Work /\ job.at = "fetch" /\ job.sub = s /\ job.remote = row[s].remote
      /\ job.seen = Read(row[s]) /\ job.reprice = FALSE
  <2>1. Read(row[s]) \in Seen /\ row[s].remote \in Remote \cup {None} /\ "fetch" \in Step
    BY <1>0, ReadFields, RowFields DEF Step
  <2> QED
    BY <2>1, IdleWork DEF Work, Idle
<1>4. Do(w, job)
  BY DEF ReconcileRead
<1> HIDE DEF job
<1>5. work' \in [Worker -> Work] /\ work'[w] = job /\ \A u \in Worker \ {w} : work'[u] = work[u]
  BY <1>0, <1>2, <1>3, <1>4, DoFrame
<1>6. Read(row[s]).status = row[s].status /\ Read(row[s]).reprice = row[s].reprice
  BY <1>0, ReadFields, RowFields
<1>7. /\ work'[w].at = "fetch" /\ work'[w].sub = s /\ work'[w].remote = row[s].remote
      /\ work'[w].seen.status = row[s].status /\ work'[w].seen.reprice = row[s].reprice
      /\ ~work'[w].reprice /\ \A u \in Worker \ {w} : work'[u] = work[u]
  BY <1>3, <1>5, <1>6
<1>8. row[s].remote # None /\ w \notin Sweeper
  BY ConstantFacts DEF ReconcileRead
<1>r. Returned' = Returned
  BY <1>1 DEF Returned
<1>t. TypeOK'
  BY <1>0, <1>1, <1>2, <1>5 DEF TypeOK
<1>A. RowsKnown'
  BY <1>0, <1>1 DEF RowsKnown
<1>B. WorkKnown'
  <2>1. ASSUME NEW u \in Worker, u # w
        PROVE  Hand(u)'
    BY <1>0, <1>1, <1>7, <2>1
      DEF WorkKnown, Hand, Follower, Creates, ActsOn, At
  <2>2. Hand(w)'
    BY <1>0, <1>1, <1>7, <1>8 DEF WorkKnown, Hand, At, RowsKnown
  <2> QED
    BY <2>1, <2>2 DEF WorkKnown
<1>C. ClaimsAlone'
  BY <1>0, <1>1, <1>7 DEF ClaimsAlone, Claimer, Creates, At
<1>D. NeverActive'
  BY <1>0, <1>1, <1>7 DEF NeverActive, Claimer, Creates, At
<1>E. OnePendingCard'
  BY <1>0, <1>1 DEF OnePendingCard
<1>F. OneLivePerPlan'
  BY <1>0, <1>1 DEF OneLivePerPlan, Known
<1>G. NotesKnown'
  BY <1>0, <1>1, <1>7 DEF NotesKnown, Known
<1>H. AskedStays'
  BY <1>0, <1>1, <1>7 DEF AskedStays, Known, NoteRead
<1>I. RemotesKnown'
  BY <1>0, <1>r, <1>1, <1>7 DEF RemotesKnown
<1>J. CreatedAlone'
  BY <1>0, <1>r, <1>1, <1>7 DEF CreatedAlone, Creates, At
<1>K. ToldTruth'
  BY <1>0, <1>1, <1>7 DEF ToldTruth, At
<1>L. KillsNoActive'
  BY <1>0, <1>1, <1>7 DEF KillsNoActive, At
<1>M. ActiveIsCharged'
  BY <1>0, <1>n, <1>1, <1>2, <1>7 DEF ActiveIsCharged, Names
<1> QED
  BY <1>t, <1>A, <1>B, <1>C, <1>D, <1>E, <1>F, <1>G, <1>H, <1>I, <1>J, <1>K,
     <1>L, <1>M
    DEF IInv

LEMMA CancelAgainInv ==
    ASSUME IInv, NEW w \in Request, NEW s \in Sub, CancelAgain(w, s)
    PROVE  IInv'
<1>0. /\ TypeOK /\ RowsKnown /\ WorkKnown /\ ClaimsAlone /\ NeverActive
      /\ OnePendingCard /\ OneLivePerPlan /\ NotesKnown /\ AskedStays
      /\ RemotesKnown /\ CreatedAlone /\ ToldTruth /\ KillsNoActive /\ ActiveIsCharged
  BY DEF IInv
<1>k. asked \subseteq Sub
  BY <1>0 DEF TypeOK
<1>n. Names
  BY <1>0, NamesKnown
<1>h. Hands
  BY <1>0, HandsKnown
<1>1. /\ UNCHANGED <<row, remote, tokens, audited, settledAudit, work,
                     overwritten, putBack, dropped>>
      /\ UNCHANGED <<price, outside, cards, forms>>
      /\ asked' = asked \cup {s} /\ repricing \subseteq repricing'
      /\ row[s].reprice \/ NoteRead(s) => s \in repricing'
      /\ row[s].status \in {"CANCEL_PENDING", "CANCELED"}
      /\ repricing' \subseteq Sub
  BY <1>0 DEF CancelAgain, Answered, providerVars, auditVars, TypeOK
<1>2. calls' \in 0..MaxCall /\ crashes' = crashes
  BY <1>0, CalledCounts, ConstantFacts DEF CancelAgain
<1>r. Returned' = Returned
  BY <1>1 DEF Returned
<1>t. TypeOK'
  BY <1>0, <1>1, <1>2 DEF TypeOK
<1>A. RowsKnown'
  BY <1>0, <1>1 DEF RowsKnown
<1>B. WorkKnown'
  BY <1>0, <1>1 DEF WorkKnown, Hand, Follower, Creates, ActsOn, At
<1>C. ClaimsAlone'
  BY <1>0, <1>1 DEF ClaimsAlone, Claimer, Creates, At
<1>D. NeverActive'
  BY <1>0, <1>1 DEF NeverActive, Claimer, Creates, At
<1>E. OnePendingCard'
  BY <1>0, <1>1 DEF OnePendingCard
<1>F. OneLivePerPlan'
  BY <1>0, <1>1 DEF OneLivePerPlan, Known
<1>G. NotesKnown'
  BY <1>0, <1>1 DEF NotesKnown, Known
<1>H. AskedStays'
  BY <1>0, <1>1 DEF AskedStays, Known, NoteRead
<1>I. RemotesKnown'
  BY <1>0, <1>r, <1>1 DEF RemotesKnown
<1>J. CreatedAlone'
  BY <1>0, <1>r, <1>1 DEF CreatedAlone, Creates, At
<1>K. ToldTruth'
  BY <1>0, <1>1 DEF ToldTruth, At
<1>L. KillsNoActive'
  BY <1>0, <1>1 DEF KillsNoActive, At
<1>M. ActiveIsCharged'
  BY <1>0, <1>1 DEF ActiveIsCharged
<1> QED
  BY <1>t, <1>A, <1>B, <1>C, <1>D, <1>E, <1>F, <1>G, <1>H, <1>I, <1>J, <1>K,
     <1>L, <1>M
    DEF IInv

LEMMA SyncRepriceInv ==
    ASSUME IInv, NEW w \in Request, SyncReprice(w)
    PROVE  IInv'
<1>0. /\ TypeOK /\ RowsKnown /\ WorkKnown /\ ClaimsAlone /\ NeverActive
      /\ OnePendingCard /\ OneLivePerPlan /\ NotesKnown /\ AskedStays
      /\ RemotesKnown /\ CreatedAlone /\ ToldTruth /\ KillsNoActive /\ ActiveIsCharged
  BY DEF IInv
<1>k. asked \subseteq Sub
  BY <1>0 DEF TypeOK
<1>n. Names
  BY <1>0, NamesKnown
<1>h. Hands
  BY <1>0, HandsKnown
<1>1. /\ UNCHANGED <<row, remote, tokens, audited, settledAudit, asked,
                     repricing, overwritten, putBack, dropped>>
      /\ UNCHANGED <<price, outside, cards, forms>>
  BY DEF SyncReprice, providerVars, auditVars, historyVars, boundVars
<1>2. /\ w \in Worker /\ w \notin Sweeper /\ work[w].at = "sync" /\ work[w].seen.reprice
      /\ calls' = calls /\ crashes' = crashes
  BY ConstantFacts DEF SyncReprice, At, boundVars
<1> DEFINE seen == [work[w].seen EXCEPT !.charge = price]
           job == [Idle EXCEPT !.at = "create", !.sub = work[w].sub, !.reprice = TRUE,
                               !.seen = seen]
<1>3. seen \in Seen /\ seen.status = work[w].seen.status /\ seen.reprice = work[w].seen.reprice
  BY <1>0, <1>2, WorkFields DEF TypeOK, Seen
<1>4. Do(w, job)
  BY DEF SyncReprice
<1> HIDE DEF seen
<1>5. /\ job \in Work /\ job.at = "create" /\ job.sub = work[w].sub /\ job.remote = None
      /\ job.seen = seen /\ job.reprice = TRUE
  BY <1>0, <1>2, <1>3, WorkFields, IdleWork DEF Work, Idle, Step
<1> HIDE DEF job
<1>6. work' \in [Worker -> Work] /\ work'[w] = job /\ \A u \in Worker \ {w} : work'[u] = work[u]
  BY <1>0, <1>2, <1>4, <1>5, DoFrame
<1>7. /\ work'[w].at = "create" /\ work'[w].sub = work[w].sub /\ work'[w].remote = None
      /\ work'[w].seen.status = work[w].seen.status
      /\ work'[w].seen.reprice = work[w].seen.reprice
      /\ work'[w].reprice /\ \A u \in Worker \ {w} : work'[u] = work[u]
  BY <1>3, <1>5, <1>6
<1>r. Returned' = Returned
  BY <1>1 DEF Returned
<1>t. TypeOK'
  BY <1>0, <1>1, <1>2, <1>6 DEF TypeOK
<1>A. RowsKnown'
  BY <1>0, <1>1 DEF RowsKnown
<1>B. WorkKnown'
  <2>1. ASSUME NEW u \in Worker, u # w
        PROVE  Hand(u)'
    BY <1>0, <1>1, <1>7, <2>1
      DEF WorkKnown, Hand, Follower, Creates, ActsOn, At
  <2>2. Hand(w)'
    BY <1>0, <1>1, <1>2, <1>7
      DEF WorkKnown, Hand, Follower, Creates, ActsOn, At
  <2> QED
    BY <2>1, <2>2 DEF WorkKnown
<1>C. ClaimsAlone'
  BY <1>0, <1>1, <1>7 DEF ClaimsAlone, Claimer, Creates, At
<1>D. NeverActive'
  BY <1>0, <1>1, <1>7 DEF NeverActive, Claimer, Creates, At
<1>E. OnePendingCard'
  BY <1>0, <1>1 DEF OnePendingCard
<1>F. OneLivePerPlan'
  BY <1>0, <1>1 DEF OneLivePerPlan, Known
<1>G. NotesKnown'
  BY <1>0, <1>1, <1>7 DEF NotesKnown, Known
<1>H. AskedStays'
  BY <1>0, <1>1, <1>7 DEF AskedStays, Known, NoteRead
<1>I. RemotesKnown'
  BY <1>0, <1>r, <1>1, <1>7 DEF RemotesKnown
<1>J. CreatedAlone'
  BY <1>0, <1>n, <1>h, <1>r, <1>1, <1>7
    DEF CreatedAlone, Creates, At, Hands, Names
<1>K. ToldTruth'
  BY <1>0, <1>1, <1>7 DEF ToldTruth, At
<1>L. KillsNoActive'
  BY <1>0, <1>1, <1>7 DEF KillsNoActive, At
<1>M. ActiveIsCharged'
  BY <1>0, <1>n, <1>1, <1>2, <1>7 DEF ActiveIsCharged, Names
<1> QED
  BY <1>t, <1>A, <1>B, <1>C, <1>D, <1>E, <1>F, <1>G, <1>H, <1>I, <1>J, <1>K,
     <1>L, <1>M
    DEF IInv

LEMMA KillInv ==
    ASSUME IInv, NEW w \in Sweeper, Kill(w)
    PROVE  IInv'
<1>0. /\ TypeOK /\ RowsKnown /\ WorkKnown /\ ClaimsAlone /\ NeverActive
      /\ OnePendingCard /\ OneLivePerPlan /\ NotesKnown /\ AskedStays
      /\ RemotesKnown /\ CreatedAlone /\ ToldTruth /\ KillsNoActive /\ ActiveIsCharged
  BY DEF IInv
<1>k. asked \subseteq Sub
  BY <1>0 DEF TypeOK
<1>n. Names
  BY <1>0, NamesKnown
<1>h. Hands
  BY <1>0, HandsKnown
<1>1. /\ UNCHANGED <<tokens, audited, settledAudit, asked, repricing,
                     overwritten, putBack, dropped>>
      /\ UNCHANGED <<price, outside, cards, forms, calls, crashes>>
  BY DEF Kill, auditVars, historyVars, boundVars
<1>2. w \in Worker /\ work[w].at = "kill"
  BY ConstantFacts DEF Kill, At
<1>3. DoneAt(w)
  BY <1>0, <1>2, DoneFrame DEF Kill
<1>4. PICK r \in Remote : r = work[w].remote
  BY <1>h, <1>2 DEF Hands, ActsOn
<1>5. /\ remote' \in [Remote -> RemoteStatus] /\ remote'[r] = "ended"
      /\ \A q \in Remote \ {r} : remote'[q] = remote[q]
  BY <1>0, <1>4 DEF Kill, TypeOK, RemoteStatus
<1>6. \A s \in Sub :
        /\ row'[s] \in Row
        /\ \/ row'[s].status = row[s].status
           \/ row[s].status = "ACTIVATING" /\ row'[s].status = "CANCELED"
        /\ row'[s].plan = row[s].plan /\ row'[s].remote = row[s].remote
        /\ row'[s].reprice = row[s].reprice
  <2> TAKE s \in Sub
  <2> DEFINE new == [row[s] EXCEPT !.status = "CANCELED"]
  <2>1. /\ new \in Row /\ new.status = "CANCELED" /\ new.plan = row[s].plan
        /\ new.remote = row[s].remote /\ new.reprice = row[s].reprice
    BY <1>0, RowFields DEF Row, Status
  <2>2. row[s] \in Row
    BY <1>0, RowFields
  <2>3. row'[s] = row[s] \/ (row[s].status = "ACTIVATING" /\ row'[s] = new)
    BY DEF Kill
  <2> HIDE DEF new, Row
  <2> QED
    BY <2>1, <2>2, <2>3
<1>7. row' \in [Sub -> Row]
  BY <1>6 DEF Kill
<1>8. w \notin Request /\ 1 \in Sub
  BY ConstantFacts
<1>r. Returned' = Returned
  BY <1>1 DEF Returned
<1>t. TypeOK'
  BY <1>0, <1>1, <1>3, <1>5, <1>7 DEF TypeOK, DoneAt
<1>A. RowsKnown'
  BY <1>0, <1>6 DEF RowsKnown
<1>B. WorkKnown'
  BY <1>0, <1>n, <1>3, <1>6
    DEF WorkKnown, Hand, Follower, Creates, ActsOn, At, Names, DoneAt
<1>C. ClaimsAlone'
  BY <1>0, <1>n, <1>3, <1>6
    DEF ClaimsAlone, Claimer, Creates, At, Names, DoneAt
<1>D. NeverActive'
  BY <1>0, <1>n, <1>3, <1>6
    DEF NeverActive, Claimer, Creates, At, Names, DoneAt
<1>E. OnePendingCard'
  BY <1>0, <1>1, <1>6 DEF OnePendingCard
<1>F. OneLivePerPlan'
  BY <1>0, <1>1, <1>6 DEF OneLivePerPlan, Known, Live
<1>G. NotesKnown'
  BY <1>0, <1>1, <1>3, <1>6 DEF NotesKnown, Known, DoneAt
<1>H. AskedStays'
  BY <1>0, <1>k, <1>1, <1>3, <1>6 DEF AskedStays, Known, NoteRead, DoneAt
<1>I. RemotesKnown'
  BY <1>0, <1>n, <1>r, <1>1, <1>3, <1>5, <1>6 DEF RemotesKnown, Names, DoneAt
<1>J. CreatedAlone'
  BY <1>0, <1>n, <1>h, <1>r, <1>1, <1>2, <1>3, <1>4, <1>5, <1>6
    DEF CreatedAlone, Creates, At, Hands, Names, DoneAt
<1>K. ToldTruth'
  BY <1>0, <1>h, <1>3, <1>5 DEF ToldTruth, At, Hands, ActsOn, DoneAt
<1>L. KillsNoActive'
  BY <1>0, <1>1, <1>3, <1>6 DEF KillsNoActive, At, DoneAt
<1>M. ActiveIsCharged'
  BY <1>0, <1>n, <1>1, <1>2, <1>3, <1>4, <1>5, <1>6
    DEF ActiveIsCharged, Names, DoneAt, KillsNoActive, At
<1> QED
  BY <1>t, <1>A, <1>B, <1>C, <1>D, <1>E, <1>F, <1>G, <1>H, <1>I, <1>J, <1>K,
     <1>L, <1>M
    DEF IInv

LEMMA DropInv ==
    ASSUME IInv, NEW w \in Request, Drop(w)
    PROVE  IInv'
<1>0. /\ TypeOK /\ RowsKnown /\ WorkKnown /\ ClaimsAlone /\ NeverActive
      /\ OnePendingCard /\ OneLivePerPlan /\ NotesKnown /\ AskedStays
      /\ RemotesKnown /\ CreatedAlone /\ ToldTruth /\ KillsNoActive /\ ActiveIsCharged
  BY DEF IInv
<1>k. asked \subseteq Sub
  BY <1>0 DEF TypeOK
<1>n. Names
  BY <1>0, NamesKnown
<1>h. Hands
  BY <1>0, HandsKnown
<1>2. w \in Worker /\ work[w].at = "drop"
  BY ConstantFacts DEF Drop, At
<1>s. PICK s \in Sub : s = work[w].sub
  BY <1>2, <1>n DEF Names
<1>1. /\ UNCHANGED <<remote, tokens, audited, settledAudit, overwritten,
                     putBack, dropped>>
      /\ UNCHANGED <<price, outside, cards, forms, calls, crashes>>
      /\ asked' = asked \cup {s} /\ repricing \subseteq repricing' /\ repricing' \subseteq Sub
      /\ row[s].reprice \/ NoteRead(s) => s \in repricing'
  BY <1>0, <1>s DEF Drop, Answered, providerVars, auditVars, boundVars, TypeOK
<1>3. DoneAt(w) /\ 1 \in Sub
  BY <1>0, <1>2, DoneFrame, ConstantFacts DEF Drop
<1>5. row[s].status # "NONE"
  BY <1>0, <1>2, <1>s DEF WorkKnown, Hand
<1>4. StatusAt(s, "CANCELED")
  BY <1>0, <1>s, StatusFrame DEF Drop, Status
<1>r. Returned' = Returned
  BY <1>1 DEF Returned
<1>t. TypeOK'
  BY <1>0, <1>1, <1>3, <1>4 DEF TypeOK, DoneAt, StatusAt
<1>A. RowsKnown'
  BY <1>0, <1>4, <1>5 DEF RowsKnown, StatusAt
<1>B. WorkKnown'
  BY <1>0, <1>n, <1>3, <1>4
    DEF WorkKnown, Hand, Follower, Creates, ActsOn, At, Names, DoneAt,
        StatusAt
<1>C. ClaimsAlone'
  BY <1>0, <1>n, <1>3, <1>4
    DEF ClaimsAlone, Claimer, Creates, At, Names, DoneAt, StatusAt
<1>D. NeverActive'
  BY <1>0, <1>n, <1>3, <1>4
    DEF NeverActive, Claimer, Creates, At, Names, DoneAt, StatusAt
<1>E. OnePendingCard'
  BY <1>0, <1>1, <1>4 DEF OnePendingCard, StatusAt
<1>F. OneLivePerPlan'
  BY <1>0, <1>1, <1>4, <1>5 DEF OneLivePerPlan, Known, Live, StatusAt
<1>G. NotesKnown'
  BY <1>0, <1>1, <1>3, <1>4 DEF NotesKnown, Known, DoneAt, StatusAt
<1>H. AskedStays'
  BY <1>0, <1>k, <1>1, <1>3, <1>4
    DEF AskedStays, Known, NoteRead, DoneAt, StatusAt
<1>I. RemotesKnown'
  BY <1>0, <1>r, <1>1, <1>3, <1>4 DEF RemotesKnown, DoneAt, StatusAt
<1>J. CreatedAlone'
  BY <1>0, <1>n, <1>h, <1>r, <1>1, <1>3, <1>4
    DEF CreatedAlone, Creates, At, Hands, Names, DoneAt, StatusAt
<1>K. ToldTruth'
  BY <1>0, <1>1, <1>3 DEF ToldTruth, At, DoneAt
<1>L. KillsNoActive'
  BY <1>0, <1>1, <1>3, <1>4 DEF KillsNoActive, At, DoneAt, StatusAt
<1>M. ActiveIsCharged'
  BY <1>0, <1>n, <1>1, <1>2, <1>3, <1>4
    DEF ActiveIsCharged, Names, DoneAt, StatusAt
<1> QED
  BY <1>t, <1>A, <1>B, <1>C, <1>D, <1>E, <1>F, <1>G, <1>H, <1>I, <1>J, <1>K,
     <1>L, <1>M
    DEF IInv

LEMMA EndedInv ==
    ASSUME IInv, NEW w \in Request, Ended(w)
    PROVE  IInv'
<1>0. /\ TypeOK /\ RowsKnown /\ WorkKnown /\ ClaimsAlone /\ NeverActive
      /\ OnePendingCard /\ OneLivePerPlan /\ NotesKnown /\ AskedStays
      /\ RemotesKnown /\ CreatedAlone /\ ToldTruth /\ KillsNoActive /\ ActiveIsCharged
  BY DEF IInv
<1>k. asked \subseteq Sub
  BY <1>0 DEF TypeOK
<1>n. Names
  BY <1>0, NamesKnown
<1>h. Hands
  BY <1>0, HandsKnown
<1>2. w \in Worker /\ work[w].at = "ended"
  BY ConstantFacts DEF Ended, At
<1>s. PICK s \in Sub : s = work[w].sub
  BY <1>2, <1>n DEF Names
<1>1. /\ UNCHANGED <<remote, tokens, audited, settledAudit, putBack, dropped>>
      /\ UNCHANGED <<price, outside, cards, forms, calls, crashes>>
      /\ overwritten' = IF row[s].status = "CANCELED" THEN overwritten \cup {s} ELSE overwritten
      /\ asked' = asked \cup {s} /\ repricing \subseteq repricing' /\ repricing' \subseteq Sub
      /\ row[s].reprice \/ NoteRead(s) => s \in repricing'
  BY <1>0, <1>s DEF Ended, Answered, providerVars, auditVars, boundVars, TypeOK
<1>3. DoneAt(w) /\ 1 \in Sub
  BY <1>0, <1>2, DoneFrame, ConstantFacts DEF Ended
<1>4. StatusAt(s, "CANCEL_PENDING")
  BY <1>0, <1>s, StatusFrame DEF Ended, Status
<1>5. row[s].status \notin {"NONE", "PENDING_CARD"} /\ row[s].remote # None
  BY <1>0, <1>2, <1>s, RowFields DEF WorkKnown, Hand, Follower, RowsKnown
<1>r. Returned' = Returned
  BY <1>1 DEF Returned
<1>t. TypeOK'
  BY <1>0, <1>1, <1>3, <1>4 DEF TypeOK, DoneAt, StatusAt
<1>A. RowsKnown'
  BY <1>0, <1>4, <1>5 DEF RowsKnown, StatusAt
<1>B. WorkKnown'
  BY <1>0, <1>n, <1>3, <1>4
    DEF WorkKnown, Hand, Follower, Creates, ActsOn, At, Names, DoneAt,
        StatusAt
<1>C. ClaimsAlone'
  BY <1>0, <1>n, <1>3, <1>4
    DEF ClaimsAlone, Claimer, Creates, At, Names, DoneAt, StatusAt
<1>D. NeverActive'
  BY <1>0, <1>n, <1>3, <1>4
    DEF NeverActive, Claimer, Creates, At, Names, DoneAt, StatusAt
<1>E. OnePendingCard'
  BY <1>0, <1>1, <1>4 DEF OnePendingCard, StatusAt
<1>F. OneLivePerPlan'
  BY <1>0, <1>1, <1>4, <1>5, RowFields
    DEF OneLivePerPlan, Known, Live, StatusAt, Status
<1>G. NotesKnown'
  BY <1>0, <1>1, <1>3, <1>4 DEF NotesKnown, Known, DoneAt, StatusAt
<1>H. AskedStays'
  BY <1>0, <1>k, <1>1, <1>3, <1>4
    DEF AskedStays, Known, NoteRead, DoneAt, StatusAt
<1>I. RemotesKnown'
  BY <1>0, <1>r, <1>1, <1>3, <1>4 DEF RemotesKnown, DoneAt, StatusAt
<1>J. CreatedAlone'
  BY <1>0, <1>n, <1>h, <1>r, <1>1, <1>3, <1>4
    DEF CreatedAlone, Creates, At, Hands, Names, DoneAt, StatusAt
<1>K. ToldTruth'
  BY <1>0, <1>1, <1>3 DEF ToldTruth, At, DoneAt
<1>L. KillsNoActive'
  BY <1>0, <1>1, <1>3, <1>4 DEF KillsNoActive, At, DoneAt, StatusAt
<1>M. ActiveIsCharged'
  BY <1>0, <1>n, <1>s, <1>1, <1>3, <1>4
    DEF ActiveIsCharged, Names, DoneAt, StatusAt
<1> QED
  BY <1>t, <1>A, <1>B, <1>C, <1>D, <1>E, <1>F, <1>G, <1>H, <1>I, <1>J, <1>K,
     <1>L, <1>M
    DEF IInv

LEMMA UndoInv ==
    ASSUME IInv, NEW w \in Request, Undo(w)
    PROVE  IInv'
<1>0. /\ TypeOK /\ RowsKnown /\ WorkKnown /\ ClaimsAlone /\ NeverActive
      /\ OnePendingCard /\ OneLivePerPlan /\ NotesKnown /\ AskedStays
      /\ RemotesKnown /\ CreatedAlone /\ ToldTruth /\ KillsNoActive /\ ActiveIsCharged
  BY DEF IInv
<1>k. asked \subseteq Sub
  BY <1>0 DEF TypeOK
<1>n. Names
  BY <1>0, NamesKnown
<1>h. Hands
  BY <1>0, HandsKnown
<1>2. w \in Worker /\ work[w].at = "undo" /\ work[w].reprice /\ work[w].seen.reprice
  BY <1>0, ConstantFacts DEF Undo, At, WorkKnown, Hand
<1>s. PICK s \in Sub : s = work[w].sub
  BY <1>2, <1>n DEF Names
<1>1. /\ UNCHANGED <<remote, tokens, audited, settledAudit, asked, repricing,
                     putBack, dropped>>
      /\ UNCHANGED <<price, outside, cards, forms, calls, crashes>>
      /\ overwritten' = IF row[s].status # work[w].seen.status \/ ~row[s].reprice
                          THEN overwritten \cup {s} ELSE overwritten
  BY <1>s DEF Undo, providerVars, auditVars, boundVars
<1>3. DoneAt(w) /\ 1 \in Sub
  BY <1>0, <1>2, DoneFrame, ConstantFacts DEF Undo
<1>4. StatusAt(s, "CANCEL_PENDING")
  BY <1>0, <1>s, StatusFrame DEF Undo, Status
<1>5. row[s].status \notin {"NONE", "PENDING_CARD"} /\ row[s].remote # None
  BY <1>0, <1>2, <1>s, RowFields DEF WorkKnown, Hand, Follower, RowsKnown
<1>r. Returned' = Returned
  BY <1>1 DEF Returned
<1>t. TypeOK'
  BY <1>0, <1>1, <1>3, <1>4 DEF TypeOK, DoneAt, StatusAt
<1>A. RowsKnown'
  BY <1>0, <1>4, <1>5 DEF RowsKnown, StatusAt
<1>B. WorkKnown'
  BY <1>0, <1>n, <1>3, <1>4
    DEF WorkKnown, Hand, Follower, Creates, ActsOn, At, Names, DoneAt,
        StatusAt
<1>C. ClaimsAlone'
  BY <1>0, <1>n, <1>3, <1>4
    DEF ClaimsAlone, Claimer, Creates, At, Names, DoneAt, StatusAt
<1>D. NeverActive'
  BY <1>0, <1>n, <1>3, <1>4
    DEF NeverActive, Claimer, Creates, At, Names, DoneAt, StatusAt
<1>E. OnePendingCard'
  BY <1>0, <1>1, <1>4 DEF OnePendingCard, StatusAt
<1>F. OneLivePerPlan'
  BY <1>0, <1>1, <1>4, <1>5, RowFields
    DEF OneLivePerPlan, Known, Live, NotesKnown, StatusAt, Status
<1>G. NotesKnown'
  BY <1>0, <1>n, <1>1, <1>3, <1>4 DEF NotesKnown, Known, DoneAt, StatusAt
<1>H. AskedStays'
  BY <1>0, <1>k, <1>1, <1>3, <1>4
    DEF AskedStays, Known, NoteRead, DoneAt, StatusAt
<1>I. RemotesKnown'
  BY <1>0, <1>r, <1>1, <1>3, <1>4 DEF RemotesKnown, DoneAt, StatusAt
<1>J. CreatedAlone'
  BY <1>0, <1>n, <1>h, <1>r, <1>1, <1>3, <1>4
    DEF CreatedAlone, Creates, At, Hands, Names, DoneAt, StatusAt
<1>K. ToldTruth'
  BY <1>0, <1>1, <1>3 DEF ToldTruth, At, DoneAt
<1>L. KillsNoActive'
  BY <1>0, <1>1, <1>3, <1>4 DEF KillsNoActive, At, DoneAt, StatusAt
<1>M. ActiveIsCharged'
  BY <1>0, <1>n, <1>s, <1>1, <1>3, <1>4
    DEF ActiveIsCharged, Names, DoneAt, StatusAt
<1> QED
  BY <1>t, <1>A, <1>B, <1>C, <1>D, <1>E, <1>F, <1>G, <1>H, <1>I, <1>J, <1>K,
     <1>L, <1>M
    DEF IInv

LEMMA FlagInv ==
    ASSUME IInv, NEW w \in Request, Flag(w)
    PROVE  IInv'
<1>0. /\ TypeOK /\ RowsKnown /\ WorkKnown /\ ClaimsAlone /\ NeverActive
      /\ OnePendingCard /\ OneLivePerPlan /\ NotesKnown /\ AskedStays
      /\ RemotesKnown /\ CreatedAlone /\ ToldTruth /\ KillsNoActive /\ ActiveIsCharged
  BY DEF IInv
<1>k. asked \subseteq Sub
  BY <1>0 DEF TypeOK
<1>n. Names
  BY <1>0, NamesKnown
<1>h. Hands
  BY <1>0, HandsKnown
<1>2. w \in Worker /\ work[w].at = "flag"
  BY ConstantFacts DEF Flag, At
<1>s. PICK s \in Sub : s = work[w].sub
  BY <1>2, <1>n DEF Names
<1>1. /\ UNCHANGED <<remote, tokens, audited, settledAudit, asked, overwritten,
                     putBack, dropped>>
      /\ UNCHANGED <<price, outside, cards, forms, calls, crashes>>
      /\ repricing' = IF row[s].status # "ACTIVE" THEN repricing \cup {s} ELSE repricing
  BY <1>s DEF Flag, providerVars, auditVars, boundVars
<1>3. DoneAt(w) /\ 1 \in Sub
  BY <1>0, <1>2, DoneFrame, ConstantFacts DEF Flag
<1>4. /\ row' \in [Sub -> Row] /\ row'[s].status = row[s].status /\ row'[s].plan = row[s].plan
      /\ row'[s].remote = row[s].remote /\ row'[s].reprice = TRUE
      /\ \A t \in Sub \ {s} : row'[t] = row[t]
  <2> DEFINE new == [row[s] EXCEPT !.reprice = TRUE]
  <2>1. /\ new \in Row /\ new.status = row[s].status /\ new.plan = row[s].plan
        /\ new.remote = row[s].remote /\ new.reprice = TRUE
    BY <1>0, RowFields DEF Row
  <2>2. row' = [row EXCEPT ![s] = new] /\ row \in [Sub -> Row]
    BY <1>0, <1>s DEF Flag, TypeOK
  <2> HIDE DEF new, Row
  <2> QED
    BY <2>1, <2>2
<1>5. row[s].status \notin {"NONE", "PENDING_CARD"} /\ row[s].remote # None
  BY <1>0, <1>2, <1>s, RowFields DEF WorkKnown, Hand, Follower, RowsKnown
<1>r. Returned' = Returned
  BY <1>1 DEF Returned
<1>t. TypeOK'
  BY <1>0, <1>1, <1>3, <1>4 DEF TypeOK, DoneAt
<1>A. RowsKnown'
  BY <1>0, <1>4, <1>5 DEF RowsKnown
<1>B. WorkKnown'
  BY <1>0, <1>n, <1>3, <1>4
    DEF WorkKnown, Hand, Follower, Creates, ActsOn, At, Names, DoneAt
<1>C. ClaimsAlone'
  BY <1>0, <1>n, <1>3, <1>4
    DEF ClaimsAlone, Claimer, Creates, At, Names, DoneAt
<1>D. NeverActive'
  BY <1>0, <1>n, <1>s, <1>2, <1>3, <1>4
    DEF NeverActive, Claimer, Creates, At, Names, DoneAt
<1>E. OnePendingCard'
  BY <1>0, <1>1, <1>4 DEF OnePendingCard
<1>F. OneLivePerPlan'
  BY <1>0, <1>1, <1>4 DEF OneLivePerPlan, Known
<1>G. NotesKnown'
  BY <1>0, <1>1, <1>3, <1>4 DEF NotesKnown, Known, DoneAt
<1>H. AskedStays'
  BY <1>0, <1>k, <1>1, <1>3, <1>4 DEF AskedStays, Known, NoteRead, DoneAt
<1>I. RemotesKnown'
  BY <1>0, <1>r, <1>1, <1>3, <1>4 DEF RemotesKnown, DoneAt
<1>J. CreatedAlone'
  BY <1>0, <1>n, <1>h, <1>r, <1>1, <1>3, <1>4
    DEF CreatedAlone, Creates, At, Hands, Names, DoneAt
<1>K. ToldTruth'
  BY <1>0, <1>1, <1>3 DEF ToldTruth, At, DoneAt
<1>L. KillsNoActive'
  BY <1>0, <1>1, <1>3, <1>4 DEF KillsNoActive, At, DoneAt
<1>M. ActiveIsCharged'
  BY <1>0, <1>n, <1>s, <1>1, <1>3, <1>4 DEF ActiveIsCharged, Names, DoneAt
<1> QED
  BY <1>t, <1>A, <1>B, <1>C, <1>D, <1>E, <1>F, <1>G, <1>H, <1>I, <1>J, <1>K,
     <1>L, <1>M
    DEF IInv

\* The remote subscription r is canceled at the end of its period.
EndsAt(r) ==
    /\ remote' \in [Remote -> RemoteStatus]
    /\ remote[r] \in {"active", "ending"} /\ remote'[r] = "ending"
    /\ \A q \in Remote \ {r} : remote'[q] = remote[q]

LEMMA EndsFrame ==
    ASSUME TypeOK, NEW r \in Remote, Charging(r), remote' = [remote EXCEPT ![r] = "ending"]
    PROVE  EndsAt(r)
BY DEF TypeOK, Charging, EndsAt, RemoteStatus

LEMMA EndRemoteInv ==
    ASSUME IInv, NEW w \in Request, EndRemote(w)
    PROVE  IInv'
<1>0. /\ TypeOK /\ RowsKnown /\ WorkKnown /\ ClaimsAlone /\ NeverActive
      /\ OnePendingCard /\ OneLivePerPlan /\ NotesKnown /\ AskedStays
      /\ RemotesKnown /\ CreatedAlone /\ ToldTruth /\ KillsNoActive /\ ActiveIsCharged
  BY DEF IInv
<1>k. asked \subseteq Sub
  BY <1>0 DEF TypeOK
<1>n. Names
  BY <1>0, NamesKnown
<1>h. Hands
  BY <1>0, HandsKnown
<1>1. /\ UNCHANGED <<row, tokens, audited, settledAudit, asked, repricing,
                     overwritten, putBack>>
      /\ UNCHANGED <<price, outside, cards, forms, calls, crashes>>
  BY DEF EndRemote, auditVars, boundVars
<1>2. w \in Worker /\ work[w].at \in {"end", "drift"}
  BY ConstantFacts DEF EndRemote
<1>3. PICK r \in Remote : r = work[w].remote
  BY <1>h, <1>2 DEF Hands, ActsOn
<1>4. EndsAt(r)
  BY <1>0, <1>3, EndsFrame DEF EndRemote
<1>5. PICK step \in {"ended", "flag"} :
        step = IF work[w].at = "end" THEN "ended" ELSE "flag"
  OBVIOUS
<1>6. ThenAt(w, step) /\ step = IF work[w].at = "end" THEN "ended" ELSE "flag"
  <2>1. Then(w, step) /\ step \in Step
    BY <1>5 DEF EndRemote, At, Step
  <2> QED
    BY <1>0, <1>2, <1>5, <2>1, ThenFrame
<1>7. /\ dropped' = dropped \cup (Linked(r) \ {work[w].sub}) /\ dropped' \subseteq Sub
  BY <1>0, <1>3 DEF EndRemote, TypeOK, Linked
<1>r. Returned' = Returned
  BY <1>1 DEF Returned
<1>t. TypeOK'
  BY <1>0, <1>1, <1>4, <1>6, <1>7 DEF TypeOK, ThenAt, EndsAt
<1>A. RowsKnown'
  BY <1>0, <1>1 DEF RowsKnown
<1>B. WorkKnown'
  <2>1. ASSUME NEW u \in Worker, u # w
        PROVE  Hand(u)'
    BY <1>0, <1>1, <1>6, <2>1
      DEF WorkKnown, Hand, Follower, Creates, ActsOn, At, ThenAt
  <2>2. Hand(w)'
    BY <1>0, <1>1, <1>2, <1>6
      DEF WorkKnown, Hand, Follower, Creates, ActsOn, At, ThenAt
  <2> QED
    BY <2>1, <2>2 DEF WorkKnown
<1>C. ClaimsAlone'
  BY <1>0, <1>1, <1>6 DEF ClaimsAlone, Claimer, Creates, At, ThenAt
<1>D. NeverActive'
  BY <1>0, <1>1, <1>2, <1>6 DEF NeverActive, Claimer, Creates, At, ThenAt
<1>E. OnePendingCard'
  BY <1>0, <1>1 DEF OnePendingCard
<1>F. OneLivePerPlan'
  BY <1>0, <1>1 DEF OneLivePerPlan, Known
<1>G. NotesKnown'
  BY <1>0, <1>1, <1>6 DEF NotesKnown, Known, ThenAt
<1>H. AskedStays'
  BY <1>0, <1>1, <1>6 DEF AskedStays, Known, NoteRead, ThenAt
<1>I. RemotesKnown'
  BY <1>0, <1>n, <1>r, <1>1, <1>4, <1>6 DEF RemotesKnown, Names, ThenAt, EndsAt
<1>J. CreatedAlone'
  BY <1>0, <1>h, <1>r, <1>1, <1>2, <1>3, <1>4, <1>6
    DEF CreatedAlone, Creates, At, Hands, ThenAt, EndsAt
<1>K. ToldTruth'
  BY <1>0, <1>h, <1>4, <1>6 DEF ToldTruth, At, Hands, ActsOn, ThenAt, EndsAt
<1>L. KillsNoActive'
  BY <1>0, <1>1, <1>6 DEF KillsNoActive, At, ThenAt
<1>M. ActiveIsCharged'
  BY <1>0, <1>n, <1>1, <1>4, <1>6, <1>7
    DEF ActiveIsCharged, Names, ThenAt, EndsAt, Linked
<1> QED
  BY <1>t, <1>A, <1>B, <1>C, <1>D, <1>E, <1>F, <1>G, <1>H, <1>I, <1>J, <1>K,
     <1>L, <1>M
    DEF IInv

LEMMA EndLostInv ==
    ASSUME IInv, NEW w \in Request, EndThrows(w), Charging(work[w].remote),
           remote' = [remote EXCEPT ![work[w].remote] = "ending"],
           dropped' = dropped \cup {work[w].sub} \cup Linked(work[w].remote)
    PROVE  IInv'
<1>0. /\ TypeOK /\ RowsKnown /\ WorkKnown /\ ClaimsAlone /\ NeverActive
      /\ OnePendingCard /\ OneLivePerPlan /\ NotesKnown /\ AskedStays
      /\ RemotesKnown /\ CreatedAlone /\ ToldTruth /\ KillsNoActive /\ ActiveIsCharged
  BY DEF IInv
<1>k. asked \subseteq Sub
  BY <1>0 DEF TypeOK
<1>n. Names
  BY <1>0, NamesKnown
<1>h. Hands
  BY <1>0, HandsKnown
<1>1. /\ UNCHANGED <<row, tokens, audited, settledAudit, asked, repricing,
                     overwritten, putBack>>
      /\ UNCHANGED <<price, outside, cards, forms, calls, crashes>>
  BY DEF EndThrows, auditVars, boundVars
<1>2. w \in Worker /\ work[w].at \in {"end", "drift"}
  BY ConstantFacts DEF EndThrows
<1>3. PICK r \in Remote : r = work[w].remote
  BY <1>h, <1>2 DEF Hands, ActsOn
<1>4. EndsAt(r)
  BY <1>0, <1>3, EndsFrame DEF EndThrows
<1>5. DoneAt(w) /\ 1 \in Sub
  BY <1>0, <1>2, DoneFrame, ConstantFacts DEF EndThrows
<1>6. /\ dropped' = dropped \cup {work[w].sub} \cup Linked(r) /\ dropped' \subseteq Sub
  BY <1>0, <1>n, <1>3 DEF EndThrows, TypeOK, Linked, Names
<1>r. Returned' = Returned
  BY <1>1 DEF Returned
<1>t. TypeOK'
  BY <1>0, <1>1, <1>4, <1>5, <1>6 DEF TypeOK, DoneAt, EndsAt
<1>A. RowsKnown'
  BY <1>0, <1>1 DEF RowsKnown
<1>B. WorkKnown'
  BY <1>0, <1>1, <1>5
    DEF WorkKnown, Hand, Follower, Creates, ActsOn, At, DoneAt
<1>C. ClaimsAlone'
  BY <1>0, <1>1, <1>5 DEF ClaimsAlone, Claimer, Creates, At, DoneAt
<1>D. NeverActive'
  BY <1>0, <1>1, <1>5 DEF NeverActive, Claimer, Creates, At, DoneAt
<1>E. OnePendingCard'
  BY <1>0, <1>1 DEF OnePendingCard
<1>F. OneLivePerPlan'
  BY <1>0, <1>1 DEF OneLivePerPlan, Known
<1>G. NotesKnown'
  BY <1>0, <1>1, <1>5 DEF NotesKnown, Known, DoneAt
<1>H. AskedStays'
  BY <1>0, <1>1, <1>5 DEF AskedStays, Known, NoteRead, DoneAt
<1>I. RemotesKnown'
  BY <1>0, <1>r, <1>1, <1>5 DEF RemotesKnown, DoneAt
<1>J. CreatedAlone'
  BY <1>0, <1>n, <1>h, <1>r, <1>1, <1>5
    DEF CreatedAlone, Creates, At, Hands, Names, DoneAt
<1>K. ToldTruth'
  BY <1>0, <1>4, <1>5 DEF ToldTruth, At, DoneAt, EndsAt
<1>L. KillsNoActive'
  BY <1>0, <1>1, <1>5 DEF KillsNoActive, At, DoneAt
<1>M. ActiveIsCharged'
  BY <1>0, <1>n, <1>1, <1>5 DEF ActiveIsCharged, Names, DoneAt, Linked
<1> QED
  BY <1>t, <1>A, <1>B, <1>C, <1>D, <1>E, <1>F, <1>G, <1>H, <1>I, <1>J, <1>K,
     <1>L, <1>M
    DEF IInv

LEMMA EndThrowsInv == ASSUME IInv, NEW w \in Request, EndThrows(w) PROVE IInv'
<1>1. CASE remote' = remote /\ dropped' = dropped
  <2>1. w \in Worker /\ DoneAt(w) /\ work[w].at \in {"end", "drift"} /\ forms \subseteq Plan
    BY ConstantFacts, DoneFrame DEF IInv, TypeOK, EndThrows
  <2> QED
    BY <1>1, <2>1, IdleInv DEF EndThrows, historyVars
<1>2. CASE ~(remote' = remote /\ dropped' = dropped)
  BY <1>2, EndLostInv DEF EndThrows
<1> QED
  BY <1>1, <1>2

LEMMA DriftsFrame ==
    ASSUME TypeOK, NEW w \in Worker, NEW s \in Sub, NEW r \in Remote, NEW charge,
           Drifts(w, s, r, charge)
    PROVE  DoneAt(w) \/ (charge # price /\ StartAt(w, "drift", s, r))
<1>1. "drift" \in Step /\ r \in Remote \cup {None}
  BY DEF Step
<1> QED
  BY <1>1, StartFrame, DoneFrame DEF Drifts

LEMMA CompensateInv ==
    ASSUME IInv, NEW w \in Request, Compensate(w)
    PROVE  IInv'
<1>0. /\ TypeOK /\ RowsKnown /\ WorkKnown /\ ClaimsAlone /\ NeverActive
      /\ OnePendingCard /\ OneLivePerPlan /\ NotesKnown /\ AskedStays
      /\ RemotesKnown /\ CreatedAlone /\ ToldTruth /\ KillsNoActive /\ ActiveIsCharged
  BY DEF IInv
<1>k. asked \subseteq Sub
  BY <1>0 DEF TypeOK
<1>n. Names
  BY <1>0, NamesKnown
<1>h. Hands
  BY <1>0, HandsKnown
<1>1. /\ UNCHANGED <<row, tokens, audited, settledAudit, asked, repricing,
                     overwritten, putBack, dropped>>
      /\ UNCHANGED <<price, outside, cards, forms, calls, crashes>>
  BY DEF Compensate, auditVars, boundVars, historyVars
<1>2. w \in Worker /\ work[w].at = "compensate"
  BY ConstantFacts DEF Compensate, At
<1>s. PICK s \in Sub : s = work[w].sub
  BY <1>2, <1>n DEF Names
<1>3. PICK r \in Remote : r = work[w].remote
  BY <1>h, <1>2 DEF Hands, ActsOn, Creates
<1>4. /\ remote' \in [Remote -> RemoteStatus] /\ remote'[r] \in {remote[r], "ended"}
      /\ \A q \in Remote \ {r} : remote'[q] = remote[q]
  BY <1>0, <1>3 DEF Compensate, TypeOK, RemoteStatus
<1>5. (work[w].reprice /\ ThenAt(w, "undo")) \/ (~work[w].reprice /\ DoneAt(w))
  BY <1>0, <1>2, ThenFrame, DoneFrame DEF Compensate, Step
<1>6. 1 \in Sub
  BY ConstantFacts
<1>r. Returned' = Returned
  BY <1>1 DEF Returned
<1>t. TypeOK'
  BY <1>0, <1>1, <1>4, <1>5 DEF TypeOK, DoneAt, ThenAt
<1>A. RowsKnown'
  BY <1>0, <1>1 DEF RowsKnown
<1>B. WorkKnown'
  <2>1. ASSUME NEW u \in Worker, u # w
        PROVE  Hand(u)'
    BY <1>0, <1>1, <1>5
      DEF WorkKnown, Hand, Follower, Creates, ActsOn, At, DoneAt, ThenAt
  <2>2. Hand(w)'
    BY <1>0, <1>1, <1>2, <1>5
      DEF WorkKnown, Hand, Follower, Creates, ActsOn, At, DoneAt, ThenAt
  <2> QED
    BY <2>1, <2>2 DEF WorkKnown
<1>C. ClaimsAlone'
  BY <1>0, <1>1, <1>5 DEF ClaimsAlone, Claimer, Creates, At, DoneAt, ThenAt
<1>D. NeverActive'
  BY <1>0, <1>1, <1>5 DEF NeverActive, Claimer, Creates, At, DoneAt, ThenAt
<1>E. OnePendingCard'
  BY <1>0, <1>1 DEF OnePendingCard
<1>F. OneLivePerPlan'
  BY <1>0, <1>1 DEF OneLivePerPlan, Known
<1>G. NotesKnown'
  BY <1>0, <1>1, <1>5 DEF NotesKnown, Known, DoneAt, ThenAt
<1>H. AskedStays'
  BY <1>0, <1>1, <1>5 DEF AskedStays, Known, NoteRead, DoneAt, ThenAt
<1>I. RemotesKnown'
  BY <1>0, <1>n, <1>r, <1>1, <1>4, <1>5 DEF RemotesKnown, Names, DoneAt, ThenAt
<1>J. CreatedAlone'
  BY <1>0, <1>n, <1>h, <1>r, <1>1, <1>3, <1>4, <1>5
    DEF CreatedAlone, Creates, At, Hands, Names, DoneAt, ThenAt
<1>K. ToldTruth'
  BY <1>0, <1>h, <1>4, <1>5 DEF ToldTruth, At, Hands, ActsOn, DoneAt, ThenAt
<1>L. KillsNoActive'
  BY <1>0, <1>1, <1>5 DEF KillsNoActive, At, DoneAt, ThenAt
<1>M. ActiveIsCharged'
  BY <1>0, <1>n, <1>1, <1>2, <1>3, <1>4, <1>5
    DEF ActiveIsCharged, Names, DoneAt, ThenAt, NeverActive, CreatedAlone,
        Claimer, Creates
<1> QED
  BY <1>t, <1>A, <1>B, <1>C, <1>D, <1>E, <1>F, <1>G, <1>H, <1>I, <1>J, <1>K,
     <1>L, <1>M
    DEF IInv

LEMMA CreateInv ==
    ASSUME IInv, NEW w \in Request, Create(w)
    PROVE  IInv'
<1>0. /\ TypeOK /\ RowsKnown /\ WorkKnown /\ ClaimsAlone /\ NeverActive
      /\ OnePendingCard /\ OneLivePerPlan /\ NotesKnown /\ AskedStays
      /\ RemotesKnown /\ CreatedAlone /\ ToldTruth /\ KillsNoActive /\ ActiveIsCharged
  BY DEF IInv
<1>k. asked \subseteq Sub
  BY <1>0 DEF TypeOK
<1>n. Names
  BY <1>0, NamesKnown
<1>h. Hands
  BY <1>0, HandsKnown
<1>1. /\ UNCHANGED <<row, tokens, settledAudit, asked, repricing, overwritten,
                     putBack, dropped>>
      /\ UNCHANGED <<price, outside, cards, forms, calls, crashes>>
  BY DEF Create, boundVars, historyVars
<1>2. w \in Worker /\ work[w].at = "create"
  BY ConstantFacts DEF Create, At
<1>s. PICK s \in Sub : s = work[w].sub
  BY <1>2, <1>n DEF Names
<1>3. PICK r \in Remote :
         /\ Begins(r) /\ audited' \in {audited, audited \cup {r}}
         /\ Do(w, [work[w] EXCEPT !.at = "link", !.remote = r])
  BY DEF Create
<1>4. BeginsAt(r) /\ audited' \in {audited, audited \cup {r}}
  BY <1>0, <1>3, BeginsFrame
<1> DEFINE job == [work[w] EXCEPT !.at = "link", !.remote = r]
<1>5. /\ job \in Work /\ job.at = "link" /\ job.sub = work[w].sub /\ job.remote = r
      /\ job.seen = work[w].seen /\ job.told = work[w].told /\ job.reprice = work[w].reprice
  BY <1>0, <1>2, WorkFields DEF Work, Step
<1> HIDE DEF job
<1>6. work' \in [Worker -> Work] /\ work'[w] = job /\ \A u \in Worker \ {w} : work'[u] = work[u]
  BY <1>0, <1>2, <1>3, <1>5, DoFrame DEF job
<1>7. /\ work'[w].at = "link" /\ work'[w].sub = s /\ work'[w].remote = r
      /\ work'[w].seen = work[w].seen /\ work'[w].reprice = work[w].reprice
      /\ \A u \in Worker \ {w} : work'[u] = work[u]
  BY <1>5, <1>6, <1>s
<1>8. /\ r \notin Returned /\ r \notin settledAudit /\ r \notin audited
      /\ \A t \in Sub : row[t].remote # r
      /\ \A u \in Worker : work[u].remote # r
  BY <1>0, <1>n, <1>4 DEF RemotesKnown, Names, BeginsAt
<1>r. Returned' = Returned
  BY <1>1 DEF Returned
<1>t. TypeOK'
  BY <1>0, <1>1, <1>4, <1>6 DEF TypeOK, BeginsAt
<1>A. RowsKnown'
  BY <1>0, <1>1 DEF RowsKnown
<1>B. WorkKnown'
  <2>1. ASSUME NEW u \in Worker, u # w
        PROVE  Hand(u)'
    BY <1>0, <1>1, <1>7, <2>1
      DEF WorkKnown, Hand, Follower, Creates, ActsOn, At
  <2>2. Hand(w)'
    BY <1>0, <1>n, <1>s, <1>1, <1>2, <1>7
      DEF WorkKnown, Hand, Follower, Creates, At, Names
  <2> QED
    BY <2>1, <2>2 DEF WorkKnown
<1>C. ClaimsAlone'
  BY <1>0, <1>s, <1>1, <1>2, <1>7 DEF ClaimsAlone, Claimer, Creates, At
<1>D. NeverActive'
  BY <1>0, <1>s, <1>1, <1>2, <1>7 DEF NeverActive, Claimer, Creates, At
<1>E. OnePendingCard'
  BY <1>0, <1>1 DEF OnePendingCard
<1>F. OneLivePerPlan'
  BY <1>0, <1>1 DEF OneLivePerPlan, Known
<1>G. NotesKnown'
  BY <1>0, <1>s, <1>1, <1>7 DEF NotesKnown, Known
<1>H. AskedStays'
  BY <1>0, <1>s, <1>1, <1>7 DEF AskedStays, Known, NoteRead
<1>I. RemotesKnown'
  BY <1>0, <1>n, <1>r, <1>1, <1>4, <1>7 DEF RemotesKnown, Names, BeginsAt
<1>J. CreatedAlone'
  BY <1>0, <1>h, <1>r, <1>1, <1>4, <1>7, <1>8
    DEF CreatedAlone, Creates, At, Hands, BeginsAt
<1>K. ToldTruth'
  BY <1>0, <1>h, <1>4, <1>7 DEF ToldTruth, At, Hands, ActsOn, BeginsAt
<1>L. KillsNoActive'
  BY <1>0, <1>1, <1>7 DEF KillsNoActive, At
<1>M. ActiveIsCharged'
  BY <1>0, <1>n, <1>1, <1>2, <1>4, <1>7 DEF ActiveIsCharged, Names, BeginsAt
<1> QED
  BY <1>t, <1>A, <1>B, <1>C, <1>D, <1>E, <1>F, <1>G, <1>H, <1>I, <1>J, <1>K,
     <1>L, <1>M
    DEF IInv

LEMMA CreateThrowsInv ==
    ASSUME IInv, NEW w \in Request, CreateThrows(w)
    PROVE  IInv'
<1>0. /\ TypeOK /\ RowsKnown /\ WorkKnown /\ ClaimsAlone /\ NeverActive
      /\ OnePendingCard /\ OneLivePerPlan /\ NotesKnown /\ AskedStays
      /\ RemotesKnown /\ CreatedAlone /\ ToldTruth /\ KillsNoActive /\ ActiveIsCharged
  BY DEF IInv
<1>k. asked \subseteq Sub
  BY <1>0 DEF TypeOK
<1>n. Names
  BY <1>0, NamesKnown
<1>h. Hands
  BY <1>0, HandsKnown
<1>1. /\ UNCHANGED <<tokens, audited, settledAudit, asked, repricing,
                     overwritten, dropped>>
      /\ UNCHANGED <<price, outside, cards, forms, calls, crashes>>
  BY DEF CreateThrows, auditVars, boundVars
<1>2. w \in Worker /\ work[w].at = "create"
  BY ConstantFacts DEF CreateThrows, At
<1>s. PICK s \in Sub : s = work[w].sub
  BY <1>2, <1>n DEF Names
<1>4. KeepsRemote
  BY <1>0, BeginsKeeps DEF CreateThrows
<1>5. (work[w].reprice /\ ThenAt(w, "undo")) \/ (~work[w].reprice /\ DoneAt(w))
  BY <1>0, <1>2, ThenFrame, DoneFrame DEF CreateThrows, Step
<1>6. 1 \in Sub
  BY ConstantFacts
<1>7. \/ RowsSame /\ putBack' = putBack /\ row' \in [Sub -> Row]
      \/ /\ StatusAt(s, "PENDING_CARD") /\ putBack' = putBack \cup {s}
         /\ row[s].status = "ACTIVATING" /\ ~work[w].reprice
  <2>1. CASE ~work[w].reprice /\ row[s].status = "ACTIVATING"
    BY <1>0, <1>s, <2>1, StatusFrame DEF CreateThrows, Status
  <2>2. CASE ~(~work[w].reprice /\ row[s].status = "ACTIVATING")
    BY <1>0, <1>s, <2>2 DEF CreateThrows, RowsSame, TypeOK
  <2> QED
    BY <2>1, <2>2
<1>8. ~work[w].reprice => /\ row[s].remote = None /\ ~row[s].reprice
                          /\ \A u \in Worker \ {w} : Claimer(u) => work[u].sub # s
  BY <1>0, <1>2, <1>s DEF ClaimsAlone, NeverActive, Claimer, At
<1>r. Returned' = Returned
  BY <1>1 DEF Returned
<1>t. TypeOK'
  BY <1>0, <1>1, <1>4, <1>5, <1>7
    DEF TypeOK, DoneAt, ThenAt, StatusAt, KeepsRemote
<1>A. RowsKnown'
  BY <1>0, <1>7, <1>8 DEF RowsKnown, StatusAt, RowsSame
<1>B. WorkKnown'
  <2>1. ASSUME NEW u \in Worker, u # w
        PROVE  Hand(u)'
    BY <1>0, <1>n, <1>5, <1>7
      DEF WorkKnown, Hand, Follower, Creates, ActsOn, At, Names, DoneAt,
          ThenAt, StatusAt, RowsSame
  <2>2. Hand(w)'
    BY <1>0, <1>n, <1>5, <1>7
      DEF WorkKnown, Hand, Follower, Creates, ActsOn, At, Names, DoneAt,
          ThenAt, RowsSame
  <2> QED
    BY <2>1, <2>2 DEF WorkKnown
<1>C. ClaimsAlone'
  BY <1>0, <1>n, <1>5, <1>7, <1>8
    DEF ClaimsAlone, Claimer, Creates, At, Names, DoneAt, ThenAt, StatusAt,
        RowsSame
<1>D. NeverActive'
  BY <1>0, <1>n, <1>5, <1>7
    DEF NeverActive, Claimer, Creates, At, Names, DoneAt, ThenAt, StatusAt,
        RowsSame
<1>E. OnePendingCard'
  BY <1>0, <1>n, <1>7 DEF OnePendingCard, StatusAt, RowsSame
<1>F. OneLivePerPlan'
  BY <1>0, <1>1, <1>7 DEF OneLivePerPlan, Known, Live, StatusAt, RowsSame
<1>G. NotesKnown'
  BY <1>0, <1>1, <1>5, <1>7
    DEF NotesKnown, Known, DoneAt, ThenAt, StatusAt, RowsSame
<1>H. AskedStays'
  BY <1>0, <1>k, <1>1, <1>5, <1>7
    DEF AskedStays, Known, NoteRead, DoneAt, ThenAt, StatusAt, RowsSame
<1>I. RemotesKnown'
  BY <1>0, <1>n, <1>r, <1>1, <1>4, <1>5, <1>7
    DEF RemotesKnown, Names, DoneAt, ThenAt, StatusAt, RowsSame, KeepsRemote
<1>J. CreatedAlone'
  BY <1>0, <1>n, <1>h, <1>r, <1>1, <1>4, <1>5, <1>7
    DEF CreatedAlone, Creates, At, Hands, ActsOn, Names, DoneAt, ThenAt,
        StatusAt, RowsSame, KeepsRemote
<1>K. ToldTruth'
  BY <1>0, <1>h, <1>4, <1>5
    DEF ToldTruth, At, Hands, ActsOn, DoneAt, ThenAt, KeepsRemote
<1>L. KillsNoActive'
  BY <1>0, <1>1, <1>5, <1>7
    DEF KillsNoActive, At, DoneAt, ThenAt, StatusAt, RowsSame
<1>M. ActiveIsCharged'
  BY <1>0, <1>n, <1>1, <1>2, <1>4, <1>5, <1>7
    DEF ActiveIsCharged, Names, DoneAt, ThenAt, StatusAt, RowsSame,
        KeepsRemote
<1> QED
  BY <1>t, <1>A, <1>B, <1>C, <1>D, <1>E, <1>F, <1>G, <1>H, <1>I, <1>J, <1>K,
     <1>L, <1>M
    DEF IInv

LEMMA LinkInv ==
    ASSUME IInv, NEW w \in Request, Link(w)
    PROVE  IInv'
<1>0. /\ TypeOK /\ RowsKnown /\ WorkKnown /\ ClaimsAlone /\ NeverActive
      /\ OnePendingCard /\ OneLivePerPlan /\ NotesKnown /\ AskedStays
      /\ RemotesKnown /\ CreatedAlone /\ ToldTruth /\ KillsNoActive /\ ActiveIsCharged
  BY DEF IInv
<1>k. asked \subseteq Sub
  BY <1>0 DEF TypeOK
<1>n. Names
  BY <1>0, NamesKnown
<1>h. Hands
  BY <1>0, HandsKnown
<1>1. /\ UNCHANGED <<remote, tokens, audited, settledAudit, asked, repricing,
                     overwritten, putBack, dropped>>
      /\ UNCHANGED <<price, outside, cards, forms, calls, crashes>>
  BY DEF Link, providerVars, auditVars, boundVars, historyVars
<1>2. w \in Worker /\ work[w].at = "link"
  BY ConstantFacts DEF Link, At
<1>s. PICK s \in Sub : s = work[w].sub
  BY <1>2, <1>n DEF Names
<1>3. PICK r \in Remote : r = work[w].remote
  BY <1>h, <1>2 DEF Hands, ActsOn, Creates
<1>4. ThenAt(w, "activate")
  BY <1>0, <1>2, ThenFrame DEF Link, Step
<1>5. /\ row' \in [Sub -> Row] /\ row'[s].status = row[s].status /\ row'[s].plan = row[s].plan
      /\ row'[s].remote = r /\ row'[s].reprice = row[s].reprice
      /\ \A t \in Sub \ {s} : row'[t] = row[t]
  <2> DEFINE new == [row[s] EXCEPT !.remote = r]
  <2>1. /\ new \in Row /\ new.status = row[s].status /\ new.plan = row[s].plan
        /\ new.remote = r /\ new.reprice = row[s].reprice
    BY <1>0, RowFields DEF Row
  <2>2. row' = [row EXCEPT ![s] = new] /\ row \in [Sub -> Row]
    BY <1>0, <1>s, <1>3 DEF Link, TypeOK
  <2> HIDE DEF new, Row
  <2> QED
    BY <2>1, <2>2
<1>6. row[s].status \notin {"NONE", "PENDING_CARD"}
  <2>1. CASE work[w].reprice
    BY <1>0, <1>s, <1>2, <2>1 DEF WorkKnown, Hand, Follower, RowsKnown
  <2>2. CASE ~work[w].reprice
    BY <1>0, <1>s, <1>2, <2>2
      DEF WorkKnown, Hand, ClaimsAlone, Claimer, Creates
  <2> QED
    BY <2>1, <2>2
<1>7. /\ remote[r] = "active" \/ r \in outside
      /\ r \notin settledAudit /\ remote[r] # "none"
      /\ \A u \in Worker \ {w} : work[u].remote # r
  BY <1>0, <1>h, <1>2, <1>3 DEF CreatedAlone, Creates, At, Hands, ActsOn
<1>8. w \notin Sweeper
  BY ConstantFacts
<1>r. Returned' = Returned
  BY <1>1 DEF Returned
<1>t. TypeOK'
  BY <1>0, <1>1, <1>4, <1>5 DEF TypeOK, ThenAt
<1>A. RowsKnown'
  BY <1>0, <1>5, <1>6 DEF RowsKnown
<1>B. WorkKnown'
  <2>1. ASSUME NEW u \in Worker, u # w
        PROVE  Hand(u)'
    BY <1>0, <1>n, <1>4, <1>5, <2>1
      DEF WorkKnown, Hand, Follower, Creates, ActsOn, At, Names, ThenAt
  <2>2. Hand(w)'
    BY <1>0, <1>s, <1>2, <1>3, <1>4, <1>5
      DEF WorkKnown, Hand, Creates, At, ThenAt
  <2> QED
    BY <2>1, <2>2 DEF WorkKnown
<1>C. ClaimsAlone'
  BY <1>0, <1>n, <1>s, <1>1, <1>2, <1>3, <1>4, <1>5, <1>6, <1>7, <1>8
    DEF ClaimsAlone, Claimer, Creates, At, Names, ThenAt, WorkKnown, Hand,
        Follower
<1>D. NeverActive'
  BY <1>0, <1>n, <1>2, <1>4, <1>5
    DEF NeverActive, Claimer, Creates, At, Names, ThenAt
<1>E. OnePendingCard'
  BY <1>0, <1>1, <1>5 DEF OnePendingCard
<1>F. OneLivePerPlan'
  BY <1>0, <1>1, <1>5 DEF OneLivePerPlan, Known
<1>G. NotesKnown'
  BY <1>0, <1>1, <1>4, <1>5 DEF NotesKnown, Known, ThenAt
<1>H. AskedStays'
  BY <1>0, <1>k, <1>1, <1>4, <1>5 DEF AskedStays, Known, NoteRead, ThenAt
<1>I. RemotesKnown'
  BY <1>0, <1>r, <1>1, <1>4, <1>5, <1>7 DEF RemotesKnown, ThenAt
<1>J. CreatedAlone'
  BY <1>0, <1>r, <1>s, <1>1, <1>2, <1>4, <1>5, <1>7
    DEF CreatedAlone, Creates, At, ThenAt
<1>K. ToldTruth'
  BY <1>0, <1>1, <1>4 DEF ToldTruth, At, ThenAt
<1>L. KillsNoActive'
  BY <1>0, <1>1, <1>4, <1>5, <1>7 DEF KillsNoActive, At, ThenAt
<1>M. ActiveIsCharged'
  BY <1>0, <1>n, <1>1, <1>2, <1>4, <1>5, <1>7
    DEF ActiveIsCharged, Names, ThenAt
<1> QED
  BY <1>t, <1>A, <1>B, <1>C, <1>D, <1>E, <1>F, <1>G, <1>H, <1>I, <1>J, <1>K,
     <1>L, <1>M
    DEF IInv

LEMMA ActivateLostInv ==
    ASSUME IInv, NEW w \in Request, Activate(w), ~StillExpected(w)
    PROVE  IInv'
<1>0. /\ TypeOK /\ RowsKnown /\ WorkKnown /\ ClaimsAlone /\ NeverActive
      /\ OnePendingCard /\ OneLivePerPlan /\ NotesKnown /\ AskedStays
      /\ RemotesKnown /\ CreatedAlone /\ ToldTruth /\ KillsNoActive /\ ActiveIsCharged
  BY DEF IInv
<1>k. asked \subseteq Sub
  BY <1>0 DEF TypeOK
<1>n. Names
  BY <1>0, NamesKnown
<1>h. Hands
  BY <1>0, HandsKnown
<1>1. /\ UNCHANGED <<row, remote, tokens, audited, settledAudit, asked,
                     repricing, overwritten, putBack, dropped>>
      /\ UNCHANGED <<price, outside, cards, forms, calls, crashes>>
  BY DEF Activate, providerVars, auditVars, boundVars
<1>2. w \in Worker /\ work[w].at = "activate"
  BY ConstantFacts DEF Activate, At
<1>3. ThenAt(w, "compensate")
  BY <1>0, <1>2, ThenFrame DEF Activate, Step
<1>r. Returned' = Returned
  BY <1>1 DEF Returned
<1>t. TypeOK'
  BY <1>0, <1>1, <1>3 DEF TypeOK, ThenAt
<1>A. RowsKnown'
  BY <1>0, <1>1 DEF RowsKnown
<1>B. WorkKnown'
  <2>1. ASSUME NEW u \in Worker, u # w
        PROVE  Hand(u)'
    BY <1>0, <1>1, <1>3, <2>1
      DEF WorkKnown, Hand, Follower, Creates, ActsOn, At, ThenAt
  <2>2. Hand(w)'
    BY <1>0, <1>1, <1>2, <1>3
      DEF WorkKnown, Hand, Follower, Creates, At, ThenAt
  <2> QED
    BY <2>1, <2>2 DEF WorkKnown
<1>C. ClaimsAlone'
  BY <1>0, <1>1, <1>2, <1>3 DEF ClaimsAlone, Claimer, Creates, At, ThenAt
<1>D. NeverActive'
  BY <1>0, <1>1, <1>2, <1>3 DEF NeverActive, Claimer, Creates, At, ThenAt
<1>E. OnePendingCard'
  BY <1>0, <1>1 DEF OnePendingCard
<1>F. OneLivePerPlan'
  BY <1>0, <1>1 DEF OneLivePerPlan, Known
<1>G. NotesKnown'
  BY <1>0, <1>1, <1>3 DEF NotesKnown, Known, ThenAt
<1>H. AskedStays'
  BY <1>0, <1>1, <1>3 DEF AskedStays, Known, NoteRead, ThenAt
<1>I. RemotesKnown'
  BY <1>0, <1>r, <1>1, <1>3 DEF RemotesKnown, ThenAt
<1>J. CreatedAlone'
  BY <1>0, <1>r, <1>1, <1>2, <1>3 DEF CreatedAlone, Creates, At, ThenAt
<1>K. ToldTruth'
  BY <1>0, <1>1, <1>3 DEF ToldTruth, At, ThenAt
<1>L. KillsNoActive'
  BY <1>0, <1>1, <1>3 DEF KillsNoActive, At, ThenAt
<1>M. ActiveIsCharged'
  BY <1>0, <1>n, <1>1, <1>2, <1>3 DEF ActiveIsCharged, Names, ThenAt
<1> QED
  BY <1>t, <1>A, <1>B, <1>C, <1>D, <1>E, <1>F, <1>G, <1>H, <1>I, <1>J, <1>K,
     <1>L, <1>M
    DEF IInv

\* A worker that has made its row s ACTIVE stops, or goes on to the price.
DriftsAt(w, s, r) == DoneAt(w) \/ StartAt(w, "drift", s, r)

\* The row s has become ACTIVE with the remote subscription r.
ActiveAt(s, r) ==
    /\ row' \in [Sub -> Row]
    /\ row'[s].status = "ACTIVE" /\ row'[s].plan = row[s].plan /\ row'[s].remote = r
    /\ row'[s].reprice => row[s].reprice
    /\ \A t \in Sub \ {s} : row'[t] = row[t]
    /\ dropped' \subseteq Sub /\ dropped \subseteq dropped'
    /\ remote[r] # "active" => s \in dropped'

LEMMA ActivateWonInv ==
    ASSUME IInv, NEW w \in Request, Activate(w), StillExpected(w)
    PROVE  IInv'
<1>0. /\ TypeOK /\ RowsKnown /\ WorkKnown /\ ClaimsAlone /\ NeverActive
      /\ OnePendingCard /\ OneLivePerPlan /\ NotesKnown /\ AskedStays
      /\ RemotesKnown /\ CreatedAlone /\ ToldTruth /\ KillsNoActive /\ ActiveIsCharged
  BY DEF IInv
<1>k. asked \subseteq Sub
  BY <1>0 DEF TypeOK
<1>n. Names
  BY <1>0, NamesKnown
<1>h. Hands
  BY <1>0, HandsKnown
<1>1. /\ UNCHANGED <<remote, tokens, audited, settledAudit, asked, repricing,
                     overwritten, putBack>>
      /\ UNCHANGED <<price, outside, cards, forms, calls, crashes>>
  BY DEF Activate, providerVars, auditVars, boundVars
<1>2. w \in Worker /\ work[w].at = "activate"
  BY ConstantFacts DEF Activate, At
<1>s. PICK s \in Sub : s = work[w].sub
  BY <1>2, <1>n DEF Names
<1>3. PICK r \in Remote : r = work[w].remote
  BY <1>h, <1>2 DEF Hands, ActsOn, Creates
<1>4. ActiveAt(s, r)
  <2> DEFINE new == [row[s] EXCEPT !.remote = r, !.status = "ACTIVE",
                                   !.charge = work[w].seen.charge,
                                   !.reprice = @ /\ ~work[w].reprice]
  <2>1. work[w].seen.charge \in 0..MaxPrice /\ work[w].reprice \in BOOLEAN
    BY <1>0, <1>2, WorkFields DEF Seen
  <2>2. /\ new \in Row /\ new.status = "ACTIVE" /\ new.plan = row[s].plan
        /\ new.remote = r /\ (new.reprice => row[s].reprice)
    BY <1>0, <2>1, RowFields DEF Row, Status
  <2>3. row' = [row EXCEPT ![s] = new] /\ row \in [Sub -> Row]
    BY <1>0, <1>s, <1>3 DEF Activate, TypeOK
  <2>4. dropped' \in {dropped, dropped \cup {s}} /\ (remote[r] # "active" => s \in dropped')
    BY <1>s, <1>3 DEF Activate, DroppedUnlessActive
  <2> HIDE DEF new, Row
  <2> QED
    BY <1>0, <2>2, <2>3, <2>4 DEF ActiveAt, TypeOK
<1>5. DriftsAt(w, s, r)
  <2>1. PICK charge : Drifts(w, s, r, charge)
    BY <1>s, <1>3 DEF Activate
  <2> QED
    BY <1>0, <1>2, <2>1, DriftsFrame DEF DriftsAt
<1>6. /\ work[w].reprice => row[s].status = work[w].seen.status
      /\ ~work[w].reprice => row[s].status = "ACTIVATING"
  BY <1>s DEF StillExpected
<1>7. row[s].status \notin {"NONE", "PENDING_CARD"}
  BY <1>0, <1>2, <1>6 DEF WorkKnown, Hand
<1>8. 1 \in Sub /\ w \notin Sweeper
  BY ConstantFacts
<1>9. /\ r \notin Returned /\ r \notin settledAudit
      /\ \A t \in Sub : row[t].remote = r => t = s
      /\ \A u \in Worker \ {w} : Creates(u) => work[u].remote # r
  BY <1>0, <1>s, <1>2, <1>3 DEF CreatedAlone, Creates
<1>10. \A u \in Worker \ {w} : Claimer(u) => work[u].sub # s
  <2>1. CASE work[w].reprice
    BY <1>0, <1>s, <1>2, <2>1 DEF NeverActive, WorkKnown, Hand
  <2>2. CASE ~work[w].reprice
    BY <1>0, <1>s, <1>2, <2>2 DEF ClaimsAlone, Claimer, Creates
  <2> QED
    BY <2>1, <2>2
<1>11. s \in asked => s \in Known
  <2>1. CASE work[w].reprice
    BY <1>0, <1>s, <1>2, <2>1 DEF AskedStays, NoteRead, WorkKnown, Hand
  <2>2. CASE ~work[w].reprice
    BY <1>0, <1>6, <2>2 DEF AskedStays
  <2> QED
    BY <2>1, <2>2
<1>12. row[s].status \in Live \/ s \in Known
  <2>1. row[s].status \in Status
    BY <1>0, RowFields
  <2>2. row[s].status = "CANCELED" => s \in Known
    BY <1>0, <1>2, <1>s, <1>6 DEF NotesKnown, WorkKnown, Hand
  <2> QED
    BY <1>7, <2>1, <2>2 DEF Status, Live
<1>r. Returned' = Returned
  BY <1>1 DEF Returned
<1>t. TypeOK'
  BY <1>0, <1>1, <1>4, <1>5 DEF TypeOK, DriftsAt, DoneAt, StartAt, ActiveAt
<1>A. RowsKnown'
  BY <1>0, <1>4, <1>7 DEF RowsKnown, ActiveAt
<1>B. WorkKnown'
  <2>1. ASSUME NEW u \in Worker, u # w
        PROVE  Hand(u)'
    BY <1>0, <1>n, <1>4, <1>5, <2>1
      DEF WorkKnown, Hand, Follower, Creates, ActsOn, At, Names, DriftsAt,
          DoneAt, StartAt, ActiveAt
  <2>2. Hand(w)'
    BY <1>0, <1>2, <1>3, <1>4, <1>5
      DEF WorkKnown, Hand, Follower, Creates, ActsOn, At, DriftsAt, DoneAt,
          StartAt, ActiveAt
  <2> QED
    BY <2>1, <2>2 DEF WorkKnown
<1>C. ClaimsAlone'
  BY <1>0, <1>n, <1>4, <1>5, <1>10
    DEF ClaimsAlone, Claimer, Creates, At, Names, DriftsAt, DoneAt, StartAt,
        ActiveAt
<1>D. NeverActive'
  BY <1>0, <1>n, <1>4, <1>5, <1>10
    DEF NeverActive, Claimer, Creates, At, Names, DriftsAt, DoneAt, StartAt,
        ActiveAt
<1>E. OnePendingCard'
  BY <1>0, <1>1, <1>4 DEF OnePendingCard, ActiveAt
<1>F. OneLivePerPlan'
  BY <1>0, <1>1, <1>4, <1>7, <1>12 DEF OneLivePerPlan, Known, ActiveAt
<1>G. NotesKnown'
  BY <1>0, <1>1, <1>4, <1>5
    DEF NotesKnown, Known, DriftsAt, DoneAt, StartAt, ActiveAt
<1>H. AskedStays'
  BY <1>0, <1>k, <1>1, <1>4, <1>5, <1>11
    DEF AskedStays, Known, NoteRead, DriftsAt, DoneAt, StartAt, ActiveAt
<1>I. RemotesKnown'
  BY <1>0, <1>r, <1>1, <1>2, <1>3, <1>4, <1>5
    DEF RemotesKnown, DriftsAt, DoneAt, StartAt, ActiveAt
<1>J. CreatedAlone'
  BY <1>0, <1>n, <1>h, <1>r, <1>1, <1>4, <1>5, <1>9
    DEF CreatedAlone, Creates, At, Hands, Names, DriftsAt, DoneAt, StartAt,
        ActiveAt
<1>K. ToldTruth'
  BY <1>0, <1>1, <1>5 DEF ToldTruth, At, DriftsAt, DoneAt, StartAt
<1>L. KillsNoActive'
  BY <1>0, <1>1, <1>4, <1>5, <1>9
    DEF KillsNoActive, At, DriftsAt, DoneAt, StartAt, ActiveAt
<1>M. ActiveIsCharged'
  BY <1>0, <1>n, <1>1, <1>2, <1>4, <1>5
    DEF ActiveIsCharged, Names, DriftsAt, DoneAt, StartAt, ActiveAt
<1> QED
  BY <1>t, <1>A, <1>B, <1>C, <1>D, <1>E, <1>F, <1>G, <1>H, <1>I, <1>J, <1>K,
     <1>L, <1>M
    DEF IInv

\* The row s has adopted r: it is ACTIVE, or CANCELED if the subscription of
\* the form has ended; and the worker that syncs what it was told of r.
AdoptedAt(s, r) ==
    /\ row' \in [Sub -> Row]
    /\ row'[s].status \in {"ACTIVE", "CANCELED"} /\ row'[s].plan = row[s].plan
    /\ row'[s].remote = r /\ ~row'[s].reprice
    /\ \A t \in Sub \ {s} : row'[t] = row[t]
    /\ dropped' \subseteq Sub /\ dropped \subseteq dropped'
    /\ remote[r] # "active" => s \in dropped'
SyncsAt(w, s, r) ==
    /\ work' \in [Worker -> Work]
    /\ work'[w].at = "sync" /\ work'[w].sub = s /\ work'[w].remote = r
    /\ work'[w].seen.status = "ACTIVE" /\ ~work'[w].seen.reprice /\ ~work'[w].reprice
    /\ work'[w].told = remote[r] /\ row'[s].status = "ACTIVE"
    /\ \A u \in Worker \ {w} : work'[u] = work[u]

LEMMA AdoptWonInv ==
    ASSUME IInv, NEW w \in Request, Adopt(w),
           row[work[w].sub].status = "ACTIVATING" /\ Linked(work[w].remote) \subseteq {work[w].sub}
    PROVE  IInv'
<1>0. /\ TypeOK /\ RowsKnown /\ WorkKnown /\ ClaimsAlone /\ NeverActive
      /\ OnePendingCard /\ OneLivePerPlan /\ NotesKnown /\ AskedStays
      /\ RemotesKnown /\ CreatedAlone /\ ToldTruth /\ KillsNoActive /\ ActiveIsCharged
  BY DEF IInv
<1>k. asked \subseteq Sub
  BY <1>0 DEF TypeOK
<1>n. Names
  BY <1>0, NamesKnown
<1>h. Hands
  BY <1>0, HandsKnown
<1>1. /\ UNCHANGED <<remote, tokens, audited, settledAudit, asked, repricing,
                     overwritten, putBack>>
      /\ UNCHANGED <<price, outside, cards, forms, calls, crashes>>
  BY DEF Adopt, providerVars, auditVars, boundVars
<1>2. w \in Worker /\ work[w].at = "adopt"
  BY ConstantFacts DEF Adopt, At
<1>s. PICK s \in Sub : s = work[w].sub
  BY <1>2, <1>n DEF Names
<1>3. PICK r \in Remote : r = work[w].remote
  BY <1>h, <1>2 DEF Hands, ActsOn, Creates
<1> DEFINE new(told) == [row[s] EXCEPT !.remote = r, !.charge = work[w].seen.charge,
                            !.status = IF told = "ended" THEN "CANCELED" ELSE "ACTIVE"]
           job(told) == [Idle EXCEPT !.at = "sync", !.sub = s, !.remote = r,
                                     !.seen = Read(new(told)), !.told = told]
<1>a. PICK told \in {remote[r], "active"} :
        /\ row' = [row EXCEPT ![s] = new(told)]
        /\ DroppedUnlessActive(s, r)
        /\ \/ told = "ended" /\ Done(w)
           \/ told = "active" /\ Drifts(w, s, r, new(told).charge)
           \/ told \notin {"ended", "active"} /\ Do(w, job(told))
  BY <1>s, <1>3 DEF Adopt
<1>b. /\ row[s].remote = None /\ ~row[s].reprice /\ (s \in asked => s \in Known)
      /\ row[s].status = "ACTIVATING"
      /\ \A u \in Worker \ {w} : Claimer(u) => work[u].sub # s
  BY <1>0, <1>s, <1>2 DEF ClaimsAlone, NeverActive, AskedStays, Claimer, At
<1>c. remote[r] \in RemoteStatus /\ work[w].seen.charge \in 0..MaxPrice
  BY <1>0, <1>2, WorkFields DEF TypeOK, Seen
<1>d. /\ new(told) \in Row /\ new(told).plan = row[s].plan
      /\ new(told).status = IF told = "ended" THEN "CANCELED" ELSE "ACTIVE"
      /\ new(told).remote = r /\ new(told).reprice = row[s].reprice
  BY <1>0, <1>c, RowFields DEF Row, Status
<1>4. AdoptedAt(s, r)
  <2>1. row \in [Sub -> Row] /\ dropped \subseteq Sub
    BY <1>0 DEF TypeOK
  <2>2. dropped' \in {dropped, dropped \cup {s}} /\ (remote[r] # "active" => s \in dropped')
    BY <1>a DEF DroppedUnlessActive
  <2> HIDE DEF new, Row
  <2> QED
    BY <1>a, <1>b, <1>d, <2>1, <2>2 DEF AdoptedAt
<1>5. DoneAt(w) \/ (StartAt(w, "drift", s, r) /\ row'[s].status = "ACTIVE") \/ SyncsAt(w, s, r)
  <2>0. row'[s] = new(told)
    BY <1>0, <1>a DEF TypeOK
  <2>1. CASE told = "ended"
    BY <1>0, <1>2, <1>a, <2>1, DoneFrame
  <2>2. CASE told = "active"
    <3>1. Drifts(w, s, r, new(told).charge)
      BY <1>a, <2>2
    <3>2. DoneAt(w) \/ StartAt(w, "drift", s, r)
      <4> HIDE DEF new
      <4> QED
        BY <1>0, <1>2, <3>1, DriftsFrame
    <3> QED
      BY <3>2, <2>0, <2>2, <1>d
  <2>3. CASE told \notin {"ended", "active"}
    <3>1. told = remote[r] /\ told \in RemoteStatus /\ Do(w, job(told))
      BY <1>a, <1>c, <2>3
    <3>2. /\ Read(new(told)) \in Seen /\ Read(new(told)).status = "ACTIVE"
          /\ Read(new(told)).reprice = row[s].reprice
      <4> HIDE DEF new, Row
      <4> QED
        BY <1>d, <2>3, ReadFields
    <3> HIDE DEF new
    <3>3. /\ job(told) \in Work /\ job(told).at = "sync" /\ job(told).sub = s
          /\ job(told).remote = r /\ job(told).seen = Read(new(told))
          /\ job(told).told = told /\ job(told).reprice = FALSE
      BY <3>1, <3>2, IdleWork DEF Work, Idle, Step
    <3> HIDE DEF job
    <3>4. /\ work' \in [Worker -> Work] /\ work'[w] = job(told)
          /\ \A u \in Worker \ {w} : work'[u] = work[u]
      BY <1>0, <1>2, <3>1, <3>3, DoFrame
    <3>5. row'[s].status = "ACTIVE"
      BY <2>0, <2>3, <1>d
    <3> QED
      BY <1>b, <3>1, <3>2, <3>3, <3>4, <3>5 DEF SyncsAt
  <2> QED
    BY <2>1, <2>2, <2>3
<1>6. 1 \in Sub /\ w \notin Sweeper
  BY ConstantFacts
<1>7. r \in Returned /\ r \notin settledAudit
  BY <1>0, <1>n, <1>2, <1>3 DEF CreatedAlone, RemotesKnown, Names, At
<1> HIDE DEF new, job
<1>r. Returned' = Returned
  BY <1>1 DEF Returned
<1>t. TypeOK'
  BY <1>0, <1>1, <1>4, <1>5 DEF TypeOK, DoneAt, StartAt, SyncsAt, AdoptedAt
<1>A. RowsKnown'
  BY <1>0, <1>4, <1>b DEF RowsKnown, AdoptedAt
<1>B. WorkKnown'
  <2>1. ASSUME NEW u \in Worker, u # w
        PROVE  Hand(u)'
    BY <1>0, <1>n, <1>4, <1>5, <2>1
      DEF WorkKnown, Hand, Follower, Creates, ActsOn, At, Names, DoneAt,
          StartAt, SyncsAt, AdoptedAt
  <2>2. Hand(w)'
    BY <1>0, <1>n, <1>4, <1>5, <1>6
      DEF WorkKnown, Hand, Follower, Creates, ActsOn, At, Names, DoneAt,
          StartAt, SyncsAt, AdoptedAt
  <2> QED
    BY <2>1, <2>2 DEF WorkKnown
<1>C. ClaimsAlone'
  BY <1>0, <1>n, <1>4, <1>5, <1>b
    DEF ClaimsAlone, Claimer, Creates, At, Names, DoneAt, StartAt, SyncsAt,
        AdoptedAt
<1>D. NeverActive'
  BY <1>0, <1>n, <1>4, <1>5, <1>b
    DEF NeverActive, Claimer, Creates, At, Names, DoneAt, StartAt, SyncsAt,
        AdoptedAt
<1>E. OnePendingCard'
  BY <1>0, <1>1, <1>4 DEF OnePendingCard, AdoptedAt
<1>F. OneLivePerPlan'
  BY <1>0, <1>1, <1>4, <1>b DEF OneLivePerPlan, Known, Live, AdoptedAt
<1>G. NotesKnown'
  BY <1>0, <1>1, <1>4, <1>5
    DEF NotesKnown, Known, DoneAt, StartAt, SyncsAt, AdoptedAt
<1>H. AskedStays'
  BY <1>0, <1>k, <1>1, <1>4, <1>5, <1>b
    DEF AskedStays, Known, NoteRead, DoneAt, StartAt, SyncsAt, AdoptedAt
<1>I. RemotesKnown'
  BY <1>0, <1>r, <1>1, <1>2, <1>3, <1>4, <1>5
    DEF RemotesKnown, DoneAt, StartAt, SyncsAt, AdoptedAt
<1>J. CreatedAlone'
  BY <1>0, <1>r, <1>1, <1>4, <1>5, <1>b, <1>7
    DEF CreatedAlone, Creates, At, DoneAt, StartAt, SyncsAt, AdoptedAt
<1>K. ToldTruth'
  BY <1>0, <1>1, <1>5 DEF ToldTruth, At, DoneAt, StartAt, SyncsAt
<1>L. KillsNoActive'
  BY <1>0, <1>1, <1>4, <1>5, <1>7
    DEF KillsNoActive, At, DoneAt, StartAt, SyncsAt, AdoptedAt
<1>M. ActiveIsCharged'
  BY <1>0, <1>n, <1>1, <1>4, <1>5
    DEF ActiveIsCharged, Names, DoneAt, StartAt, SyncsAt, AdoptedAt
<1> QED
  BY <1>t, <1>A, <1>B, <1>C, <1>D, <1>E, <1>F, <1>G, <1>H, <1>I, <1>J, <1>K,
     <1>L, <1>M
    DEF IInv

LEMMA AdoptInv == ASSUME IInv, NEW w \in Request, Adopt(w) PROVE IInv'
<1> DEFINE won == row[work[w].sub].status = "ACTIVATING" /\ Linked(work[w].remote) \subseteq {work[w].sub}
<1>1. CASE won
  BY <1>1, AdoptWonInv
<1>2. CASE ~won
  <2>1. /\ w \in Worker /\ Done(w) /\ work[w].at = "adopt" /\ row' = row /\ dropped' = dropped
        /\ forms \subseteq Plan
    BY <1>2, ConstantFacts DEF Adopt, IInv, TypeOK, At
  <2>2. DoneAt(w)
    BY <2>1, DoneFrame DEF IInv
  <2> QED
    BY <2>1, <2>2, IdleInv DEF Adopt, providerVars, historyVars
<1> QED
  BY <1>1, <1>2

LEMMA ClaimsInv ==
    ASSUME IInv, NEW w \in Request, NEW s \in Sub, NEW r \in Remote \cup {None}, Claims(w, s, r),
           row[s].status = "PENDING_CARD", r # None => r \in Returned,
           work[w].at \in {"idle", "card"}, calls' \in 0..MaxCall,
           UNCHANGED <<providerVars, auditVars, price, outside, crashes,
                       historyVars>>
    PROVE  IInv'
<1>0. /\ TypeOK /\ RowsKnown /\ WorkKnown /\ ClaimsAlone /\ NeverActive
      /\ OnePendingCard /\ OneLivePerPlan /\ NotesKnown /\ AskedStays
      /\ RemotesKnown /\ CreatedAlone /\ ToldTruth /\ KillsNoActive /\ ActiveIsCharged
  BY DEF IInv
<1>k. asked \subseteq Sub
  BY <1>0 DEF TypeOK
<1>n. Names
  BY <1>0, NamesKnown
<1>h. Hands
  BY <1>0, HandsKnown
<1>1. /\ UNCHANGED <<remote, tokens, audited, settledAudit, asked, repricing,
                     overwritten, putBack, dropped>>
      /\ UNCHANGED <<price, outside, cards, forms, crashes>>
  BY DEF providerVars, auditVars, historyVars
<1>2. /\ w \in Worker /\ w \notin Sweeper /\ work[w].at \in {"idle", "card"}
      /\ row[s].status = "PENDING_CARD" /\ (r # None => r \in Returned)
  BY ConstantFacts
<1> DEFINE step == IF r = None THEN "create" ELSE "adopt"
           job == [Idle EXCEPT !.sub = s, !.remote = r, !.seen.charge = price, !.at = step]
<1>3. Do(w, job) /\ row' = [row EXCEPT ![s].status = "ACTIVATING"]
  BY <1>2 DEF Claims
<1>4. /\ job \in Work /\ job.at = step /\ job.sub = s /\ job.remote = r
      /\ job.seen.status = "NONE" /\ job.seen.reprice = FALSE /\ job.reprice = FALSE
  <2>1. price \in 0..MaxPrice
    BY <1>0 DEF TypeOK
  <2>2. [Unread EXCEPT !.charge = price] \in Seen
    BY <2>1 DEF Unread, Seen, Status
  <2> QED
    BY <2>2, IdleWork DEF Work, Idle, Unread, Step
<1> HIDE DEF job, step
<1>5. StartAt(w, step, s, r)
  BY <1>0, <1>2, <1>3, <1>4, DoFrame DEF StartAt
<1>6. StatusAt(s, "ACTIVATING")
  BY <1>0, <1>3, StatusFrame DEF Status
<1>7. step = IF r = None THEN "create" ELSE "adopt"
  BY DEF step
<1>8. /\ row[s].remote = None /\ ~row[s].reprice
      /\ \A u \in Worker : work[u].sub = s =>
           /\ ~Follower(u) /\ ~Claimer(u)
           /\ work[u].seen.status = "NONE" /\ ~work[u].seen.reprice
  BY <1>0, <1>2 DEF RowsKnown, WorkKnown, Hand, Follower, ClaimsAlone
<1>9. calls' \in 0..MaxCall
  OBVIOUS
<1>r. Returned' = Returned
  BY <1>1 DEF Returned
<1>t. TypeOK'
  BY <1>0, <1>1, <1>5, <1>6, <1>9 DEF TypeOK, StartAt, StatusAt
<1>A. RowsKnown'
  BY <1>0, <1>6 DEF RowsKnown, StatusAt
<1>B. WorkKnown'
  <2>1. ASSUME NEW u \in Worker, u # w
        PROVE  Hand(u)'
    BY <1>0, <1>n, <1>5, <1>6, <2>1
      DEF WorkKnown, Hand, Follower, Creates, ActsOn, At, Names, StartAt,
          StatusAt
  <2>2. Hand(w)'
    BY <1>0, <1>2, <1>5, <1>6, <1>7
      DEF WorkKnown, Hand, Follower, Creates, ActsOn, At, StartAt, StatusAt
  <2> QED
    BY <2>1, <2>2 DEF WorkKnown
<1>C. ClaimsAlone'
  BY <1>0, <1>n, <1>5, <1>6, <1>8
    DEF ClaimsAlone, Claimer, Creates, At, Names, StartAt, StatusAt
<1>D. NeverActive'
  BY <1>0, <1>n, <1>5, <1>6, <1>8
    DEF NeverActive, Claimer, Creates, At, Names, StartAt, StatusAt, Follower
<1>E. OnePendingCard'
  BY <1>0, <1>1, <1>6 DEF OnePendingCard, StatusAt
<1>F. OneLivePerPlan'
  BY <1>0, <1>1, <1>6 DEF OneLivePerPlan, Known, Live, StatusAt
<1>G. NotesKnown'
  BY <1>0, <1>1, <1>5, <1>6, <1>8 DEF NotesKnown, Known, StartAt, StatusAt
<1>H. AskedStays'
  BY <1>0, <1>k, <1>1, <1>5, <1>6
    DEF AskedStays, Known, NoteRead, StartAt, StatusAt
<1>I. RemotesKnown'
  BY <1>0, <1>r, <1>1, <1>5, <1>6 DEF RemotesKnown, StartAt, StatusAt
<1>J. CreatedAlone'
  BY <1>0, <1>r, <1>1, <1>5, <1>6, <1>7, <1>8
    DEF CreatedAlone, Creates, At, StartAt, StatusAt
<1>K. ToldTruth'
  BY <1>0, <1>1, <1>5, <1>7 DEF ToldTruth, At, StartAt
<1>L. KillsNoActive'
  BY <1>0, <1>1, <1>5, <1>6, <1>7 DEF KillsNoActive, At, StartAt, StatusAt
<1>M. ActiveIsCharged'
  BY <1>0, <1>n, <1>1, <1>5, <1>6 DEF ActiveIsCharged, Names, StartAt, StatusAt
<1> QED
  BY <1>t, <1>A, <1>B, <1>C, <1>D, <1>E, <1>F, <1>G, <1>H, <1>I, <1>J, <1>K,
     <1>L, <1>M
    DEF IInv

LEMMA CustomerCardInv == ASSUME IInv, NEW w \in Request, CustomerCard(w) PROVE IInv'
<1>1. /\ TypeOK /\ w \in Worker /\ work[w].at = "card"
  BY ConstantFacts DEF IInv, CustomerCard, At
<1>2. PICK s \in Sub : s = work[w].sub
  BY <1>1, WorkFields
<1>3. CASE DoneAt(w) /\ row' = row
  <2>1. row[s].plan \in Plan
    BY <1>1, RowFields
  <2>2. forms' \subseteq Plan
    BY <1>1, <1>2, <2>1 DEF CustomerCard, TypeOK
  <2> QED
    BY <1>1, <1>3, <2>2, IdleInv DEF CustomerCard
<1>4. CASE Claims(w, s, None) /\ row[s].status = "PENDING_CARD" /\ forms' = forms
  <2>1. calls' \in 0..MaxCall /\ UNCHANGED <<providerVars, auditVars, price,
                                             outside, crashes, historyVars>>
    BY <1>1, <1>2, <1>4, ConstantFacts
       DEF CustomerCard, TypeOK, boundVars, providerVars
  <2> QED
    BY <1>1, <1>4, <2>1, ClaimsInv
<1>5. \/ Done(w) /\ row' = row
      \/ Claims(w, s, None) /\ row[s].status = "PENDING_CARD" /\ forms' = forms
  BY <1>2 DEF CustomerCard, Claims, Done
<1> QED
  BY <1>1, <1>3, <1>4, <1>5, DoneFrame

LEMMA ReturnInv ==
    ASSUME IInv, NEW w \in Request, NEW t \in tokens, Return(w, t)
    PROVE  IInv'
<1> DEFINE waiting == {s \in Sub : row[s].status = "PENDING_CARD"}
<1>1. PICK s \in Sub : row[s].status = "PENDING_CARD" /\ s = Newest(waiting)
  <2>1. waiting \in SUBSET Sub /\ waiting # {}
    BY DEF Return
  <2> HIDE DEF waiting
  <2>2. Newest(waiting) \in waiting
    BY <2>1, NewestExists
  <2> QED
    BY <2>2 DEF waiting
<1>2. t[2] \in Returned /\ t[2] \in Remote \cup {None}
  BY NamesKnown DEF Returned, IInv, Names
<1>3. Claims(w, s, t[2])
  BY <1>1 DEF Return
<1>4. /\ calls' \in 0..MaxCall /\ work[w].at = "idle"
      /\ UNCHANGED <<providerVars, auditVars, price, outside, crashes,
                     historyVars>>
  BY CalledCounts, ConstantFacts DEF Return, IInv
<1> QED
  BY <1>1, <1>2, <1>3, <1>4, ClaimsInv

LEMMA SyncInv ==
    ASSUME IInv, NEW w \in Request, Sync(w)
    PROVE  IInv'
<1>0. /\ TypeOK /\ RowsKnown /\ WorkKnown /\ ClaimsAlone /\ NeverActive
      /\ OnePendingCard /\ OneLivePerPlan /\ NotesKnown /\ AskedStays
      /\ RemotesKnown /\ CreatedAlone /\ ToldTruth /\ KillsNoActive /\ ActiveIsCharged
  BY DEF IInv
<1>k. asked \subseteq Sub
  BY <1>0 DEF TypeOK
<1>n. Names
  BY <1>0, NamesKnown
<1>h. Hands
  BY <1>0, HandsKnown
<1>1. /\ UNCHANGED <<remote, tokens, audited, settledAudit, asked, repricing,
                     putBack, dropped>>
      /\ UNCHANGED <<price, outside, cards, forms, calls, crashes>>
  BY DEF Sync, providerVars, auditVars, boundVars
<1>2. w \in Worker /\ work[w].at = "sync" /\ w \notin Sweeper
  BY ConstantFacts DEF Sync, At
<1>s. PICK s \in Sub : s = work[w].sub
  BY <1>2, <1>n DEF Names
<1>3. PICK r \in Remote : r = work[w].remote
  BY <1>h, <1>2 DEF Hands, ActsOn, Creates
<1>4. PICK seen \in Seen : seen = work[w].seen
  BY <1>0, <1>2, WorkFields
<1>5. PICK target \in Status : target = SyncedStatus(seen, work[w].told)
  BY DEF SyncedStatus, Seen, Status
<1>6. /\ seen.status \notin {"NONE", "PENDING_CARD"}
      /\ target \in {"CANCELED", "CANCEL_PENDING", seen.status}
      /\ target = "ACTIVE" => seen.status = "ACTIVE"
      /\ target = "CANCEL_PENDING" => seen.status \in {"ACTIVE", "CANCEL_PENDING"}
      /\ target = "CANCELED" => ~seen.reprice \/ seen.status = "CANCELED"
      /\ target # "CANCELED" => target = seen.status \/ seen.status = "ACTIVE"
  BY <1>0, <1>2, <1>4, <1>5 DEF WorkKnown, Hand, Sync, SyncedStatus
<1>7. \/ /\ StatusAt(s, target)
         /\ overwritten' = IF Stale(w) /\ row[s].status # target
                             THEN overwritten \cup {s} ELSE overwritten
      \/ RowsSame /\ row' = row /\ overwritten' = overwritten
  <2>1. CASE row' = [row EXCEPT ![s].status = target]
    BY <1>0, <1>s, <1>4, <1>5, <2>1, StatusFrame DEF Sync, RowsSame
  <2> QED
    BY <1>s, <1>4, <1>5, <2>1 DEF Sync, RowsSame
<1>8. /\ row[s].status # seen.status => Stale(w)
      /\ row[s].reprice # seen.reprice => Stale(w)
      /\ row[s].status \notin {"NONE", "PENDING_CARD"} /\ row[s].remote # None
  <2>1. Read(row[s]).status = row[s].status /\ Read(row[s]).reprice = row[s].reprice
    BY <1>0, ReadFields, RowFields
  <2>2. row[s].status \notin {"NONE", "PENDING_CARD"} /\ row[s].remote # None
    BY <1>0, <1>2, <1>s DEF WorkKnown, Hand, Follower, RowsKnown
  <2> QED
    BY <1>s, <1>4, <2>1, <2>2 DEF Stale
<1>9. DoneAt(w) \/ (StartAt(w, "drift", s, r) /\ seen.status = "ACTIVE")
  <2> DEFINE priced == target = "ACTIVE" /\ work[w].told = "active" /\ ~seen.reprice
  <2>1. Drifts(w, s, r, IF priced THEN seen.charge ELSE price)
    BY <1>s, <1>3, <1>4, <1>5 DEF Sync
  <2>2. DoneAt(w) \/ (priced /\ StartAt(w, "drift", s, r))
    <3>1. CASE priced
      <4> HIDE DEF priced
      <4> QED
        BY <1>0, <1>2, <2>1, <3>1, DriftsFrame
    <3>2. CASE ~priced
      <4>1. Drifts(w, s, r, price)
        BY <2>1, <3>2
      <4> HIDE DEF priced
      <4> QED
        BY <1>0, <1>2, <4>1, DriftsFrame
    <3> QED
      BY <3>1, <3>2
  <2> QED
    BY <2>2, <1>6
<1>10. 1 \in Sub
  BY ConstantFacts
<1>11. /\ seen.status = "ACTIVE" =>
            /\ \A u \in Worker : Claimer(u) => work[u].sub # s
       /\ seen.reprice /\ seen.status = "CANCELED" => s \in Known
  BY <1>0, <1>2, <1>s, <1>4 DEF NeverActive, NotesKnown
<1>12. row[s].reprice \in BOOLEAN /\ seen.reprice \in BOOLEAN /\ row[s].status \in Status
  BY <1>0, RowFields DEF Seen
<1>13. overwritten \subseteq overwritten' /\ overwritten' \subseteq Sub
  BY <1>0, <1>7 DEF TypeOK
<1>r. Returned' = Returned
  BY <1>1 DEF Returned
<1>t. TypeOK'
  BY <1>0, <1>1, <1>7, <1>9, <1>13 DEF TypeOK, DoneAt, StartAt, StatusAt
<1>A. RowsKnown'
  BY <1>0, <1>6, <1>7, <1>8 DEF RowsKnown, StatusAt
<1>B. WorkKnown'
  <2>1. ASSUME NEW u \in Worker, u # w
        PROVE  Hand(u)'
    BY <1>0, <1>n, <1>6, <1>7, <1>9, <2>1
      DEF WorkKnown, Hand, Follower, Creates, ActsOn, At, Names, DoneAt,
          StartAt, StatusAt
  <2>2. Hand(w)'
    BY <1>0, <1>2, <1>3, <1>6, <1>7, <1>8, <1>9
      DEF WorkKnown, Hand, Follower, Creates, ActsOn, At, DoneAt, StartAt,
          StatusAt
  <2> QED
    BY <2>1, <2>2 DEF WorkKnown
<1>C. ClaimsAlone'
  BY <1>0, <1>n, <1>6, <1>7, <1>9
    DEF ClaimsAlone, Claimer, Creates, At, Names, DoneAt, StartAt, StatusAt
<1>D. NeverActive'
  BY <1>0, <1>n, <1>6, <1>7, <1>9, <1>11
    DEF NeverActive, Claimer, Creates, At, Names, DoneAt, StartAt, StatusAt
<1>E. OnePendingCard'
  BY <1>0, <1>1, <1>6, <1>7 DEF OnePendingCard, StatusAt
<1>F. OneLivePerPlan'
  BY <1>0, <1>1, <1>6, <1>7, <1>8 DEF OneLivePerPlan, Known, Live, StatusAt
<1>G. NotesKnown'
  <2>1. ASSUME row'[s].reprice, row'[s].status \in {"CANCELED", "ACTIVATING"}
        PROVE  s \in Known'
    BY <1>0, <1>1, <1>6, <1>7, <1>8, <2>1 DEF NotesKnown, Known, StatusAt
  <2>2. \A t \in Sub \ {s} : row'[t].reprice /\ row'[t].status \in {"CANCELED", "ACTIVATING"}
                               => t \in Known'
    BY <1>0, <1>1, <1>7 DEF NotesKnown, Known, StatusAt
  <2>3. \A u \in Worker : work'[u].seen.reprice /\ work'[u].seen.status = "CANCELED"
                            => work'[u].sub \in Known'
    BY <1>0, <1>1, <1>9, <1>13 DEF NotesKnown, Known, DoneAt, StartAt
  <2> QED
    BY <2>1, <2>2, <2>3 DEF NotesKnown
<1>H. AskedStays'
  BY <1>0, <1>k, <1>1, <1>6, <1>7, <1>8, <1>9
    DEF AskedStays, Known, NoteRead, DoneAt, StartAt, StatusAt
<1>I. RemotesKnown'
  BY <1>0, <1>r, <1>1, <1>3, <1>7, <1>9
    DEF RemotesKnown, DoneAt, StartAt, StatusAt
<1>J. CreatedAlone'
  BY <1>0, <1>n, <1>h, <1>r, <1>1, <1>3, <1>7, <1>9
    DEF CreatedAlone, Creates, At, Hands, Names, DoneAt, StartAt, StatusAt
<1>K. ToldTruth'
  BY <1>0, <1>1, <1>9 DEF ToldTruth, At, DoneAt, StartAt
<1>L. KillsNoActive'
  BY <1>0, <1>1, <1>6, <1>7, <1>8, <1>9
    DEF KillsNoActive, At, DoneAt, StartAt, StatusAt
<1>M. ActiveIsCharged'
  BY <1>0, <1>n, <1>1, <1>2, <1>6, <1>7, <1>8, <1>9
    DEF ActiveIsCharged, Names, DoneAt, StartAt, StatusAt
<1> QED
  BY <1>t, <1>A, <1>B, <1>C, <1>D, <1>E, <1>F, <1>G, <1>H, <1>I, <1>J, <1>K,
     <1>L, <1>M
    DEF IInv

LEMMA SubscribeLockedInv ==
    ASSUME IInv, NEW w \in Request, NEW p \in Plan, SubscribeLocked(w, p)
    PROVE  IInv'
<1>0. /\ TypeOK /\ RowsKnown /\ WorkKnown /\ ClaimsAlone /\ NeverActive
      /\ OnePendingCard /\ OneLivePerPlan /\ NotesKnown /\ AskedStays
      /\ RemotesKnown /\ CreatedAlone /\ ToldTruth /\ KillsNoActive /\ ActiveIsCharged
  BY DEF IInv
<1>k. asked \subseteq Sub
  BY <1>0 DEF TypeOK
<1>n. Names
  BY <1>0, NamesKnown
<1>h. Hands
  BY <1>0, HandsKnown
<1>1. /\ UNCHANGED <<remote, tokens, audited, settledAudit, asked, repricing,
                     overwritten, putBack, dropped>>
      /\ UNCHANGED <<price, outside, cards, forms, crashes>>
  BY DEF SubscribeLocked, providerVars, auditVars, historyVars
<1>2. w \in Worker /\ w \notin Sweeper /\ work[w].at = "idle" /\ calls' \in 0..MaxCall
  BY <1>0, CalledCounts, ConstantFacts DEF SubscribeLocked
<1> DEFINE own == LiveOf(p)
           reuse == {s \in own : s = Newest(own) /\ Reusable(s)}
           gone == Replaced(p) \ reuse
           canceled == [s \in Sub |-> IF s \in gone
                          THEN [row[s] EXCEPT !.status = "CANCELED"] ELSE row[s]]
           blank == [Blank EXCEPT !.status = "PENDING_CARD", !.plan = p, !.fresh = TRUE]
<1>3. PICK s \in Sub :
        /\ \/ s \in reuse /\ row' = canceled
           \/ /\ reuse = {} /\ row[s].status = "NONE"
              /\ \A t \in Sub : t < s => row[t].status # "NONE"
              /\ row' = [canceled EXCEPT ![s] = blank]
        /\ Do(w, [Idle EXCEPT !.at = "card", !.sub = s])
  BY DEF SubscribeLocked
<1>4. StartAt(w, "card", s, None)
  <2> DEFINE job == [Idle EXCEPT !.at = "card", !.sub = s]
  <2>1. /\ job \in Work /\ job.at = "card" /\ job.sub = s /\ job.remote = None
        /\ job.seen = Unread /\ job.reprice = FALSE
    BY IdleWork DEF Work, Step, Idle
  <2>2. Do(w, job)
    BY <1>3
  <2> HIDE DEF job
  <2> QED
    BY <1>0, <1>2, <2>1, <2>2, DoFrame, IdleWork DEF StartAt
<1>5. own \in SUBSET Sub /\ gone \subseteq Sub
  BY DEF LiveOf, Replaced
<1>6. own # {} => /\ Newest(own) \in own
                  /\ \A t \in own : t <= Newest(own)
  <2> HIDE DEF own
  <2> QED
    BY <1>5, NewestExists
<1>7. \A t \in gone : row[t].status \in {"PENDING_CARD", "ACTIVATING"}
  BY DEF Replaced, Overdue
<1>8. \A t \in Sub : row[t].status = "PENDING_CARD" => t \in gone \/ t \in reuse
  BY DEF Replaced
<1>9. own # {} => \/ Newest(own) \in gone
                  \/ Newest(own) \in reuse
  <2> SUFFICES ASSUME own # {} PROVE Newest(own) \in gone \/ Newest(own) \in reuse
    OBVIOUS
  <2>1. Newest(own) \in LiveOf(p) /\ ~Refuses(Newest(own)) /\ Newest(own) = Newest(LiveOf(p))
    BY <1>6 DEF SubscribeLocked
  <2>2. row[Newest(own)].status \in {"PENDING_CARD", "ACTIVATING"}
    BY <2>1 DEF LiveOf, Live, Refuses
  <2>3. Newest(own) \in Sub
    BY <1>5, <1>6
  <2>4. Newest(own) \in Replaced(p)
    BY <2>1, <2>2, <2>3 DEF Replaced, Overdue
  <2> QED
    BY <2>4
<1>10. \A t \in reuse : t \in own /\ t = Newest(own) /\ row[t].status = "PENDING_CARD"
  BY DEF Reusable
<1>11. \A t \in own : row[t].plan = p
  BY DEF LiveOf
<1>12. \A t \in Sub : row[t].plan = p /\ row[t].status \in Live => t \in own
  BY DEF LiveOf
<1>13. /\ blank \in Row /\ blank.status = "PENDING_CARD" /\ blank.plan = p
       /\ blank.remote = None /\ blank.reprice = FALSE
  BY BlankRow DEF Blank, Row, Status
<1>14. canceled \in [Sub -> Row]
  <2>1. \A t \in Sub : row[t] \in Row /\ [row[t] EXCEPT !.status = "CANCELED"] \in Row
    BY <1>0, RowFields DEF Row, Status
  <2> HIDE DEF gone, Row
  <2> QED
    BY <2>1
<1>15. \A t \in Sub : /\ canceled[t].status = IF t \in gone THEN "CANCELED" ELSE row[t].status
                      /\ canceled[t].plan = row[t].plan /\ canceled[t].remote = row[t].remote
                      /\ canceled[t].reprice = row[t].reprice
  <2> TAKE t \in Sub
  <2> DEFINE new == [row[t] EXCEPT !.status = "CANCELED"]
  <2>1. /\ new.status = "CANCELED" /\ new.plan = row[t].plan
        /\ new.remote = row[t].remote /\ new.reprice = row[t].reprice
    BY <1>0, RowFields DEF Row
  <2>2. canceled[t] = IF t \in gone THEN new ELSE row[t]
    OBVIOUS
  <2> HIDE DEF new, gone, canceled
  <2> QED
    BY <2>1, <2>2
<1> HIDE DEF canceled, blank, gone, reuse, own
<1>16. row' \in [Sub -> Row]
  BY <1>3, <1>13, <1>14
<1>17. s \in reuse \/ (reuse = {} /\ row[s].status = "NONE" /\ row'[s].status = "PENDING_CARD"
                      /\ row'[s].plan = p /\ row'[s].remote = None /\ ~row'[s].reprice
                      /\ \A t \in Sub : t < s => row[t].status # "NONE")
  BY <1>3, <1>13, <1>14
<1>18. \A t \in Sub : t # s \/ s \in reuse =>
         /\ row'[t].status = IF t \in gone THEN "CANCELED" ELSE row[t].status
         /\ row'[t].plan = row[t].plan /\ row'[t].remote = row[t].remote
         /\ row'[t].reprice = row[t].reprice
  BY <1>3, <1>10, <1>14, <1>15
<1>19. /\ \A t \in gone : row[t].status \in {"PENDING_CARD", "ACTIVATING"} /\ t \notin reuse
       /\ \A t \in Sub : row[t].status = "PENDING_CARD" => t \in gone \/ t \in reuse
       /\ \A t \in reuse : t \in own /\ t = Newest(own) /\ row[t].status = "PENDING_CARD"
       /\ \A t \in own : row[t].plan = p /\ t <= Newest(own) /\ t \in Sub
       /\ own # {} => Newest(own) \in own
       /\ \A t \in Sub : row[t].plan = p /\ row[t].status \in Live => t \in own
       /\ own # {} => Newest(own) \in gone \/ Newest(own) \in reuse
  BY <1>5, <1>6, <1>7, <1>8, <1>9, <1>10, <1>11, <1>12 DEF gone
<1>20. s \notin reuse => \A u \in Worker : work[u].sub = s => work[u].at \in {"idle", "kill"}
  BY <1>0, <1>17 DEF WorkKnown, Hand
<1>21. row[s].status = "NONE" => row[s].remote = None /\ ~row[s].reprice
  BY <1>0 DEF RowsKnown
<1>r. Returned' = Returned
  BY <1>1 DEF Returned
<1>t. TypeOK'
  BY <1>0, <1>1, <1>2, <1>4, <1>16 DEF TypeOK, StartAt
<1>A. RowsKnown'
  BY <1>0, <1>17, <1>18, <1>19 DEF RowsKnown
<1>B. WorkKnown'
  <2>1. ASSUME NEW u \in Worker, u # w
        PROVE  Hand(u)'
    BY <1>0, <1>n, <1>4, <1>17, <1>18, <2>1
      DEF WorkKnown, Hand, Follower, Creates, ActsOn, At, Names, StartAt
  <2>2. Hand(w)'
    BY <1>0, <1>2, <1>4, <1>17, <1>18, <1>19
      DEF WorkKnown, Hand, Follower, Creates, ActsOn, At, StartAt
  <2> QED
    BY <2>1, <2>2 DEF WorkKnown
<1>C. ClaimsAlone'
  BY <1>0, <1>n, <1>4, <1>18, <1>20
    DEF ClaimsAlone, Claimer, Creates, At, Names, StartAt
<1>D. NeverActive'
  BY <1>0, <1>n, <1>4, <1>17, <1>18
    DEF NeverActive, Claimer, Creates, At, Names, StartAt
<1>E. OnePendingCard'
  BY <1>0, <1>17, <1>18, <1>19 DEF OnePendingCard
<1>F. OneLivePerPlan'
  <2> SUFFICES ASSUME NEW t \in Sub, NEW u \in Sub, t < u, row'[t].plan = row'[u].plan,
                      row'[u].status # "NONE", row'[t].status \in Live
               PROVE  t \in Known'
    BY DEF OneLivePerPlan
  <2>0. Known' = Known /\ t # u /\ t \in Nat /\ u \in Nat /\ s \in Nat
    BY <1>1, ConstantFacts DEF Known
  <2>1. CASE s \in reuse
    BY <1>0, <1>18, <1>19, <2>0, <2>1 DEF OneLivePerPlan, Live
  <2>2. CASE s \notin reuse /\ t # s /\ u # s
    BY <1>0, <1>18, <1>19, <2>0, <2>2 DEF OneLivePerPlan, Live
  <2>3. CASE s \notin reuse /\ t = s
    <3>1. row[u].status = "NONE" /\ u \notin gone
      BY <1>0, <1>17, <1>19, <2>0, <2>3 DEF RowsKnown
    <3> QED
      BY <1>18, <2>0, <2>3, <3>1
  <2>4. CASE s \notin reuse /\ u = s
    <3>1. reuse = {} /\ row[t].plan = p /\ row[t].status \in Live /\ t \notin gone
      BY <1>17, <1>18, <2>0, <2>4 DEF Live
    <3>2. /\ t \in own /\ Newest(own) \in own /\ Newest(own) \in gone
          /\ t <= Newest(own)
      BY <1>19, <3>1
    <3>3. PICK q \in Sub : q = Newest(own)
      BY <1>19, <3>2
    <3>4. t < q /\ row[q].plan = p /\ row[q].status # "NONE"
      <4>1. q \in gone /\ q \in own /\ t # q /\ t <= q /\ q \in Nat
        BY <3>1, <3>2, <3>3, ConstantFacts
      <4>2. t < q
        BY <2>0, <4>1
      <4> QED
        BY <1>19, <4>1, <4>2
    <3> QED
      BY <1>0, <2>0, <3>1, <3>4 DEF OneLivePerPlan
  <2> QED
    BY <2>1, <2>2, <2>3, <2>4
<1>G. NotesKnown'
  BY <1>0, <1>1, <1>4, <1>17, <1>18, <1>19
    DEF NotesKnown, Known, StartAt, RowsKnown
<1>H. AskedStays'
  BY <1>0, <1>k, <1>1, <1>4, <1>17, <1>18
    DEF AskedStays, Known, NoteRead, StartAt
<1>I. RemotesKnown'
  BY <1>0, <1>r, <1>1, <1>4, <1>17, <1>18 DEF RemotesKnown, StartAt
<1>J. CreatedAlone'
  BY <1>0, <1>n, <1>h, <1>r, <1>1, <1>4, <1>17, <1>18
    DEF CreatedAlone, Creates, At, Hands, Names, StartAt
<1>K. ToldTruth'
  BY <1>0, <1>1, <1>4 DEF ToldTruth, At, StartAt
<1>L. KillsNoActive'
  BY <1>0, <1>1, <1>4, <1>17, <1>18 DEF KillsNoActive, At, StartAt
<1>M. ActiveIsCharged'
  BY <1>0, <1>n, <1>1, <1>2, <1>4, <1>17, <1>18
    DEF ActiveIsCharged, Names, StartAt
<1> QED
  BY <1>t, <1>A, <1>B, <1>C, <1>D, <1>E, <1>F, <1>G, <1>H, <1>I, <1>J, <1>K,
     <1>L, <1>M
    DEF IInv


LEMMA NextInv == ASSUME IInv, [Next]_vars PROVE IInv'
<1>1. ASSUME NEW w \in Request, RequestStep(w) PROVE IInv'
  <2>1. CASE \E p \in Plan : SubscribeLocked(w, p)
    BY <2>1, SubscribeLockedInv
  <2>2. CASE \E t \in tokens : Return(w, t)
    BY <2>2, ReturnInv
  <2>3. CASE \E s \in Sub : CancelRead(w, s) \/ CancelAgain(w, s) \/ ReconcileRead(w, s)
    BY <2>3, CancelReadInv, CancelAgainInv, ReconcileReadInv
  <2>4. CASE Activate(w)
    BY <2>4, ActivateWonInv, ActivateLostInv
  <2>5. CASE CustomerCard(w) \/ Create(w) \/ CreateThrows(w) \/ Link(w) \/ Compensate(w) \/ Adopt(w)
    BY <2>5, CustomerCardInv, CreateInv, CreateThrowsInv, LinkInv,
       CompensateInv, AdoptInv
  <2>6. CASE Drop(w) \/ EndRemote(w) \/ EndThrows(w) \/ Ended(w)
    BY <2>6, DropInv, EndRemoteInv, EndThrowsInv, EndedInv
  <2>7. CASE Fetch(w) \/ Sync(w) \/ SyncReprice(w) \/ Flag(w) \/ Undo(w)
    BY <2>7, FetchInv, SyncInv, SyncRepriceInv, FlagInv, UndoInv
  <2> QED
    BY <1>1, <2>1, <2>2, <2>3, <2>4, <2>5, <2>6, <2>7 DEF RequestStep
<1>2. ASSUME NEW w \in Sweeper, SweepStep(w) PROVE IInv'
  <2>1. w \in Worker
    BY ConstantFacts
  <2> QED
    BY <1>2, <2>1, SweepReadInv, KillInv, KillThrowsInv DEF SweepStep
<1>3. ASSUME \E r \in Remote : PeriodEnds(r) \/ EndsOutside(r) \/ AuditAges(r)
      PROVE IInv'
  BY <1>3, PeriodEndsInv, EndsOutsideInv, AuditAgesInv
<1>4. ASSUME \E p \in Plan : CompleteForm(p) PROVE IInv'
  BY <1>4, CompleteFormInv
<1>5. ASSUME \E w \in Worker : Crash(w) PROVE IInv'
  BY <1>5, CrashInv
<1>6. ASSUME \E s \in Sub : RowAges(s) PROVE IInv'
  BY <1>6, RowAgesInv
<1> QED
  BY <1>1, <1>2, <1>3, <1>4, <1>5, <1>6, PriceChangesInv, StutterInv DEF Next

-----------------------------------------------------------------------------
(* What a step may do to a row that has been in force.                     *)

\* The steps that write the status of a row which is neither new nor waits.
Settles(s) ==
    \E w \in Request :
        /\ work[w].sub = s
        /\ \/ Drop(w) \/ Ended(w) \/ Undo(w) \/ Sync(w)
           \/ Activate(w) /\ StillExpected(w)

LEMMA ClaimsMoves ==
    ASSUME TypeOK, NEW w \in Request, NEW q \in Sub, NEW r, Claims(w, q, r),
           NEW s \in Sub, row'[s].status # row[s].status
    PROVE  row[s].status = "PENDING_CARD"
<1>1. row[q].status = "PENDING_CARD" /\ row' = [row EXCEPT ![q].status = "ACTIVATING"]
  BY DEF Claims
<1>2. StatusAt(q, "ACTIVATING")
  BY <1>1, StatusFrame DEF Status
<1> QED
  BY <1>1, <1>2 DEF StatusAt

LEMMA StatusMoves ==
    ASSUME IInv, [Next]_vars, NEW s \in Sub, row'[s].status # row[s].status,
           row[s].status \in {"ACTIVE", "CANCEL_PENDING", "CANCELED"}
    PROVE  Settles(s)
<1>0. TypeOK /\ row' # row /\ row \in [Sub -> Row] /\ Names
  BY NamesKnown DEF IInv, TypeOK
<1>1. ASSUME NEW w \in Request, RequestStep(w) PROVE Settles(s)
  <2>0. w \in Worker /\ work[w].sub \in Sub
    BY <1>0, ConstantFacts DEF Names
  <2>1. ASSUME NEW p \in Plan, SubscribeLocked(w, p) PROVE FALSE
    <3>1. PICK q \in Sub, canceled \in [Sub -> Row] :
            /\ \A u \in Sub : canceled[u].status = row[u].status \/ u \in Replaced(p)
            /\ \/ row' = canceled
               \/ row[q].status = "NONE" /\ \A u \in Sub \ {q} : row'[u] = canceled[u]
      <4> DEFINE own == LiveOf(p)
                 reuse == {u \in own : u = Newest(own) /\ Reusable(u)}
                 canceled == [u \in Sub |-> IF u \in Replaced(p) \ reuse
                                THEN [row[u] EXCEPT !.status = "CANCELED"] ELSE row[u]]
                 blank == [Blank EXCEPT !.status = "PENDING_CARD", !.plan = p, !.fresh = TRUE]
      <4>1. \A u \in Sub : row[u] \in Row /\ [row[u] EXCEPT !.status = "CANCELED"] \in Row
        BY <1>0, RowFields DEF Row, Status
      <4>2. canceled \in [Sub -> Row]
        <5> HIDE DEF Row, reuse
        <5> QED
          BY <4>1
      <4>3. \A u \in Sub : canceled[u].status = row[u].status \/ u \in Replaced(p)
        OBVIOUS
      <4>4. PICK q \in Sub :
              \/ row' = canceled
              \/ row[q].status = "NONE" /\ row' = [canceled EXCEPT ![q] = blank]
        BY <2>1 DEF SubscribeLocked
      <4> HIDE DEF canceled, blank, reuse, own
      <4> QED
        BY <4>2, <4>3, <4>4
    <3>2. \A u \in Replaced(p) : row[u].status \in {"PENDING_CARD", "ACTIVATING"}
      BY DEF Replaced, Overdue
    <3> QED
      BY <3>1, <3>2
  <2>2. CASE CustomerCard(w)
    BY <1>0, <2>0, <2>2, ClaimsMoves DEF CustomerCard
  <2>3. ASSUME NEW t \in tokens, Return(w, t) PROVE FALSE
    <3> DEFINE waiting == {q \in Sub : row[q].status = "PENDING_CARD"}
    <3>1. waiting \in SUBSET Sub /\ waiting # {} /\ Claims(w, Newest(waiting), t[2])
      BY <2>3 DEF Return
    <3> HIDE DEF waiting
    <3>2. Newest(waiting) \in Sub
      BY <3>1, NewestExists
    <3> QED
      BY <1>0, <3>1, <3>2, ClaimsMoves
  <2>4. CASE CreateThrows(w)
    <3>1. /\ row[work[w].sub].status = "ACTIVATING"
          /\ row' = [row EXCEPT ![work[w].sub].status = "PENDING_CARD"]
      BY <1>0, <2>4 DEF CreateThrows
    <3>2. StatusAt(work[w].sub, "PENDING_CARD")
      BY <1>0, <2>0, <3>1, StatusFrame DEF Status
    <3> QED
      BY <2>0, <3>1, <3>2 DEF StatusAt
  <2>5. CASE Link(w)
    <3>1. row'[s].status = row[s].status
      BY <1>0, <2>0, <2>5, RowFields DEF Link, Row
    <3> QED
      BY <3>1
  <2>6. CASE Activate(w)
    <3>1. StillExpected(w) /\ \A u \in Sub \ {work[w].sub} : row'[u] = row[u]
      BY <1>0, <2>6 DEF Activate
    <3> QED
      BY <2>6, <3>1 DEF Settles
  <2>7. CASE Adopt(w)
    <3>1. /\ row[work[w].sub].status = "ACTIVATING"
          /\ \A u \in Sub \ {work[w].sub} : row'[u] = row[u]
      BY <1>0, <2>7 DEF Adopt
    <3> QED
      BY <3>1
  <2>8. CASE Drop(w) \/ Ended(w) \/ Undo(w) \/ Sync(w)
    <3>1. \A u \in Sub \ {work[w].sub} : row'[u] = row[u]
      BY <1>0, <2>8 DEF Drop, Ended, Undo, Sync
    <3> QED
      BY <2>8, <3>1 DEF Settles
  <2>9. CASE Flag(w)
    <3>1. row'[s].status = row[s].status
      BY <1>0, <2>0, <2>9, RowFields DEF Flag, Row
    <3> QED
      BY <3>1
  <2>10. CASE \/ Create(w) \/ Compensate(w) \/ EndRemote(w) \/ EndThrows(w) \/ Fetch(w)
              \/ SyncReprice(w)
              \/ \E q \in Sub : CancelRead(w, q) \/ CancelAgain(w, q) \/ ReconcileRead(w, q)
    BY <1>0, <2>10
       DEF Create, Compensate, EndRemote, EndThrows, Fetch, SyncReprice, CancelRead,
           CancelAgain, ReconcileRead
  <2> QED
    BY <1>1, <2>1, <2>2, <2>3, <2>4, <2>5, <2>6, <2>7, <2>8, <2>9, <2>10
      DEF RequestStep
<1>2. ASSUME NEW w \in Sweeper, SweepStep(w) PROVE FALSE
  <2>1. Kill(w)
    BY <1>0, <1>2 DEF SweepStep, SweepRead, KillThrows
  <2> QED
    BY <2>1 DEF Kill
<1>3. ASSUME NEW q \in Sub, RowAges(q) PROVE FALSE
  BY <1>0, <1>3, RowFields DEF RowAges, Row
<1>4. row' # row => /\ ~ \E w \in Worker : Crash(w)
                    /\ ~ \E p \in Plan : CompleteForm(p)
                    /\ ~ \E r \in Remote : PeriodEnds(r) \/ EndsOutside(r) \/ AuditAges(r)
                    /\ ~PriceChanges /\ ~UNCHANGED vars
  BY DEF Crash, CompleteForm, PeriodEnds, EndsOutside, AuditAges, PriceChanges, vars
<1> QED
  BY <1>0, <1>1, <1>2, <1>3, <1>4 DEF Next

LEMMA OverwrittenGrows == ASSUME [Next]_vars PROVE overwritten \subseteq overwritten'
<1>1. ASSUME NEW w \in Request, RequestStep(w) PROVE overwritten \subseteq overwritten'
  <2>1. CASE \E p \in Plan : SubscribeLocked(w, p)
    BY <2>1 DEF SubscribeLocked, historyVars
  <2>2. CASE \E t \in tokens : Return(w, t)
    BY <2>2 DEF Return, historyVars
  <2>3. CASE \E s \in Sub : CancelRead(w, s) \/ CancelAgain(w, s) \/ ReconcileRead(w, s)
    BY <2>3 DEF CancelRead, CancelAgain, ReconcileRead, historyVars
  <2>4. CASE \/ CustomerCard(w) \/ Create(w) \/ CreateThrows(w) \/ Link(w) \/ Activate(w)
             \/ Compensate(w) \/ Adopt(w)
    BY <2>4
      DEF CustomerCard, Create, CreateThrows, Link, Activate, Compensate,
          Adopt, historyVars
  <2>5. CASE Drop(w) \/ EndRemote(w) \/ EndThrows(w) \/ Fetch(w) \/ SyncReprice(w) \/ Flag(w)
    BY <2>5
      DEF Drop, EndRemote, EndThrows, Fetch, SyncReprice, Flag, historyVars
  <2>6. CASE Ended(w) \/ Sync(w) \/ Undo(w)
    BY <2>6 DEF Ended, Sync, Undo
  <2> QED
    BY <1>1, <2>1, <2>2, <2>3, <2>4, <2>5, <2>6 DEF RequestStep
<1>2. ASSUME NEW w \in Sweeper, SweepStep(w) PROVE overwritten' = overwritten
  BY <1>2 DEF SweepStep, SweepRead, Kill, KillThrows, historyVars
<1>3. CASE UNCHANGED vars
  BY <1>3 DEF vars, historyVars
<1> QED
  BY <1>1, <1>2, <1>3
     DEF Next, Crash, CompleteForm, PeriodEnds, EndsOutside, AuditAges, RowAges,
         PriceChanges, historyVars

-----------------------------------------------------------------------------
(* The theorems.                                                           *)

\* Every variable keeps its type, whichever requests overlap or die.
THEOREM TypeCorrect == Spec => []TypeOK
<1>1. IInv => TypeOK
  BY DEF IInv
<1> QED
  BY <1>1, InitInv, NextInv, PTL DEF Spec

\* subscribe and customerReturn: whatever overlaps, at most one row of the
\* person waits for a card, but for the rows that a failed create put back.
THEOREM OneCardPending == Spec => []OnePendingCard
<1>1. IInv => OnePendingCard
  BY DEF IInv
<1> QED
  BY <1>1, InitInv, NextInv, PTL DEF Spec

\* subscribe under its lock: two rows of a plan are in force at once only over
\* a status that was written stale or the reprice of a canceled row.
THEOREM OneInForcePerPlan == Spec => []OneMembershipPerPlan
<1>1. IInv => OneMembershipPerPlan
  <2> SUFFICES ASSUME IInv, NEW s \in Sub, NEW t \in Sub, s # t, row[s].plan = row[t].plan,
                      {row[s].status, row[t].status}
                        \subseteq {"ACTIVATING", "ACTIVE", "CANCEL_PENDING"}
               PROVE  {s, t} \cap (overwritten \cup repricing) # {}
    BY DEF OneMembershipPerPlan
  <2>1. s < t \/ t < s
    BY ConstantFacts
  <2>2. OneLivePerPlan
    BY DEF IInv
  <2>3. /\ row[s].status \in Live /\ row[t].status \in Live
        /\ row[s].status # "NONE" /\ row[t].status # "NONE"
    BY DEF Live
  <2>4. s \in Known \/ t \in Known
    BY <2>1, <2>2, <2>3 DEF OneLivePerPlan
  <2> QED
    BY <2>4 DEF Known
<1> QED
  BY <1>1, InitInv, NextInv, PTL DEF Spec

\* reconcileSubscription, cancel and ensureRemotePrice: an ACTIVE row ends
\* only where its owner asked, its remote one was ended outside the platform,
\* or a reprice lost or failed what it noted.
THEOREM EndsOnRequest == Spec => EndsOnlyIfAsked
<1>1. ASSUME IInv, [Next]_vars, NEW s \in Sub, row[s].status = "ACTIVE",
             row'[s].status \in {"CANCEL_PENDING", "CANCELED"}
      PROVE  \/ s \in asked' \cup dropped \cup overwritten'
             \/ row[s].remote \in outside
             \/ \E w \in Request :
                  work[w].at \in {"ended", "flag", "undo"} /\ work[w].sub = s
  <2>1. Settles(s)
    BY <1>1, StatusMoves
  <2>2. PICK w \in Request :
          /\ work[w].sub = s
          /\ \/ Drop(w) \/ Ended(w) \/ Undo(w) \/ Sync(w)
             \/ Activate(w) /\ StillExpected(w)
    BY <2>1 DEF Settles
  <2>3. CASE Drop(w) \/ Ended(w)
    BY <2>2, <2>3 DEF Drop, Ended, Answered
  <2>4. CASE Undo(w)
    BY <2>2, <2>4 DEF Undo, At
  <2>5. CASE Activate(w) /\ StillExpected(w)
    <3>1. row'[s].status = "ACTIVE"
      <4>1. /\ row[s] \in Row /\ row \in [Sub -> Row]
            /\ row' = [row EXCEPT ![s] =
                 [row[s] EXCEPT !.remote = work[w].remote, !.status = "ACTIVE",
                                !.charge = work[w].seen.charge,
                                !.reprice = @ /\ ~work[w].reprice]]
        BY <1>1, <2>2, <2>5, RowFields DEF Activate, IInv, TypeOK
      <4> QED
        BY <4>1 DEF Row
    <3> QED
      BY <1>1, <3>1
  <2>6. CASE Sync(w)
    <3> DEFINE target == SyncedStatus(work[w].seen, work[w].told)
    <3>1. /\ TypeOK /\ ToldTruth /\ ActiveIsCharged /\ WorkKnown /\ w \in Worker
          /\ work[w].at = "sync" /\ work[w].remote # None
      BY <1>1, <2>6, ConstantFacts DEF IInv, Sync, At, WorkKnown, Hand, ActsOn
    <3>2. row'[s].status = target
          /\ overwritten' = IF Stale(w) /\ row[s].status # target
                              THEN overwritten \cup {s} ELSE overwritten
      <4>1. row' = [row EXCEPT ![s].status = target]
        BY <1>1, <2>2, <2>6 DEF Sync
      <4>2. target \in Status
        BY <1>1, <2>2, <3>1, WorkFields DEF SyncedStatus, Seen, Status
      <4>3. StatusAt(s, target)
        <5> HIDE DEF target
        <5> QED
          BY <3>1, <4>1, <4>2, StatusFrame
      <4> QED
        BY <1>1, <2>2, <2>6, <4>3 DEF Sync, StatusAt
    <3>3. CASE Stale(w)
      BY <1>1, <3>2, <3>3
    <3>4. CASE ~Stale(w)
      <4>1. Read(row[s]) = work[w].seen /\ row[s].remote = work[w].remote
        BY <2>2, <3>4 DEF Stale
      <4>2. work[w].seen.status = "ACTIVE" /\ work[w].seen.reprice = row[s].reprice
        BY <1>1, <3>1, <4>1, ReadFields, RowFields
      <4>3. work[w].told \in {"ended", "ending"} /\ ~row[s].reprice
        BY <1>1, <2>6, <3>2, <4>2 DEF SyncedStatus, Sync
      <4>4. remote[row[s].remote] # "active"
        BY <3>1, <4>1, <4>3 DEF ToldTruth, At
      <4>5. \/ s \in asked \cup dropped \cup overwritten
            \/ row[s].remote \in outside
            \/ \E u \in Request : work[u].at \in {"ended", "flag", "undo"} /\ work[u].sub = s
        BY <1>1, <3>1, <4>1, <4>3, <4>4 DEF ActiveIsCharged
      <4>6. asked' = asked /\ overwritten \subseteq overwritten'
        BY <1>1, <2>6, OverwrittenGrows DEF Sync
      <4> QED
        BY <4>5, <4>6
    <3> QED
      BY <3>3, <3>4
  <2> QED
    BY <2>2, <2>3, <2>4, <2>5, <2>6
<1>2. IInv /\ [Next]_vars
      => [\A s \in Sub :
            /\ row[s].status = "ACTIVE"
            /\ row'[s].status \in {"CANCEL_PENDING", "CANCELED"}
            => \/ s \in asked' \cup dropped \cup overwritten'
               \/ row[s].remote \in outside
               \/ \E w \in Request :
                    work[w].at \in {"ended", "flag", "undo"} /\ work[w].sub = s]_vars
  BY <1>1
<1> QED
  BY <1>2, InitInv, NextInv, PTL DEF Spec, EndsOnlyIfAsked

\* Activate, Adopt and Sync: a row whose cancellation was answered becomes
\* ACTIVE again only over a noted reprice or a status that was written stale.
THEOREM StaysCanceled == Spec => RevivedOnlyByReprice
<1>1. ASSUME IInv, [Next]_vars, NEW s \in asked, row[s].status # "ACTIVE",
             row'[s].status = "ACTIVE"
      PROVE  s \in repricing \cup overwritten'
  <2>1. CASE s \in Known
    BY <1>1, <2>1, OverwrittenGrows DEF Known
  <2>2. CASE s \notin Known
    <3>1. s \in Sub /\ TypeOK /\ WorkKnown
      BY <1>1 DEF IInv, TypeOK
    <3>2. row[s].status \in {"CANCEL_PENDING", "CANCELED"} /\ ~NoteRead(s)
      BY <1>1, <2>2 DEF IInv, AskedStays
    <3>3. Settles(s)
      BY <1>1, <3>1, <3>2, StatusMoves
    <3>4. PICK w \in Request :
            /\ work[w].sub = s
            /\ \/ Drop(w) \/ Ended(w) \/ Undo(w) \/ Sync(w)
               \/ Activate(w) /\ StillExpected(w)
      BY <3>3 DEF Settles
    <3>5. CASE Drop(w) \/ Ended(w) \/ Undo(w)
      <4>1. row'[s].status # "ACTIVE"
        BY <3>1, <3>4, <3>5 DEF Drop, Ended, Undo, TypeOK, Row
      <4> QED
        BY <1>1, <4>1
    <3>6. CASE Activate(w) /\ StillExpected(w)
      <4>1. work[w].reprice
        BY <3>2, <3>4, <3>6 DEF StillExpected
      <4>2. NoteRead(s)
        BY <3>1, <3>4, <4>1, ConstantFacts DEF WorkKnown, Hand, NoteRead
      <4> QED
        BY <3>2, <4>2
    <3>7. CASE Sync(w)
      <4> DEFINE target == SyncedStatus(work[w].seen, work[w].told)
      <4>1. /\ w \in Worker /\ row' = [row EXCEPT ![s].status = target]
            /\ overwritten' = IF Stale(w) /\ row[s].status # target
                                THEN overwritten \cup {s} ELSE overwritten
        BY <1>1, <3>4, <3>7, ConstantFacts DEF Sync
      <4>2. target = "ACTIVE"
        <5>1. target \in Status
          BY <3>1, <4>1, WorkFields DEF SyncedStatus, Seen, Status
        <5>2. StatusAt(s, target)
          <6> HIDE DEF target
          <6> QED
            BY <3>1, <4>1, <5>1, StatusFrame
        <5> QED
          BY <1>1, <5>2 DEF StatusAt
      <4>3. work[w].seen.status = "ACTIVE"
        BY <4>2 DEF SyncedStatus
      <4>4. Stale(w)
        <5>1. Read(row[s]).status = row[s].status
          BY <3>1, ReadFields, RowFields
        <5> QED
          BY <3>2, <3>4, <4>3, <5>1 DEF Stale
      <4> QED
        BY <3>2, <4>1, <4>2, <4>4
    <3> QED
      BY <3>4, <3>5, <3>6, <3>7
  <2> QED
    BY <2>1, <2>2
<1>2. IInv /\ [Next]_vars
      => [\A s \in asked :
            row[s].status # "ACTIVE" /\ row'[s].status = "ACTIVE"
            => s \in repricing \cup overwritten']_vars
  BY <1>1
<1> QED
  BY <1>2, InitInv, NextInv, PTL DEF Spec, RevivedOnlyByReprice

=============================================================================
