-------------------------- MODULE JobRunnerProofs --------------------------
(***************************************************************************)
(* Proofs about JobRunner, for any jobs, instances, ticks and requests:    *)
(* the mutex of a job is the run's own until a sync takes it, what a crash *)
(* leaves is cleared by the instance that starts again, and the row that a *)
(* worker has read is the current one until an edit overlaps.              *)
(***************************************************************************)
EXTENDS JobRunner, TLAPS

\* The run of a job whose mutex no sync took holds the mutex.
RunHoldsMutex ==
    \A j \in Job \ stolen : \A w \in Worker : Runs(w, j) => holder[j] = w

\* What a crash leaves is there only while an instance has not come to the
\* statement of its sync that clears it.
Uncleared == {"down", "rows", "flags", "runs", "unsynced"}
CrashIsCleared ==
    \A j \in Job :
        /\ holder[j] = Gone => \E p \in Process : boot[p] # "up"
        /\ j \in zombies =>
             \/ \E p \in Process : boot[p] \in Uncleared
             \/ \E p \in Process : j \notin handles[p]

\* Unless an edit of it overlapped, the row that a worker has in hand has the
\* schedule of the job, and so has the nextRunAt in it.
SeenIsCurrent ==
    \A j \in Job \ raced : \A w \in Worker : InHand(w, j) =>
        /\ seen[w][j].cron = row[j].cron
        /\ seen[w][j].next.cron = row[j].cron

\* Who is idle, or edits, has no list.
OnlyTicksHaveLists ==
    \A w \in Worker : pc[w] \in {"idle", "edit"} => todo[w] = {}

IInv ==
    /\ TypeOK /\ OnlyTicksHaveLists
    /\ RunHoldsMutex
    /\ CrashIsCleared
    /\ ScheduleIsCurrent /\ SeenIsCurrent

USE DEF runVars, jobVars, processVars, workerVars, faultVars, boundVars, historyVars

-----------------------------------------------------------------------------
\* The next minute of a schedule is a minute.
LEMMA NextAtTyped ==
    ASSUME NEW c \in Cron, NEW t \in Nat
    PROVE  NextAt(c, t) \in NextRun /\ NextAt(c, t).cron = c
<1>1. c \in Nat \ {0}
  BY ConstantsAssumption
<1>2. t \div c \in Int /\ t \div c >= 0
  BY <1>1
<1>3. c * (t \div c + 1) \in Nat
  <2> DEFINE d == t \div c
  <2>1. d \in Nat
    BY <1>2
  <2> HIDE DEF d
  <2>2. c * (d + 1) \in Nat
    BY <1>1, <2>1
  <2>3. QED
    BY <2>2 DEF d
<1>4. QED
  BY <1>3 DEF NextAt, NextRun

LEMMA BlankTyped == FirstJob \in Job /\ NoRows \in [Job -> Row]
<1>1. (CHOOSE c \in Cron : TRUE) \in Cron
  BY ConstantsAssumption
<1>2. QED
  BY <1>1, ConstantsAssumption DEF FirstJob, NoRows, Blank, Row, NextRun

\* What a run's end writes to nextRunAt comes from the schedule that it read.
LEMMA NextOfTyped ==
    ASSUME TypeOK, NEW r \in Row
    PROVE  /\ NextOf(r) \in NextRun
           /\ r.next.cron = r.cron => NextOf(r).cron = r.cron
<1>1. r.cron \in Cron /\ r.next \in NextRun /\ now \in Nat
  BY DEF Row, TypeOK
<1>2. QED
  BY <1>1, NextAtTyped DEF NextOf

\* A worker that leaves a job keeps the rows of the jobs that are left.
LEMMA LeaveFrame ==
    ASSUME TypeOK, NEW w \in Worker, NEW left \in SUBSET Job, Leave(w, left)
    PROVE  /\ pc' \in [Worker -> Step] /\ current' \in [Worker -> Job]
           /\ seen' \in [Worker -> [Job -> Row]]
           /\ pc'[w] \in {"idle", "list"}
           /\ \A j \in left : seen'[w][j] = seen[w][j]
           /\ \A v \in Worker \ {w} : /\ pc'[v] = pc[v]
                                      /\ current'[v] = current[v]
                                      /\ seen'[v] = seen[v]
<1>1. FirstJob \in Job /\ Blank \in Row
  BY BlankTyped, ConstantsAssumption DEF Blank, Row, NextRun
<1>2. pc' \in [Worker -> Step] /\ current' \in [Worker -> Job]
        /\ pc'[w] \in {"idle", "list"}
        /\ \A v \in Worker \ {w} : pc'[v] = pc[v] /\ current'[v] = current[v]
  BY <1>1 DEF Leave, Goto, TypeOK, Step
<1>3. /\ seen' \in [Worker -> [Job -> Row]]
      /\ \A j \in left : seen'[w][j] = seen[w][j]
      /\ \A v \in Worker \ {w} : seen'[v] = seen[v]
  BY <1>1 DEF Leave, TypeOK
<1>4. QED
  BY <1>2, <1>3

-----------------------------------------------------------------------------
LEMMA InitInv == Init => IInv
<1> SUFFICES ASSUME Init PROVE IInv
  OBVIOUS
<1>1. \A c \in Cron : NextAt(c, 0) \in NextRun /\ NextAt(c, 0).cron = c
  BY NextAtTyped
<1>2. /\ row \in [Job -> Row]
      /\ \A j \in Job : row[j].next.cron = row[j].cron
  <2>1. ASSUME NEW j \in Job
        PROVE  row[j] \in Row /\ row[j].next.cron = row[j].cron
    <3>1. PICK c \in Cron :
            row[j] = [enabled |-> TRUE, cron |-> c, next |-> NextAt(c, 0)]
      BY DEF Init
    <3>2. QED
      BY <1>1, <3>1 DEF Row
  <2>2. QED
    BY <2>1 DEF Init
<1>3. TypeOK
  BY <1>2, BlankTyped, ConstantsAssumption DEF Init, TypeOK, Step
<1>4. OnlyTicksHaveLists /\ RunHoldsMutex /\ CrashIsCleared
        /\ SeenIsCurrent
  BY ConstantsAssumption
     DEF Init, OnlyTicksHaveLists, RunHoldsMutex, Runs, CrashIsCleared, SeenIsCurrent, InHand
<1>5. QED
  BY <1>2, <1>3, <1>4 DEF IInv, ScheduleIsCurrent

\* Every step is the clock's, a worker's or an instance's.
LEMMA Steps ==
    ASSUME Next
    PROVE  \/ Minute
           \/ \E w \in Worker : ReadDue(w) \/ Claim(w) \/ HandlerEnds(w)
                                  \/ Release(w)
           \/ \E w \in Worker, j \in Job : Begin(w, j) \/ RunNow(w, j)
           \/ \E w \in Worker, j \in Job : EditRead(w, j) \/ BeginThrows(w, j)
           \/ \E w \in Worker : Throw(w)
           \/ \E w \in Worker, c \in Cron, e \in BOOLEAN : EditWrite(w, c, e)
           \/ \E p \in Process : Crash(p)
           \/ \E p \in Process : Restart(p) \/ SyncRows(p) \/ SyncFlags(p)
                                   \/ SyncRuns(p) \/ SyncMutex(p) \/ SyncThrows(p)
  BY DEF Next, WorkerStep, ProcessStep

LEMMA TypeStep == TypeOK /\ Next => TypeOK'
<1> SUFFICES ASSUME TypeOK, Next PROVE TypeOK'
  OBVIOUS
<1>1. CASE Minute
  BY <1>1 DEF Minute, TypeOK
<1>2. ASSUME NEW w \in Worker, ReadDue(w) PROVE TypeOK'
  <2>1. Blank \in Row
    BY ConstantsAssumption DEF Blank, Row, NextRun
  <2>2. seen' \in [Worker -> [Job -> Row]] /\ todo' \in [Worker -> SUBSET Job]
    BY <1>2, <2>1 DEF ReadDue, TypeOK
  <2>3. pc' \in [Worker -> Step]
    BY <1>2 DEF ReadDue, Goto, TypeOK, Step
  <2>4. QED
    BY <1>2, <2>2, <2>3 DEF ReadDue, TypeOK
<1>3. ASSUME NEW w \in Worker, Claim(w) PROVE TypeOK'
  <2>1. CASE holder[current[w]] = Nobody
    <3>1. /\ holder' = [holder EXCEPT ![current[w]] = w]
          /\ pc' = [pc EXCEPT ![w] = "running"]
          /\ UNCHANGED <<current, seen>>
      BY <1>3, <2>1 DEF Claim, Goto
    <3>2. /\ holder' \in [Job -> Worker \cup {Nobody, Gone, Stuck}]
          /\ pc' \in [Worker -> Step]
      BY <3>1 DEF TypeOK, Step
    <3>3. QED
      BY <1>3, <3>1, <3>2 DEF Claim, TypeOK
  <2>2. CASE holder[current[w]] # Nobody
    <3>1. Leave(w, todo[w]) /\ UNCHANGED holder
      BY <1>3, <2>2 DEF Claim
    <3>2. QED
      BY <1>3, <3>1, LeaveFrame DEF Claim, TypeOK
  <2>3. QED
    BY <2>1, <2>2
<1>4. ASSUME NEW w \in Worker, HandlerEnds(w) PROVE TypeOK'
  <2>1. pc' \in [Worker -> Step]
    BY <1>4 DEF HandlerEnds, Goto, TypeOK, Step
  <2>2. QED
    BY <1>4, <2>1 DEF HandlerEnds, TypeOK
<1>5. ASSUME NEW w \in Worker, Release(w) PROVE TypeOK'
  <2>1. current[w] \in Job /\ seen[w][current[w]] \in Row
    BY DEF TypeOK
  <2>2. NextOf(seen[w][current[w]]) \in NextRun
    BY <2>1, NextOfTyped
  <2>3. row' \in [Job -> Row]
    <3> HIDE DEF NextOf
    <3>1. QED
      BY <1>5, <2>1, <2>2 DEF Release, TypeOK, Row
  <2>4. holder' \in [Job -> Worker \cup {Nobody, Gone, Stuck}]
    BY <1>5 DEF Release, TypeOK
  <2>5. QED
    BY <1>5, <2>3, <2>4, LeaveFrame DEF Release, TypeOK
<1>6. ASSUME NEW w \in Worker, NEW j \in Job, Begin(w, j) PROVE TypeOK'
  <2>1. todo' \in [Worker -> SUBSET Job]
    BY <1>6 DEF Begin, TypeOK
  <2>2. CASE j \in handles[HomeOf[w]]
    <3>1. /\ current' = [current EXCEPT ![w] = j]
          /\ pc' = [pc EXCEPT ![w] = "claim"]
          /\ UNCHANGED <<seen, zombies>>
      BY <1>6, <2>2 DEF Begin, Goto
    <3>2. current' \in [Worker -> Job] /\ pc' \in [Worker -> Step]
      BY <3>1 DEF TypeOK, Step
    <3>3. QED
      BY <1>6, <2>1, <3>1, <3>2 DEF Begin, TypeOK
  <2>3. CASE j \notin handles[HomeOf[w]]
    <3>1. Leave(w, todo[w] \ {j}) /\ todo[w] \ {j} \in SUBSET Job
      BY <1>6, <2>3 DEF Begin, TypeOK
    <3>2. QED
      BY <1>6, <2>1, <2>3, <3>1, LeaveFrame DEF Begin, TypeOK
  <2>4. QED
    BY <2>2, <2>3
<1>7. ASSUME NEW w \in Worker, NEW j \in Job, RunNow(w, j) PROVE TypeOK'
  <2>1. CASE j \in handles[HomeOf[w]]
    <3>1. /\ current' = [current EXCEPT ![w] = j]
          /\ pc' = [pc EXCEPT ![w] = "claim"]
          /\ seen' = [seen EXCEPT ![w][j] = row[j]]
          /\ UNCHANGED zombies
      BY <1>7, <2>1 DEF RunNow, Goto
    <3>2. current' \in [Worker -> Job] /\ pc' \in [Worker -> Step]
      BY <3>1 DEF TypeOK, Step
    <3>3. seen' \in [Worker -> [Job -> Row]]
      BY <3>1 DEF TypeOK
    <3>4. QED
      BY <1>7, <3>1, <3>2, <3>3 DEF RunNow, TypeOK
  <2>2. CASE j \notin handles[HomeOf[w]]
    BY <1>7, <2>2 DEF RunNow, TypeOK
  <2>3. QED
    BY <2>1, <2>2
<1>8. ASSUME NEW w \in Worker, NEW j \in Job, EditRead(w, j) PROVE TypeOK'
  BY <1>8 DEF EditRead, Goto, TypeOK, Step
<1>9. ASSUME NEW w \in Worker, NEW c \in Cron, NEW e \in BOOLEAN,
             EditWrite(w, c, e)
      PROVE  TypeOK'
  <2> DEFINE j == current[w]
             r == seen[w][j]
             next == IF c # r.cron \/ e THEN NextAt(c, now) ELSE r.next
  <2>1. j \in Job /\ r \in Row /\ now \in Nat
    BY DEF TypeOK
  <2>2. next \in NextRun
    BY <2>1, NextAtTyped DEF Row
  <2>3. row' = [row EXCEPT ![j] = [enabled |-> e, cron |-> c, next |-> next]]
    BY <1>9 DEF EditWrite
  <2> HIDE DEF next
  <2>4. row' \in [Job -> Row]
    BY <2>1, <2>2, <2>3 DEF TypeOK, Row
  <2>5. raced' \subseteq Job /\ Leave(w, {})
    BY <1>9, <2>1 DEF EditWrite, TypeOK
  <2>6. QED
    BY <1>9, <2>4, <2>5, LeaveFrame DEF EditWrite, TypeOK
<1>10. ASSUME NEW p \in Process, Crash(p) PROVE TypeOK'
  <2>1. /\ pc' \in [Worker -> Step] /\ current' \in [Worker -> Job]
        /\ seen' \in [Worker -> [Job -> Row]]
        /\ todo' \in [Worker -> SUBSET Job]
    BY <1>10, BlankTyped DEF Crash, TypeOK, Step
  <2>2. holder' \in [Job -> Worker \cup {Nobody, Gone, Stuck}]
    BY <1>10 DEF Crash, TypeOK
  <2>3. boot' \in [Process -> {"up", "unsynced", "down"} \cup Starting]
    BY <1>10 DEF Crash, TypeOK
  <2>4. zombies' \subseteq Job /\ crashes' \in Nat
    BY <1>10 DEF Crash, TypeOK
  <2>5. QED
    BY <1>10, <2>1, <2>2, <2>3, <2>4 DEF Crash, TypeOK
<1>11. ASSUME NEW p \in Process,
              \/ Restart(p) \/ SyncRows(p) \/ SyncFlags(p) \/ SyncRuns(p)
              \/ SyncMutex(p) \/ SyncThrows(p)
       PROVE  TypeOK'
  <2>1. boot' \in [Process -> {"up", "unsynced", "down"} \cup Starting]
    BY <1>11
       DEF Restart, SyncRows, SyncFlags, SyncRuns, SyncMutex, SyncThrows, Boot,
           Starting, TypeOK
  <2>2. handles' \in [Process -> Registry] /\ orphaned' \subseteq Job
    BY <1>11
       DEF Restart, SyncRows, SyncFlags, SyncRuns, SyncMutex, SyncThrows, Boot, TypeOK
  <2>3. QED
    BY <1>11, <2>1, <2>2
       DEF Restart, SyncRows, SyncFlags, SyncRuns, SyncMutex, SyncThrows, Throws,
           Boot, TypeOK
<1>12. ASSUME NEW w \in Worker, Throw(w) PROVE TypeOK'
  <2>1. Leave(w, todo[w]) /\ todo[w] \in SUBSET Job /\ current[w] \in Job
    BY <1>12 DEF Throw, TypeOK
  <2>2. holder' \in [Job -> Worker \cup {Nobody, Gone, Stuck}]
    BY <1>12, <2>1 DEF Throw, TypeOK
  <2>3. thrown' \subseteq Job
    BY <1>12, <2>1 DEF Throw, TypeOK
  <2>4. QED
    BY <1>12, <2>1, <2>2, <2>3, LeaveFrame DEF Throw, Throws, TypeOK
<1>13. ASSUME NEW w \in Worker, NEW j \in Job, BeginThrows(w, j) PROVE TypeOK'
  <2>1. Leave(w, todo[w] \ {j}) /\ todo[w] \ {j} \in SUBSET Job
    BY <1>13 DEF BeginThrows, TypeOK
  <2>2. todo' \in [Worker -> SUBSET Job]
    BY <1>13 DEF BeginThrows, TypeOK
  <2>3. QED
    BY <1>13, <2>1, <2>2, LeaveFrame DEF BeginThrows, Throws, TypeOK
<1>14. QED
  BY Steps, <1>1, <1>2, <1>3, <1>4, <1>5, <1>6, <1>7, <1>8, <1>9, <1>10,
     <1>11, <1>12, <1>13

-----------------------------------------------------------------------------
\* A worker comes to a run only by its claim, and leaves it by freeing the
\* mutex, or dead.
LEMMA MutexStep == TypeOK /\ RunHoldsMutex /\ Next => RunHoldsMutex'
<1> SUFFICES ASSUME TypeOK, RunHoldsMutex, Next,
                    NEW j \in Job \ stolen', NEW v \in Worker, Runs(v, j)'
             PROVE  holder'[j] = v
  BY DEF RunHoldsMutex
<1>0. stolen \subseteq stolen'
  BY Steps
     DEF Minute, ReadDue, Claim, HandlerEnds, Release, Begin, RunNow, EditRead,
         EditWrite, Crash, Restart, SyncRows, SyncFlags, SyncRuns, SyncMutex,
         SyncThrows, Throw, BeginThrows, Boot
<1>1. Runs(v, j) => holder[j] = v
  BY <1>0 DEF RunHoldsMutex
<1>2. ASSUME NEW w \in Worker, Claim(w) PROVE holder'[j] = v
  <2>1. CASE holder[current[w]] = Nobody
    <3>1. /\ holder' = [holder EXCEPT ![current[w]] = w]
          /\ pc' = [pc EXCEPT ![w] = "running"] /\ UNCHANGED current
      BY <1>2, <2>1 DEF Claim, Goto
    <3>2. CASE v = w
      BY <3>1, <3>2 DEF Runs, TypeOK
    <3>3. CASE v # w
      BY <1>1, <2>1, <3>1, <3>3, ConstantsAssumption DEF Runs, TypeOK
    <3>4. QED
      BY <3>2, <3>3
  <2>2. CASE holder[current[w]] # Nobody
    <3>1. Leave(w, todo[w]) /\ UNCHANGED holder /\ todo[w] \in SUBSET Job
      BY <1>2, <2>2 DEF Claim, TypeOK
    <3>2. v # w /\ pc'[v] = pc[v] /\ current'[v] = current[v]
      BY <3>1, LeaveFrame DEF Runs
    <3>3. QED
      BY <1>1, <3>1, <3>2 DEF Runs
  <2>3. QED
    BY <2>1, <2>2
<1>3. ASSUME NEW w \in Worker, Release(w) PROVE holder'[j] = v
  <2>1. v # w /\ pc'[v] = pc[v] /\ current'[v] = current[v]
    <3>1. Leave(w, todo[w]) /\ todo[w] \in SUBSET Job
      BY <1>3 DEF Release, TypeOK
    <3>2. QED
      BY <3>1, LeaveFrame DEF Runs
  <2>2. holder[j] = v
    BY <1>1, <2>1 DEF Runs
  <2>3. current[w] # j
    BY <1>0, <1>3, <2>1, <2>2 DEF Release, Runs, RunHoldsMutex
  <2>4. QED
    BY <1>3, <2>2, <2>3 DEF Release, TypeOK
<1>4. ASSUME NEW w \in Worker, NEW i \in Job, Begin(w, i)
      PROVE  holder'[j] = v
  <2>1. UNCHANGED holder /\ pc[w] = "list"
    BY <1>4 DEF Begin
  <2>2. CASE v = w
    <3>1. pc'[w] \in {"claim", "idle", "list"}
      BY <1>4 DEF Begin, Goto, Leave, TypeOK
    <3>2. QED
      BY <2>2, <3>1 DEF Runs
  <2>3. CASE v # w
    BY <1>1, <1>4, <2>1, <2>3 DEF Begin, Goto, Leave, Runs, TypeOK
  <2>4. QED
    BY <2>2, <2>3
<1>5. ASSUME NEW w \in Worker, NEW i \in Job, RunNow(w, i) \/ EditRead(w, i)
      PROVE  holder'[j] = v
  BY <1>1, <1>5 DEF RunNow, EditRead, Goto, Runs, TypeOK
<1>6. ASSUME NEW w \in Worker, ReadDue(w) \/ HandlerEnds(w)
      PROVE  holder'[j] = v
  BY <1>1, <1>6 DEF ReadDue, HandlerEnds, Goto, Runs, TypeOK
<1>7. ASSUME NEW w \in Worker, NEW c \in Cron, NEW e \in BOOLEAN,
             EditWrite(w, c, e)
      PROVE  holder'[j] = v
  <2>1. Leave(w, {}) /\ UNCHANGED holder
    BY <1>7 DEF EditWrite
  <2>2. v # w /\ pc'[v] = pc[v] /\ current'[v] = current[v]
    BY <2>1, LeaveFrame DEF Runs
  <2>3. QED
    BY <1>1, <2>1, <2>2 DEF Runs
<1>8. ASSUME NEW p \in Process, Crash(p) PROVE holder'[j] = v
  <2>1. HomeOf[v] # p /\ Runs(v, j)
    BY <1>8 DEF Crash, Runs, TypeOK
  <2>2. QED
    BY <1>1, <1>8, <2>1 DEF Crash, TypeOK
<1>9. ASSUME NEW p \in Process, SyncMutex(p) PROVE holder'[j] = v
  BY <1>1, <1>9 DEF SyncMutex, Boot, Runs, TypeOK
<1>10. ASSUME \/ Minute
              \/ \E p \in Process : Restart(p) \/ SyncRows(p) \/ SyncFlags(p)
                                       \/ SyncRuns(p) \/ SyncThrows(p)
       PROVE  holder'[j] = v
  BY <1>1, <1>10
     DEF Minute, Restart, SyncRows, SyncFlags, SyncRuns, SyncThrows, Boot, Runs
<1>11. ASSUME NEW w \in Worker, Throw(w) PROVE holder'[j] = v
  <2>1. v # w /\ Runs(v, j)
    <3>1. Leave(w, todo[w]) /\ todo[w] \in SUBSET Job
      BY <1>11 DEF Throw, TypeOK
    <3>2. QED
      BY <3>1, LeaveFrame DEF Runs
  <2>2. holder[j] = v
    BY <1>1, <2>1
  <2>3. holder'[j] = holder[j]
    BY <1>11, <2>1, <2>2, ConstantsAssumption DEF Throw, TypeOK
  <2>4. QED
    BY <2>2, <2>3
<1>12. ASSUME NEW w \in Worker, NEW i \in Job, BeginThrows(w, i)
       PROVE  holder'[j] = v
  <2>1. v # w /\ Runs(v, j) /\ UNCHANGED holder
    <3>1. Leave(w, todo[w] \ {i}) /\ todo[w] \ {i} \in SUBSET Job
      BY <1>12 DEF BeginThrows, TypeOK
    <3>2. QED
      BY <1>12, <3>1, LeaveFrame DEF Runs, BeginThrows
  <2>2. QED
    BY <1>1, <2>1
<1>13. QED
  BY Steps, <1>2, <1>3, <1>4, <1>5, <1>6, <1>7, <1>8, <1>9, <1>10, <1>11, <1>12

\* What a crash leaves is cleared by the instance that starts again.
LEMMA CrashStep == TypeOK /\ CrashIsCleared /\ Next => CrashIsCleared'
<1> SUFFICES ASSUME TypeOK, CrashIsCleared, Next, NEW j \in Job
             PROVE  /\ holder'[j] = Gone => \E p \in Process : boot'[p] # "up"
                    /\ j \in zombies' =>
                         \/ \E p \in Process : boot'[p] \in Uncleared
                         \/ \E p \in Process : j \notin handles'[p]
  BY DEF CrashIsCleared
<1> USE DEF CrashIsCleared, Uncleared
<1>1. ASSUME NEW p \in Process, Crash(p) PROVE boot'[p] = "down"
  BY <1>1 DEF Crash, TypeOK
<1>2. ASSUME NEW p \in Process,
             Restart(p) \/ SyncRows(p) \/ SyncFlags(p) \/ SyncThrows(p)
      PROVE  /\ boot'[p] \in {"rows", "flags", "runs", "unsynced"}
             /\ UNCHANGED <<holder, zombies>>
  BY <1>2 DEF Restart, SyncRows, SyncFlags, SyncThrows, Boot, TypeOK
<1>3. ASSUME NEW p \in Process, SyncRuns(p)
      PROVE  boot'[p] = "mutex" /\ zombies' = {} /\ UNCHANGED holder
  BY <1>3 DEF SyncRuns, Boot, TypeOK
<1>4. ASSUME NEW p \in Process, SyncMutex(p)
      PROVE  /\ holder'[j] = Nobody /\ UNCHANGED <<handles, zombies>>
             /\ \A q \in Process : boot[q] \in Uncleared => boot'[q] = boot[q]
  BY <1>4 DEF SyncMutex, Boot, TypeOK
<1>5. ASSUME NEW w \in Worker, Claim(w) \/ Release(w) \/ Throw(w)
      PROVE  /\ holder'[j] = Gone => holder[j] = Gone
             /\ UNCHANGED <<handles, boot, zombies>>
  BY <1>5, ConstantsAssumption DEF Claim, Release, Throw, TypeOK
<1>6. ASSUME NEW w \in Worker, NEW i \in Job, Begin(w, i) \/ RunNow(w, i)
      PROVE  /\ UNCHANGED <<handles, boot, holder>>
             /\ \/ zombies' = zombies
                \/ /\ zombies' = zombies \cup {i}
                   /\ \E p \in Process : i \notin handles[p]
  <2>1. HomeOf[w] \in Process
    BY ConstantsAssumption
  <2>2. QED
    BY <1>6, <2>1 DEF Begin, RunNow
<1>7. CASE UNCHANGED <<handles, boot, holder, zombies>>
  BY <1>7
<1>8. CASE \E p \in Process : \/ Crash(p) \/ Restart(p) \/ SyncRows(p)
                             \/ SyncFlags(p) \/ SyncThrows(p)
  BY <1>1, <1>2, <1>8
<1>9. CASE \E p \in Process : SyncRuns(p)
  BY <1>3, <1>9
<1>10. CASE \E p \in Process : SyncMutex(p)
  BY <1>4, <1>10, ConstantsAssumption
<1>11. CASE \E w \in Worker : Claim(w) \/ Release(w) \/ Throw(w)
  BY <1>5, <1>11
<1>12. CASE \E w \in Worker, i \in Job : Begin(w, i) \/ RunNow(w, i)
  BY <1>6, <1>12
<1>13. QED
  BY Steps, <1>7, <1>8, <1>9, <1>10, <1>11, <1>12
     DEF Minute, ReadDue, HandlerEnds, EditRead, EditWrite, BeginThrows

-----------------------------------------------------------------------------
\* What a worker has in hand after a step: what it had, or the row as it is.
HandStep(v, j) ==
    InHand(v, j)' =>
        \/ InHand(v, j) /\ seen'[v][j] = seen[v][j]
        \/ seen'[v][j] = row[j] /\ UNCHANGED row

LEMMA HandSteps ==
    ASSUME TypeOK, OnlyTicksHaveLists, Next, NEW v \in Worker, NEW j \in Job
    PROVE  HandStep(v, j)
<1> USE DEF HandStep
<1>1. ASSUME NEW w \in Worker, NEW left \in SUBSET Job, Leave(w, left),
             todo' = [todo EXCEPT ![w] = left], left \subseteq todo[w],
             pc[w] \in Step \ {"idle"}
      PROVE  HandStep(v, j)
  <2>1. CASE v = w
    <3>1. InHand(w, j)' => j \in left
      BY <1>1, LeaveFrame DEF InHand, TypeOK
    <3>2. QED
      BY <1>1, <2>1, <3>1, LeaveFrame DEF InHand, Step
  <2>2. CASE v # w
    BY <1>1, <2>2, LeaveFrame DEF InHand, TypeOK
  <2>3. QED
    BY <2>1, <2>2
<1>2. ASSUME NEW w \in Worker, ReadDue(w) PROVE HandStep(v, j)
  BY <1>2 DEF ReadDue, Goto, InHand, TypeOK
<1>3. ASSUME NEW w \in Worker, Claim(w) PROVE HandStep(v, j)
  <2>1. CASE holder[current[w]] = Nobody
    BY <1>3, <2>1 DEF Claim, Goto, InHand, TypeOK
  <2>2. CASE holder[current[w]] # Nobody
    <3>1. /\ Leave(w, todo[w]) /\ todo' = [todo EXCEPT ![w] = todo[w]]
          /\ todo[w] \in SUBSET Job
      BY <1>3, <2>2 DEF Claim, TypeOK
    <3>2. QED
      BY <1>1, <1>3, <3>1 DEF Claim, Step
  <2>3. QED
    BY <2>1, <2>2
<1>4. ASSUME NEW w \in Worker, HandlerEnds(w) PROVE HandStep(v, j)
  BY <1>4 DEF HandlerEnds, Goto, InHand, TypeOK
<1>5. ASSUME NEW w \in Worker, Release(w) PROVE HandStep(v, j)
  <2>1. /\ Leave(w, todo[w]) /\ todo' = [todo EXCEPT ![w] = todo[w]]
        /\ todo[w] \in SUBSET Job
    BY <1>5 DEF Release, TypeOK
  <2>2. QED
    BY <1>1, <1>5, <2>1 DEF Release, Step
<1>6. ASSUME NEW w \in Worker, NEW i \in Job, Begin(w, i)
      PROVE  HandStep(v, j)
  <2>1. CASE i \in handles[HomeOf[w]]
    BY <1>6, <2>1 DEF Begin, Goto, InHand, TypeOK
  <2>2. CASE i \notin handles[HomeOf[w]]
    <3>1. /\ Leave(w, todo[w] \ {i}) /\ todo[w] \ {i} \in SUBSET Job
          /\ todo' = [todo EXCEPT ![w] = todo[w] \ {i}]
      BY <1>6, <2>2 DEF Begin, TypeOK
    <3>2. QED
      BY <1>1, <1>6, <3>1 DEF Begin, Step
  <2>3. QED
    BY <2>1, <2>2
<1>7. ASSUME NEW w \in Worker, NEW i \in Job, RunNow(w, i) \/ EditRead(w, i)
      PROVE  HandStep(v, j)
  <2>1. todo[w] = {} /\ UNCHANGED <<row, todo>>
    BY <1>7 DEF RunNow, EditRead, OnlyTicksHaveLists
  <2>2. \/ UNCHANGED <<pc, current, seen>>
        \/ /\ pc' \in {[pc EXCEPT ![w] = "claim"], [pc EXCEPT ![w] = "edit"]}
           /\ current' = [current EXCEPT ![w] = i]
           /\ seen' = [seen EXCEPT ![w][i] = row[i]]
    BY <1>7 DEF RunNow, EditRead, Goto
  <2>3. CASE UNCHANGED <<pc, current, seen>>
    BY <2>1, <2>3 DEF InHand
  <2>4. CASE v = w /\ ~UNCHANGED <<pc, current, seen>>
    BY <2>1, <2>2, <2>4 DEF InHand, TypeOK
  <2>5. CASE v # w
    BY <2>1, <2>2, <2>5 DEF InHand, TypeOK
  <2>6. QED
    BY <2>3, <2>4, <2>5
<1>8. ASSUME NEW w \in Worker, NEW c \in Cron, NEW e \in BOOLEAN,
             EditWrite(w, c, e)
      PROVE  HandStep(v, j)
  <2>1. Leave(w, {}) /\ todo[w] = {} /\ UNCHANGED todo
    BY <1>8 DEF EditWrite, OnlyTicksHaveLists
  <2>2. CASE v = w
    BY <2>1, <2>2, LeaveFrame DEF InHand
  <2>3. CASE v # w
    BY <2>1, <2>3, LeaveFrame DEF InHand
  <2>4. QED
    BY <2>2, <2>3
<1>9. ASSUME NEW p \in Process, Crash(p) PROVE HandStep(v, j)
  BY <1>9 DEF Crash, InHand, TypeOK
<1>10. CASE UNCHANGED <<pc, current, seen, todo>>
  BY <1>10 DEF InHand
<1>11. ASSUME NEW w \in Worker, Throw(w) PROVE HandStep(v, j)
  <2>1. /\ Leave(w, todo[w]) /\ todo' = [todo EXCEPT ![w] = todo[w]]
        /\ todo[w] \in SUBSET Job
    BY <1>11 DEF Throw, TypeOK
  <2>2. QED
    BY <1>1, <1>11, <2>1 DEF Throw, Step
<1>12. ASSUME NEW w \in Worker, NEW i \in Job, BeginThrows(w, i)
       PROVE  HandStep(v, j)
  <2>1. /\ Leave(w, todo[w] \ {i}) /\ todo[w] \ {i} \in SUBSET Job
        /\ todo' = [todo EXCEPT ![w] = todo[w] \ {i}]
    BY <1>12 DEF BeginThrows, TypeOK
  <2>2. QED
    BY <1>1, <1>12, <2>1 DEF BeginThrows, Step
<1>13. QED
  BY Steps, <1>2, <1>3, <1>4, <1>5, <1>6, <1>7, <1>8, <1>9, <1>10, <1>11, <1>12
     DEF Minute, Restart, SyncRows, SyncFlags, SyncRuns, SyncMutex, SyncThrows, Boot

\* A list is kept by who is at work on it.
LEMMA ListStep == TypeOK /\ OnlyTicksHaveLists /\ Next => OnlyTicksHaveLists'
<1> SUFFICES ASSUME TypeOK, OnlyTicksHaveLists, Next,
                    NEW v \in Worker, pc'[v] \in {"idle", "edit"}
             PROVE  todo'[v] = {}
  BY DEF OnlyTicksHaveLists
<1>1. pc[v] \in {"idle", "edit"} => todo[v] = {}
  BY DEF OnlyTicksHaveLists
<1>2. ASSUME NEW w \in Worker, NEW left \in SUBSET Job, Leave(w, left),
             todo' = [todo EXCEPT ![w] = left]
      PROVE  todo'[v] = {}
  BY <1>1, <1>2 DEF Leave, Goto, TypeOK
<1>3. ASSUME NEW w \in Worker, Claim(w) \/ Release(w) \/ Throw(w)
      PROVE  todo'[v] = {}
  <2>1. /\ todo' = [todo EXCEPT ![w] = todo[w]] /\ todo[w] \in SUBSET Job
        /\ UNCHANGED todo
    BY <1>3 DEF Claim, Release, Throw, TypeOK
  <2>2. Leave(w, todo[w]) \/ Goto(w, "running")
    BY <1>3 DEF Claim, Release, Throw
  <2>3. CASE Goto(w, "running")
    BY <1>1, <2>1, <2>3 DEF Goto, TypeOK
  <2>4. QED
    BY <1>2, <2>1, <2>2, <2>3
<1>4. ASSUME NEW w \in Worker, NEW i \in Job, Begin(w, i) \/ BeginThrows(w, i)
      PROVE  todo'[v] = {}
  <2>1. todo' = [todo EXCEPT ![w] = todo[w] \ {i}]
          /\ todo[w] \ {i} \in SUBSET Job
    BY <1>4 DEF Begin, BeginThrows, TypeOK
  <2>2. Leave(w, todo[w] \ {i}) \/ Goto(w, "claim")
    BY <1>4 DEF Begin, BeginThrows
  <2>3. CASE Goto(w, "claim")
    BY <1>1, <2>1, <2>3 DEF Goto, TypeOK
  <2>4. QED
    BY <1>2, <2>1, <2>2, <2>3
<1>5. ASSUME NEW w \in Worker, NEW i \in Job, RunNow(w, i) \/ EditRead(w, i)
      PROVE  todo'[v] = {}
  BY <1>1, <1>5 DEF RunNow, EditRead, Goto, TypeOK, OnlyTicksHaveLists
<1>6. ASSUME NEW w \in Worker, NEW c \in Cron, NEW e \in BOOLEAN,
             EditWrite(w, c, e)
      PROVE  todo'[v] = {}
  BY <1>1, <1>6 DEF EditWrite, Leave, Goto, TypeOK, OnlyTicksHaveLists
<1>7. ASSUME NEW p \in Process, Crash(p) PROVE todo'[v] = {}
  BY <1>1, <1>7 DEF Crash, TypeOK
<1>8. ASSUME NEW w \in Worker, ReadDue(w) \/ HandlerEnds(w)
      PROVE  todo'[v] = {}
  BY <1>1, <1>8 DEF ReadDue, HandlerEnds, Goto, TypeOK
<1>9. CASE UNCHANGED <<pc, todo>>
  BY <1>1, <1>9
<1>10. QED
  BY Steps, <1>3, <1>4, <1>5, <1>6, <1>7, <1>8, <1>9
     DEF Minute, Restart, SyncRows, SyncFlags, SyncRuns, SyncMutex, SyncThrows, Boot

\* The row of j as a step leaves it: as it was, with a nextRunAt that a run
\* computed from what it had read, or as an edit writes it.
RunWrites(w, j) ==
    /\ InHand(w, j)
    /\ row'[j].cron = row[j].cron
    /\ seen[w][j].next.cron = seen[w][j].cron =>
         row'[j].next.cron = seen[w][j].cron

EditWrites(w, j) ==
    /\ InHand(w, j) /\ ~InHand(w, j)'
    /\ \A v \in Worker \ {w} : InHand(v, j)' <=> InHand(v, j)
    /\ \A v \in Worker \ {w} : InHand(v, j) => j \in raced'
    /\ seen[w][j].next.cron = seen[w][j].cron =>
         row'[j].next.cron = row'[j].cron

RowStep(j) ==
    \/ row'[j] = row[j]
    \/ \E w \in Worker : RunWrites(w, j) \/ EditWrites(w, j)

LEMMA RowSteps ==
    ASSUME TypeOK, OnlyTicksHaveLists, Next, NEW j \in Job
    PROVE  RowStep(j)
<1>1. ASSUME NEW w \in Worker, Release(w) PROVE RowStep(j)
  <2> DEFINE i == current[w]
             next == NextOf(seen[w][i])
  <2>1. row' = [row EXCEPT ![i] = [@ EXCEPT !.next = next]]
    BY <1>1 DEF Release
  <2>2. CASE i # j
    <3> HIDE DEF i, next
    <3>1. QED
      BY <2>1, <2>2 DEF RowStep, TypeOK
  <2>3. CASE i = j
    <3>1. seen[w][j] \in Row
      BY DEF TypeOK
    <3>2. seen[w][j].next.cron = seen[w][j].cron =>
            next.cron = seen[w][j].cron
      BY <2>3, <3>1, NextOfTyped
    <3>3. InHand(w, j)
      BY <1>1, <2>3 DEF Release, InHand
    <3> HIDE DEF next
    <3>4. row'[j].cron = row[j].cron /\ row'[j].next = next
      BY <2>1, <2>3 DEF TypeOK, Row
    <3>5. QED
      BY <3>2, <3>3, <3>4 DEF RowStep, RunWrites, EditWrites
  <2>4. QED
    BY <2>2, <2>3
<1>2. ASSUME NEW w \in Worker, NEW c \in Cron, NEW e \in BOOLEAN,
             EditWrite(w, c, e)
      PROVE  RowStep(j)
  <2> DEFINE i == current[w]
             r == seen[w][i]
             next == IF c # r.cron \/ e THEN NextAt(c, now) ELSE r.next
  <2>1. row' = [row EXCEPT ![i] = [enabled |-> e, cron |-> c, next |-> next]]
    BY <1>2 DEF EditWrite
  <2>2. CASE i # j
    <3> HIDE DEF i, next
    <3>1. QED
      BY <2>1, <2>2 DEF RowStep, TypeOK
  <2>3. CASE i = j
    <3>1. Leave(w, {}) /\ todo[w] = {} /\ UNCHANGED todo /\ pc[w] = "edit"
      BY <1>2 DEF EditWrite, OnlyTicksHaveLists
    <3>2. InHand(w, j) /\ ~InHand(w, j)'
            /\ \A v \in Worker \ {w} : InHand(v, j)' <=> InHand(v, j)
      BY <2>3, <3>1, LeaveFrame DEF InHand
    <3>3. \A v \in Worker \ {w} : InHand(v, j) => j \in raced'
      BY <1>2, <2>3 DEF EditWrite, Overlaps
    <3>4. r.next.cron = r.cron => next.cron = c
      BY NextAtTyped DEF TypeOK
    <3> HIDE DEF next
    <3>5. row'[j].next.cron = next.cron /\ row'[j].cron = c
      BY <2>1, <2>3 DEF TypeOK
    <3>6. QED
      BY <2>3, <3>2, <3>3, <3>4, <3>5 DEF RowStep, RunWrites, EditWrites
  <2>4. QED
    BY <2>2, <2>3
<1>3. CASE UNCHANGED row
  BY <1>3 DEF RowStep, RunWrites, EditWrites
<1>4. QED
  BY Steps, <1>1, <1>2, <1>3
     DEF Minute, ReadDue, Claim, HandlerEnds, Begin, RunNow, EditRead, Crash,
         Restart, SyncRows, SyncFlags, SyncRuns, SyncMutex, SyncThrows, Throw,
         BeginThrows, Boot

\* Without an overlapping edit, what is in hand stays the current row.
LEMMA ScheduleStep ==
    /\ TypeOK /\ OnlyTicksHaveLists /\ ScheduleIsCurrent /\ SeenIsCurrent
    /\ Next
    => ScheduleIsCurrent' /\ SeenIsCurrent'
<1> SUFFICES ASSUME TypeOK, OnlyTicksHaveLists, ScheduleIsCurrent,
                    SeenIsCurrent, Next, NEW j \in Job \ raced'
             PROVE  /\ row'[j].next.cron = row'[j].cron
                    /\ \A v \in Worker : InHand(v, j)' =>
                         /\ seen'[v][j].cron = row'[j].cron
                         /\ seen'[v][j].next.cron = row'[j].cron
  BY DEF ScheduleIsCurrent, SeenIsCurrent
<1>1. j \notin raced
  BY Steps
     DEF Minute, ReadDue, Claim, HandlerEnds, Release, Begin, RunNow, EditRead,
         EditWrite, Crash, Restart, SyncRows, SyncFlags, SyncRuns, SyncMutex,
         SyncThrows, Throw, BeginThrows, Boot
<1>2. /\ row[j].next.cron = row[j].cron
      /\ \A v \in Worker : InHand(v, j) =>
           /\ seen[v][j].cron = row[j].cron
           /\ seen[v][j].next.cron = row[j].cron
  BY <1>1 DEF ScheduleIsCurrent, SeenIsCurrent
<1>3. \A v \in Worker : HandStep(v, j)
  BY HandSteps
<1>4. RowStep(j)
  BY RowSteps
<1>5. ASSUME NEW v \in Worker, InHand(v, j)'
      PROVE  \/ InHand(v, j) /\ seen'[v][j] = seen[v][j]
             \/ seen'[v][j] = row[j] /\ row' = row
  BY <1>3, <1>5 DEF HandStep
<1>6. CASE row'[j] = row[j]
  BY <1>2, <1>5, <1>6
<1>7. ASSUME NEW w \in Worker, RunWrites(w, j)
      PROVE  /\ row'[j].next.cron = row'[j].cron
             /\ \A v \in Worker : InHand(v, j)' =>
                  /\ seen'[v][j].cron = row'[j].cron
                  /\ seen'[v][j].next.cron = row'[j].cron
  <2>1. row'[j].next.cron = row[j].cron /\ row'[j].cron = row[j].cron
    BY <1>2, <1>7 DEF RunWrites
  <2>2. QED
    BY <1>2, <1>5, <2>1
<1>8. ASSUME NEW w \in Worker, EditWrites(w, j)
      PROVE  /\ row'[j].next.cron = row'[j].cron
             /\ \A v \in Worker : ~InHand(v, j)'
  BY <1>2, <1>8 DEF EditWrites
<1>9. QED
  BY <1>4, <1>6, <1>7, <1>8 DEF RowStep

-----------------------------------------------------------------------------
LEMMA NextInv == IInv /\ [Next]_vars => IInv'
<1> SUFFICES ASSUME IInv, [Next]_vars PROVE IInv'
  OBVIOUS
<1>1. CASE Next
  BY <1>1, TypeStep, ListStep, MutexStep, CrashStep, ScheduleStep DEF IInv
<1>2. CASE UNCHANGED vars
  BY <1>2
     DEF IInv, vars, TypeOK, OnlyTicksHaveLists, RunHoldsMutex, Runs,
         CrashIsCleared, ScheduleIsCurrent, SeenIsCurrent, InHand
<1>3. QED
  BY <1>1, <1>2

\* In every reachable state the variables have their types.
THEOREM TypeCorrect == Spec => []TypeOK
<1>1. IInv => TypeOK
  BY DEF IInv
<1>2. QED
  BY InitInv, NextInv, <1>1, PTL DEF Spec

\* With any number of instances, two runs of a job overlap only after a sync
\* took the mutex from one of them.
THEOREM RunsAlone == Spec => []RunsAloneUnlessStolen
<1>1. IInv => RunsAloneUnlessStolen
  BY DEF IInv, RunHoldsMutex, RunsAloneUnlessStolen
<1>2. QED
  BY InitInv, NextInv, <1>1, PTL DEF Spec

\* Whatever crashes or throws, a run that died with its instance blocks its job
\* only while an instance is down, starting, or up after a sync that threw.
THEOREM DeadRunsEnd == Spec => []DeadRunsEndAtRestart
<1>1. IInv => DeadRunsEndAtRestart
  BY DEF IInv, CrashIsCleared, Uncleared, DeadRunsEndAtRestart
<1>2. QED
  BY InitInv, NextInv, <1>1, PTL DEF Spec

\* nextRunAt follows the schedule of the job unless an edit overlapped.
THEOREM ScheduleFollows == Spec => []ScheduleIsCurrent
<1>1. IInv => ScheduleIsCurrent
  BY DEF IInv
<1>2. QED
  BY InitInv, NextInv, <1>1, PTL DEF Spec
=============================================================================
