----------------------------- MODULE JobRunner -----------------------------
(***************************************************************************)
(* The scheduled jobs (jobs.service.ts, jobs.runner.ts). The database says *)
(* what is due; the instances of the API read it once a minute and run     *)
(* what they have read, one job after the other, so that a tick is still   *)
(* at work when the next ones begin. An instance may crash; when it starts *)
(* again it closes what any instance has left open. Any statement may      *)
(* throw: a tick logs it and goes on, a sync that throws is not tried      *)
(* again, and its instance is up all the same.                             *)
(***************************************************************************)
EXTENDS Integers, FiniteSets

CONSTANTS
    Job,         \* keys of the jobs
    Cron,        \* schedules; c stands for "every c minutes"
    Process,     \* instances of the API
    Registry,    \* the sets of jobs of which a deploy has handlers
    Tick, Admin, \* ticks and requests that can be open at once
    HomeOf,      \* HomeOf[w]: the instance in which w runs
    MaxNow, MaxEdits, MaxCrashes, MaxThrows, \* bounds of the runs
    Nobody,      \* no run
    Gone, Stuck  \* a run that its instance's death, or an exception, ended

Worker == Tick \cup Admin

ASSUME ConstantsAssumption ==
    /\ Cron # {} /\ Cron \subseteq Nat \ {0} /\ Job # {}
    /\ Registry \subseteq SUBSET Job /\ Job \in Registry
    /\ HomeOf \in [Worker -> Process]
    /\ Tick \cap Admin = {}
    /\ MaxNow \in Nat /\ {MaxEdits, MaxCrashes, MaxThrows} \subseteq Nat
    /\ Nobody # Gone /\ Gone # Stuck /\ Stuck # Nobody
    /\ {Nobody, Gone, Stuck} \cap Worker = {}

VARIABLES
    now,      \* minutes
    row,      \* the ScheduledJob rows: enabled, cron and nextRunAt
    orphaned, \* jobs of which the last instance to start has no handler
    holder,   \* runningRunId, as the worker whose run it is
    zombies,  \* jobs with a JobRun in RUNNING that no worker is running: its
              \* instance died or has no handler
    thrown,   \* ... or a statement of its run threw
    handles,  \* the jobs with a handler in each instance
    boot,     \* what each instance does: it is down, within sync(), up, or up
              \* after a sync() that threw
    \* The workers: the step, the job in hand, the rows that they have read
    \* and the jobs that are left of a tick's list.
    pc, current, seen, todo,
    edits, crashes, throws,
    \* History: jobs whose mutex a sync has taken from a live run, and jobs
    \* of which an edit and another write overlapped.
    stolen, raced

runVars == <<zombies, thrown>>
jobVars == <<row, orphaned, holder, runVars>>
workerVars == <<pc, current, seen, todo>>
faultVars == <<crashes, throws>>
boundVars == <<edits, faultVars>>
processVars == <<handles, boot>>
historyVars == <<stolen, raced>>
vars == <<now, jobVars, processVars, workerVars, boundVars, historyVars>>

\* next: nextRunAt, with the schedule from which it was computed.
NextRun == [at: Nat, cron: Cron]
Row == [enabled: BOOLEAN, cron: Cron, next: NextRun]

Step == {"idle", "list", "claim", "running", "release", "edit"}
Starting == {"rows", "flags", "runs", "mutex"}

TypeOK ==
    /\ now \in Nat
    /\ row \in [Job -> Row]
    /\ orphaned \subseteq Job /\ zombies \subseteq Job /\ thrown \subseteq Job
    /\ holder \in [Job -> Worker \cup {Nobody, Gone, Stuck}]
    /\ handles \in [Process -> Registry]
    /\ boot \in [Process -> {"up", "unsynced", "down"} \cup Starting]
    /\ pc \in [Worker -> Step]
    /\ current \in [Worker -> Job]
    /\ seen \in [Worker -> [Job -> Row]]
    /\ todo \in [Worker -> SUBSET Job]
    /\ {edits, crashes, throws} \subseteq Nat
    /\ stolen \subseteq Job /\ raced \subseteq Job

\* nextRunAt(cron, timezone): the next minute of the schedule after t.
NextAt(c, t) == [at |-> c * (t \div c + 1), cron |-> c]

FirstJob == CHOOSE j \in Job : TRUE

\* What an idle worker has read: nothing (one value, whatever it is).
Blank == [enabled |-> FALSE, cron |-> CHOOSE c \in Cron : TRUE,
          next |-> [at |-> 0, cron |-> CHOOSE c \in Cron : TRUE]]
NoRows == [j \in Job |-> Blank]

Init ==
    /\ now = 0
    /\ row \in [Job -> {[enabled |-> TRUE, cron |-> c, next |-> NextAt(c, 0)]
                          : c \in Cron}]
    /\ orphaned = {} /\ zombies = {} /\ thrown = {}
    /\ holder = [j \in Job |-> Nobody]
    /\ handles = [p \in Process |-> Job]
    /\ boot = [p \in Process |-> "up"]
    /\ pc = [w \in Worker |-> "idle"]
    /\ current = [w \in Worker |-> FirstJob]
    /\ seen = [w \in Worker |-> NoRows]
    /\ todo = [w \in Worker |-> {}]
    /\ edits = 0 /\ crashes = 0 /\ throws = 0
    /\ stolen = {} /\ raced = {}

Alive(w) == boot[HomeOf[w]] # "down"
Goto(w, step) == pc' = [pc EXCEPT ![w] = step]

\* w is done with the job in hand: a tick takes the next one of its list,
\* of which these are left, and whoever has none ends.
Leave(w, left) ==
    /\ Goto(w, IF left = {} THEN "idle" ELSE "list")
    /\ current' = [current EXCEPT ![w] = FirstJob]
    /\ seen' = [seen EXCEPT ![w] =
                   [j \in Job |-> IF j \in left THEN @[j] ELSE Blank]]

Due(j) == row[j].enabled /\ j \notin orphaned /\ row[j].next.at <= now

\* w has read the row of j and may write what follows from it.
InHand(w, j) ==
    \/ pc[w] = "list" /\ j \in todo[w]
    \/ /\ pc[w] \in {"claim", "running", "release", "edit"}
       /\ current[w] = j \/ j \in todo[w]

Minute ==
    /\ now < MaxNow
    /\ now' = now + 1
    /\ UNCHANGED <<jobVars, processVars, workerVars, boundVars, historyVars>>

-----------------------------------------------------------------------------
\* tick(): the due jobs, of which those with a run are skipped. The rows
\* that the whole tick will use are these. A tick without jobs ends here.
ReadDue(w) ==
    LET due == {j \in Job : Due(j) /\ holder[j] = Nobody} IN
    /\ w \in Tick /\ Alive(w) /\ pc[w] = "idle"
    /\ due # {}
    /\ seen' = [seen EXCEPT ![w] =
                   [j \in Job |-> IF j \in due THEN row[j] ELSE Blank]]
    /\ todo' = [todo EXCEPT ![w] = due]
    /\ Goto(w, "list")
    /\ UNCHANGED <<now, jobVars, processVars, current, boundVars, historyVars>>

\* execute(): the JobRun of the next job of the list. Without a handler in
\* this instance it stays in RUNNING.
Begin(w, j) ==
    LET left == todo[w] \ {j} IN
    /\ Alive(w) /\ pc[w] = "list"
    /\ j \in todo[w]
    /\ todo' = [todo EXCEPT ![w] = left]
    /\ IF j \in handles[HomeOf[w]]
         THEN /\ current' = [current EXCEPT ![w] = j]
              /\ Goto(w, "claim")
              /\ UNCHANGED <<seen, zombies>>
         ELSE zombies' = zombies \cup {j} /\ Leave(w, left)
    /\ UNCHANGED <<now, row, orphaned, holder, thrown, processVars, boundVars,
                   historyVars>>

\* runNow(): a run by hand, of a job that may be disabled or not due.
RunNow(w, j) ==
    /\ w \in Admin /\ Alive(w) /\ pc[w] = "idle"
    /\ j \notin orphaned
    /\ holder[j] = Nobody
    /\ IF j \in handles[HomeOf[w]]
         THEN /\ current' = [current EXCEPT ![w] = j]
              /\ seen' = [seen EXCEPT ![w][j] = row[j]]
              /\ Goto(w, "claim")
              /\ UNCHANGED zombies
         ELSE /\ zombies' = zombies \cup {j}
              /\ UNCHANGED <<current, seen, pc>>
    /\ UNCHANGED <<now, row, orphaned, holder, thrown, processVars, todo,
                   boundVars, historyVars>>

\* Mutant of Claim: an UPDATE by id.
ClaimById(w) ==
    /\ Alive(w) /\ pc[w] = "claim"
    /\ holder' = [holder EXCEPT ![current[w]] = w]
    /\ Goto(w, "running")
    /\ UNCHANGED <<now, row, orphaned, runVars, processVars, current, seen, todo,
                   boundVars, historyVars>>

\* UPDATE ... WHERE runningRunId IS NULL; who loses deletes its JobRun.
Claim(w) ==
    LET j == current[w] IN
    /\ Alive(w) /\ pc[w] = "claim"
    /\ IF holder[j] = Nobody
         THEN /\ holder' = [holder EXCEPT ![j] = w]
              /\ Goto(w, "running")
              /\ UNCHANGED <<current, seen>>
         ELSE Leave(w, todo[w]) /\ UNCHANGED holder
    /\ UNCHANGED <<now, row, orphaned, runVars, processVars, todo, boundVars,
                   historyVars>>

\* The handler returns or throws, and the JobRun is closed.
HandlerEnds(w) ==
    /\ Alive(w) /\ pc[w] = "running"
    /\ Goto(w, "release")
    /\ UNCHANGED <<now, jobVars, processVars, current, seen, todo, boundVars,
                   historyVars>>

\* What the end of a run writes to nextRunAt, from the row that it read.
NextOf(r) == IF r.enabled THEN NextAt(r.cron, now) ELSE r.next

\* UPDATE by id: the mutex is freed whoever holds it.
Release(w) ==
    LET j == current[w] IN
    /\ Alive(w) /\ pc[w] = "release"
    /\ holder' = [holder EXCEPT ![j] = Nobody]
    /\ row' = [row EXCEPT ![j] = [@ EXCEPT !.next = NextOf(seen[w][j])]]
    /\ Leave(w, todo[w])
    /\ UNCHANGED <<now, orphaned, runVars, processVars, todo, boundVars,
                   historyVars>>

-----------------------------------------------------------------------------
\* update() reads the row ...
EditRead(w, j) ==
    /\ w \in Admin /\ Alive(w) /\ pc[w] = "idle"
    /\ edits < MaxEdits
    /\ edits' = edits + 1
    /\ seen' = [seen EXCEPT ![w][j] = row[j]]
    /\ current' = [current EXCEPT ![w] = j]
    /\ Goto(w, "edit")
    /\ UNCHANGED <<now, jobVars, processVars, todo, faultVars, historyVars>>

\* Somebody else is about to write what it read of j before this edit.
Overlaps(w, j) == \E v \in Worker \ {w} : InHand(v, j)

\* ... and writes all of it, with what the administrator has changed: the
\* schedule, or that the job runs.
EditWrite(w, cron, enabled) ==
    LET j == current[w]
        r == seen[w][j]
        recompute == cron # r.cron \/ enabled
    IN  /\ Alive(w) /\ pc[w] = "edit"
        /\ row' = [row EXCEPT ![j] =
                    [enabled |-> enabled, cron |-> cron,
                     next |-> IF recompute THEN NextAt(cron, now)
                                           ELSE r.next]]
        /\ raced' = IF Overlaps(w, j) THEN raced \cup {j} ELSE raced
        /\ Leave(w, {})
        /\ UNCHANGED <<now, orphaned, holder, runVars, processVars, todo, boundVars,
                       stolen>>

-----------------------------------------------------------------------------
\* A statement throws.
Throws ==
    /\ throws < MaxThrows
    /\ throws' = throws + 1
    /\ UNCHANGED crashes

\* The JobRun of j is not created, and the tick goes on.
BeginThrows(w, j) ==
    /\ Alive(w) /\ pc[w] = "list" /\ j \in todo[w]
    /\ todo' = [todo EXCEPT ![w] = @ \ {j}]
    /\ Leave(w, todo[w] \ {j})
    /\ Throws
    /\ UNCHANGED <<now, jobVars, processVars, edits, historyVars>>

\* Any later statement of w throws, be it that the claim has been written. The
\* JobRun of a claim or of a handler stays in RUNNING, and the mutex held. In a
\* run by hand nobody catches what the run throws, and Node ends: Crash.
Throw(w) ==
    LET j == current[w] IN
    /\ Alive(w) /\ pc[w] \in {"claim", "running", "release", "edit"}
    /\ w \in Admin => pc[w] \in {"claim", "edit"}
    /\ \/ holder' = [holder EXCEPT ![j] = IF @ = w THEN Stuck ELSE @]
       \/ /\ pc[w] = "claim" /\ holder[j] = Nobody
          /\ holder' = [holder EXCEPT ![j] = Stuck]
    /\ thrown' = IF pc[w] \in {"claim", "running"} THEN thrown \cup {j} ELSE thrown
    /\ Leave(w, todo[w])
    /\ Throws
    /\ UNCHANGED <<now, row, orphaned, zombies, processVars, todo, edits, historyVars>>

\* An instance dies, with every tick and request in it.
Crash(p) ==
    LET dead == {w \in Worker : HomeOf[w] = p}
        open == {w \in dead : pc[w] \in {"claim", "running"}}
    IN  /\ boot[p] # "down"
        /\ crashes < MaxCrashes
        /\ crashes' = crashes + 1
        /\ boot' = [boot EXCEPT ![p] = "down"]
        /\ pc' = [w \in Worker |-> IF w \in dead THEN "idle" ELSE pc[w]]
        /\ current' = [w \in Worker |-> IF w \in dead THEN FirstJob
                                                      ELSE current[w]]
        /\ seen' = [w \in Worker |-> IF w \in dead THEN NoRows ELSE seen[w]]
        /\ todo' = [w \in Worker |-> IF w \in dead THEN {} ELSE todo[w]]
        /\ holder' = [j \in Job |-> IF holder[j] \in dead THEN Gone
                                                         ELSE holder[j]]
        /\ zombies' = zombies \cup {current[w] : w \in open}
        /\ UNCHANGED <<now, row, orphaned, thrown, handles, edits, throws, historyVars>>

Boot(p, from, to) ==
    /\ boot[p] = from
    /\ boot' = [boot EXCEPT ![p] = to]
    /\ UNCHANGED <<now, row, workerVars, edits, raced>>

\* The instance starts, perhaps of another deploy; its ticks may begin
\* before sync() has ended.
Restart(p) ==
    /\ Boot(p, "down", "rows")
    /\ \E jobs \in Registry : handles' = [handles EXCEPT ![p] = jobs]
    /\ UNCHANGED <<orphaned, holder, runVars, faultVars, stolen>>

\* sync(): the registry's jobs have a handler ...
SyncRows(p) ==
    /\ Boot(p, "rows", "flags")
    /\ orphaned' = orphaned \ handles[p]
    /\ UNCHANGED <<handles, holder, runVars, faultVars, stolen>>

\* ... and the others have none.
SyncFlags(p) ==
    /\ Boot(p, "flags", "runs")
    /\ orphaned' = orphaned \cup (Job \ handles[p])
    /\ UNCHANGED <<handles, holder, runVars, faultVars, stolen>>

\* Every JobRun in RUNNING becomes ERROR.
SyncRuns(p) ==
    /\ Boot(p, "runs", "mutex")
    /\ zombies' = {} /\ thrown' = {}
    /\ UNCHANGED <<handles, orphaned, holder, faultVars, stolen>>

\* Mutant of SyncMutex: the mutexes are not freed.
SyncMutexNever(p) ==
    /\ Boot(p, "mutex", "up")
    /\ UNCHANGED <<handles, orphaned, holder, runVars, faultVars, stolen>>

\* Every mutex is freed, that of a run in another instance too.
SyncMutex(p) ==
    /\ Boot(p, "mutex", "up")
    /\ holder' = [j \in Job |-> Nobody]
    /\ stolen' = stolen \cup {j \in Job : holder[j] \in Worker}
    /\ UNCHANGED <<handles, orphaned, runVars, faultVars>>

\* sync() throws, perhaps after some of the rows; it is logged and the
\* instance stays as it is until it starts again.
SyncThrows(p) ==
    /\ \E from \in Starting : Boot(p, from, "unsynced")
    /\ \E done \in SUBSET handles[p] :
          orphaned' = IF boot[p] = "rows" THEN orphaned \ done ELSE orphaned
    /\ Throws
    /\ UNCHANGED <<handles, holder, runVars, stolen>>

WorkerStep(w) ==
    \/ ReadDue(w) \/ Claim(w) \/ HandlerEnds(w) \/ Release(w)
    \/ \E j \in Job : Begin(w, j) \/ RunNow(w, j) \/ EditRead(w, j) \/ BeginThrows(w, j)
    \/ Throw(w)
    \/ \E c \in Cron, e \in BOOLEAN : EditWrite(w, c, e)

ProcessStep(p) ==
    \/ Crash(p) \/ Restart(p) \/ SyncThrows(p)
    \/ SyncRows(p) \/ SyncFlags(p) \/ SyncRuns(p) \/ SyncMutex(p)

Next ==
    \/ Minute
    \/ \E w \in Worker : WorkerStep(w)
    \/ \E p \in Process : ProcessStep(p)

Spec == Init /\ [][Next]_vars

\* node-cron fires every minute, handlers end, a statement that does not throw
\* is answered and an instance that died is started again.
Fairness ==
    /\ \A w \in Worker :
          /\ WF_vars(ReadDue(w))
          /\ WF_vars(Claim(w) \/ HandlerEnds(w) \/ Release(w))
          /\ WF_vars(\E j \in Job : Begin(w, j))
          /\ WF_vars(\E c \in Cron, e \in BOOLEAN : EditWrite(w, c, e))
    /\ \A p \in Process :
          WF_vars(Restart(p) \/ SyncRows(p) \/ SyncFlags(p) \/ SyncRuns(p) \/ SyncMutex(p))

FairSpec == Spec /\ Fairness

-----------------------------------------------------------------------------
\* w is between its claim of j and the end of its run.
Runs(w, j) == pc[w] \in {"running", "release"} /\ current[w] = j

\* Two runs of one job overlap only after an instance that started took the
\* mutex from a run that was alive (execute's claim, sync's last statement).
RunsAloneUnlessStolen ==
    \A j \in Job \ stolen : \A v, w \in Worker :
        Runs(v, j) /\ Runs(w, j) => v = w

\* Once every instance is up with a complete sync, no job is held by a run that
\* died with its instance, and no such run is shown as RUNNING but those of a
\* deploy without the handler (sync, onApplicationBootstrap).
DeadRunsEndAtRestart ==
    \A j \in Job :
        /\ holder[j] = Gone => \E p \in Process : boot[p] # "up"
        /\ j \in zombies => \/ \E p \in Process : boot[p] # "up"
                            \/ \E p \in Process : j \notin handles[p]

\* nextRunAt is computed from the schedule of the job, unless an edit
\* overlapped a run, a list or another edit that had read the row before.
ScheduleIsCurrent ==
    \A j \in Job \ raced : row[j].next.cron = row[j].cron

\* Nothing will run j before an instance starts again: an exception left its
\* mutex held, or a crash did and the sync after it threw; or no instance has
\* its handler.
Blocked(j) ==
    \/ holder[j] = Stuck
    \/ holder[j] = Gone /\ \E p \in Process : boot[p] = "unsynced"
    \/ \A p \in Process : j \notin handles[p]

\* A job that is due is run, or stops being due, whatever crashes or throws,
\* unless an exception blocks it (catch-up in the runner's tick; sync frees
\* what a crash left).
DueJobRuns ==
    \A j \in Job :
        Due(j) ~> (~Due(j) \/ Blocked(j) \/ \E w \in Worker : Runs(w, j))

=============================================================================
