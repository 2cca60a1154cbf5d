SPECIFICATION FairSpec
CONSTANTS
  mail = mail
  sweep = sweep
  p1 = p1
  p2 = p2
  t1 = t1
  t2 = t2
  a1 = a1
  Job = {mail}
  Cron = {1, 2}
  Process = {p1, p2}
  Registry <- EveryJobOrNone
  Tick = {t1, t2}
  Admin = {a1}
  HomeOf <- Homes
  MaxNow = 2
  MaxEdits = 1
  MaxCrashes = 1
  MaxThrows = 1
  Nobody = Nobody
  Gone = Gone
  Stuck = Stuck
CHECK_DEADLOCK FALSE
INVARIANTS
  RunsAloneUnlessStolen
  DeadRunsEndAtRestart
PROPERTIES
  DueJobRuns
