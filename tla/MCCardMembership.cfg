SPECIFICATION FairSpec
CONSTANTS
  a = a
  b = b
  r1 = r1
  r2 = r2
  w1 = w1
  Plan = {a, b}
  Hosted = {b}
  Request = {r1, r2}
  Sweeper = {w1}
  MaxSub = 2
  MaxRemote = 2
  MaxPrice = 1
  MaxCall = 4
  MaxCrash = 1
CHECK_DEADLOCK FALSE
INVARIANTS
  OnePendingCard
  OneMembershipPerPlan
PROPERTIES
  EndsOnlyIfAsked
  RevivedOnlyByReprice
  OrphansEnd
