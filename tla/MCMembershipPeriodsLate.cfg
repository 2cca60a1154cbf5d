SPECIFICATION Spec
CONSTANTS
  r1 = r1
  r2 = r2
  job = job
  i1 = i1
  Request = {r1}
  Job = {}
  Invoice = {}
  MaxSub = 2
  MaxOrder = 2
  MaxProof = 1
  Months = 1
  MaxTime = 0
  MaxCall = 5
  MaxCrash = 0
CHECK_DEADLOCK FALSE
PROPERTIES
  VoidedOrderIsNotPaid
