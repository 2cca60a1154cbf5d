SPECIFICATION FairSpec
CONSTANTS
  r1 = r1
  r2 = r2
  job = job
  i1 = i1
  Request = {r1, r2}
  Job = {job}
  Invoice = {i1}
  MaxSub = 2
  MaxOrder = 2
  MaxProof = 2
  Months = 1
  MaxTime = 1
  MaxCall = 5
  MaxCrash = 1
CHECK_DEADLOCK FALSE
INVARIANTS
  ProofTellsOrder
  OneOrderWaits
  OnePeriodPerPayment
  PaidMonthsAreGiven
PROPERTIES
  PaidInvoiceGivesPeriod
