SPECIFICATION PassSpec
CONSTANTS
  Slot = {h1, h2}
  Credits = 1
  MaxSub = 2
  MaxPeriod <- OneRenewal
  MaxRow = 2
  MaxReset = 2
  MaxRedeem = 1
SYMMETRY SlotSymmetry
CONSTRAINT Undisturbed
CHECK_DEADLOCK FALSE
INVARIANTS
  CreditsExplained
  PeriodFillsOnce
  EndIsKnownToStripe
PROPERTIES
  CanceledWins
