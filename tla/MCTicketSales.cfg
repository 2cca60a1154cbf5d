SPECIFICATION SalesSpec
CONSTANTS
  k1 = k1
  k2 = k2
  k3 = k3
  Purchase = {k1, k2, k3}
  Quantity <- Quantities
  Credit = {k2, k3}
  Sale = {s1}
  PresaleCap = 2
  DoorCap = 2
  Balance = 1
  MaxManual = 1
SYMMETRY EqualPurchases
CHECK_DEADLOCK FALSE
INVARIANTS
  PresaleOversoldOnlyByRaces
  CreditsConserved
PROPERTIES
  CreatedWithinCap
