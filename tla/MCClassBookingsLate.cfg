SPECIFICATION Spec
CONSTANTS
  ana = ana
  beto = beto
  c1 = c1
  c2 = c2
  o1 = o1
  w1 = w1
  w2 = w2
  Nobody = Nobody
  Class = {c1}
  Student = {ana, beto}
  Enrolled = {ana, beto}
  Order = {}
  Worker = {w1}
  Capacity <- OnePlace
  Limit <- OneCredit
  Buyer <- AnaBuys
  Bought <- OfFirstClass
  MaxCall = 4
CHECK_DEADLOCK FALSE
PROPERTIES
  LateCancelLosesTheClass
