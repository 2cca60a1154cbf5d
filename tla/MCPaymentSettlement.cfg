SPECIFICATION Spec
CONSTANTS
  o1 = o1
  o2 = o2
  o3 = o3
  code1 = code1
  table1 = table1
  Order = {o1, o2, o3}
  Call = {k1, k2, k3}
  Code = {code1}
  SingleUse = {code1}
  Table = {table1}
  Quantity <- QuantityVal
  CodeOf <- SharedCode
  TableOf <- OneTable
  MaxUses <- OneUse
  MaxTables = 1
  NoCall = NoCall
  NoCode = NoCode
  NoTable = NoTable
SYMMETRY CallSymmetry
CONSTRAINT TableApart
CHECK_DEADLOCK FALSE
INVARIANTS
  TicketsIffPaid
  SingleUseRespected
  LedgerTellsStatus
  AnsweredPaidIsPaid
  TableIsHeld
PROPERTIES
  LifecycleSpec
