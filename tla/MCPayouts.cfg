SPECIFICATION Spec
CONSTANTS
  managed = managed
  own = own
  membership = membership
  week1 = week1
  week2 = week2
  month = month
  Order = {managed, own}
  Period = {week1, month}
  OrdersOf <- Weeks
  SaleOf <- SomeSales
  Iva = 19
  Pct = 5
  Take = 15
  Call = {k1, k2}
  MaxPayouts = 2
  MaxByHand = 2
  NoCall = NoCall
CONSTRAINT OnePaid
SYMMETRY CallSymmetry
INVARIANTS
  NetIsOwed
  LiquidatedTwiceOnlyByRaces
  PaidTwiceIsKnown
  FoliosAreGapless
