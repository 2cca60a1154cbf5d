SPECIFICATION Spec
CONSTANTS
  buyer = buyer
  friend = friend
  other = other
  t1 = t1
  t2 = t2
  Person = {buyer, friend, other}
  Ticket = {t1, t2}
  Buyer <- AllBought
  Claimable = {t2}
  Call = {c1, c2, c3, c4, c5}
  NoTicket = NoTicket
  NoCall = NoCall
SYMMETRY CallSymmetry
CHECK_DEADLOCK FALSE
INVARIANTS
  OneClaimPerTicket
  UsedTicketHasEntry
  TicketAdmitsOne
  InsideOnce
