SPECIFICATION Spec
CONSTANTS
  Purchases = {p1}
  Price = 2
  Pages = {page}
  RecheckEnabled = TRUE
  MaxFaults = 1
  MaxEpochs = 1
  MaxResolved = 4
CHECK_DEADLOCK FALSE
INVARIANTS
  GrantedIsPaid
  NotFoundIsUnpaid
  ReversalsAreReal
  OpenSettlementIsOwned
PROPERTIES
  NoGrantAfterFullReturn
