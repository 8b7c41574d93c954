SPECIFICATION FairSpec
CONSTANTS
  Purchases = {p1}
  Price = 1
  Pages = {page}
  RecheckEnabled = TRUE
  MaxFaults = 1
  MaxEpochs = 0
  MaxResolved = 0
CHECK_DEADLOCK FALSE
PROPERTIES
  PurchaseConcludes
  SettledIsGranted
  FullRefundEndsAccess
  LateCaptureIsReviewed
  KeepsPurchaseContract
