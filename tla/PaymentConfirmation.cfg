SPECIFICATION FairSpec
CONSTANTS
  Orders = {o1}
  Handlers = {h1, h2}
  Kinds = {"payment.captured", "order.paid", "payment.failed"}
  Quantity = 2
  FullPower = TRUE
  MaxCrashes = 1
INVARIANTS TypeOK PaidHasPasses ProcessedMeansConfirmed OneBatchPerOverlap
PROPERTIES ImplementsPublicOrder CaptureConfirmed
CHECK_DEADLOCK FALSE
