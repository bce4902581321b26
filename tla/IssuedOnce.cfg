SPECIFICATION Spec
CONSTANTS
  Orders = {o1}
  Handlers = {h1, h2}
  Kinds = {"payment.captured", "order.paid", "payment.failed"}
  Quantity = 2
  FullPower = FALSE
  MaxCrashes = 0
SYMMETRY Symmetry
INVARIANT IssuedOnce
CHECK_DEADLOCK FALSE
