SPECIFICATION Spec
CONSTANTS
  Pages = {p1}
  Mobiles = {m1}
  Mobile <- MCMobile
  Handlers = {h1, h2}
  Orders = {o1, o2}
  RateLimit = 1
  TestModes = {FALSE, TRUE}
  MaxToggles = 1
  MaxCrashes = 1
  Nobody = Nobody
SYMMETRY Symmetry
INVARIANTS
  TypeOK
  MoneyHasOrder
  OneCreationPerMobile
  ClosedMeansClosed
  PageTellsTruth
PROPERTY ImplementsPublicOrder
CHECK_DEADLOCK FALSE
