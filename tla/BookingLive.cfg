SPECIFICATION FairSpec
CONSTANTS
  Pages = {p1}
  Mobiles = {m1}
  Mobile <- MCMobile
  Handlers = {h1, h2}
  Orders = {o1}
  RateLimit = 1
  TestModes = {FALSE, TRUE}
  MaxToggles = 0
  MaxCrashes = 1
  Nobody = Nobody
PROPERTY PageAnswered
CHECK_DEADLOCK FALSE
