SPECIFICATION FairSpec
CONSTANTS
  a1 = a1
  a2 = a2
  a3 = a3
  d1 = d1
  d2 = d2
  Attendees = {a1, a2}
  Dates = {d1, d2}
  Gates = {g1}
  Handlers = {h1, h2}
  AnyDay = {a2}
  Employees = {}
  Booked <- BookedD1
  Limited = {}
  Capacity = 0
  Statuses = {}
  Desk = FALSE
  Voids = TRUE
  Lossy = FALSE
  MaxCrashes = 1
  Nobody = Nobody
INVARIANT AdmittedOnce
PROPERTIES ImplementsGateEntry VisitorGetsIn
CHECK_DEADLOCK FALSE
