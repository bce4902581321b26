SPECIFICATION Spec
CONSTANTS
  a1 = a1
  a2 = a2
  a3 = a3
  d1 = d1
  d2 = d2
  Attendees = {a1}
  Dates = {d1}
  Gates = {g1}
  Handlers = {h1, h2}
  AnyDay = {}
  Employees = {}
  Booked <- BookedD1
  Limited = {}
  Capacity = 0
  Statuses = {"SUSPENDED"}
  Desk = FALSE
  Voids = TRUE
  Lossy = FALSE
  MaxCrashes = 0
  Nobody = Nobody
PROPERTY VoidKeepsSuspension
CHECK_DEADLOCK FALSE
