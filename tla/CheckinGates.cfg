SPECIFICATION Spec
CONSTANTS
  a1 = a1
  a2 = a2
  a3 = a3
  d1 = d1
  d2 = d2
  Attendees = {a1, a2, a3}
  Dates = {d1}
  Gates = {g1}
  Handlers = {h1, h2}
  AnyDay = {}
  Employees = {a1}
  Booked <- BookedD1
  Limited = {g1}
  Capacity = 1
  Statuses = {"ACTIVE", "SUSPENDED"}
  Desk = TRUE
  Voids = TRUE
  Lossy = TRUE
  MaxCrashes = 1
  Nobody = Nobody
SYMMETRY Symmetry
INVARIANTS TypeOK EntriesRecorded OvershootBounded
CHECK_DEADLOCK FALSE
