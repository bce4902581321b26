SPECIFICATION Spec
CONSTANTS
  Attendees = {a1}
  Gates = {g1}
  Doors = {d1}
  Admins = {m1, m2}
  Nowhere = Nowhere
  MaxEntries = 2
  MaxFaults = 1
SYMMETRY AdminSymmetry
INVARIANTS TypeOK StopHolds ControlsInOrder 
PROPERTIES HistoryKept
CHECK_DEADLOCK FALSE
