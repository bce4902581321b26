SPECIFICATION FairSpec
CONSTANTS
  e1 = e1
  Employees = {e1}
  Attendees = {a1}
  EmployeeOf <- OneFamily
  Booked = {a1}
  Ticks = {t1}
  Desks = {k1}
  MaxMails = 2
  MaxFaults = 1
INVARIANTS TypeOK   MailStatusIsTrue
PROPERTIES DispatchHappens
CHECK_DEADLOCK FALSE
