SPECIFICATION FairSpec
CONSTANTS
  Attendees = {a1}
  Processes = {p1}
  SharedAddress = FALSE
  Kinds = {"DELIVERED", "BOUNCED"}
  Explicit = TRUE
  MaxReleases = 2
  MaxMails = 2
  MaxFaults = 1
INVARIANTS TypeOK   
PROPERTY FlagCleared
CHECK_DEADLOCK FALSE
