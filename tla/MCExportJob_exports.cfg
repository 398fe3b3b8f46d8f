SPECIFICATION FairSpec
CONSTANTS
  c1 = c1  c2 = c2  c3 = c3
  Clients = {c1, c2}
  MaxJobs = 2
  MaxShared = 1
  Delays = {1}
  MaxPolls = 1
  Forced = {"scheduled", "done", "error"}
  Disconnects = TRUE
\* The bound on jobs may be used up by clients that went away.
CHECK_DEADLOCK FALSE
INVARIANTS TypeOK
PROPERTIES SettledStaysSettled EveryExportFinishes ImplementsProtocol
