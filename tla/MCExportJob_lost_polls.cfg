SPECIFICATION Spec
CONSTANTS
  c1 = c1  c2 = c2  c3 = c3
  Clients = {c1, c2}
  MaxJobs = 1
  MaxShared = 1
  Delays = {2}
  MaxPolls = 2
  Forced = {}
  Disconnects = FALSE
PROPERTIES DoneIsFinal
