SPECIFICATION FairSpec
CONSTANTS
  c1 = c1  c2 = c2  k1 = k1  k2 = k2  NoTriggerId = NoTriggerId
  Clients = {c1, c2}
  Events = {1, 2}
  TriggerIds = {k1}
  Requests <- MCRequests
  MaxTriggers = 6
  MaxCalls = 3
  Crashes = TRUE
  Overruns = TRUE
INVARIANTS TypeOK AnnouncedOnce ToldIsOnRecord
PROPERTIES OrderlyExitDropsNothing EveryTriggerIsAnnounced
