SPECIFICATION Spec
CONSTANTS
  c1 = c1  c2 = c2  k1 = k1  k2 = k2  NoTriggerId = NoTriggerId
  Clients = {c1, c2}
  Events = {1}
  TriggerIds = {k1, k2}
  Requests <- RetriedRequest
  MaxTriggers = 2
  MaxCalls = 2
  Crashes = FALSE
  Overruns = FALSE
PROPERTIES RepeatedIsNoError
