SPECIFICATION Spec
CONSTANTS
  a = a  b = b  main = main
  MaxContact = 3
  MaxField = 2
  Lists = {main}
  Values = {a, b}
  Empty = Empty  NoValue = NoValue  ById = ById  NoRead = NoRead
  Reads <- MCReads
  Writings <- MCWritings
  Start <- MCStart
  MaxCommits = 3
  BatchLimit = 2
  HistoryLimit = 4
  PageLines = 2
\* A behaviour is one request.
CHECK_DEADLOCK FALSE
INVARIANTS TypeOK ShownWasStored NobodyIsMissed
