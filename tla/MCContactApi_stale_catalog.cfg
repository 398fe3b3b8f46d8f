SPECIFICATION Spec
CONSTANTS
  c1 = c1  c2 = c2  c3 = c3  a = a  b = b  email = email  optin = optin  other = other
  Empty = Empty  NoValue = NoValue  ById = ById
  NoField = NoField  NoList = NoList  NoKey = NoKey  NoCaller = NoCaller  NoRequest = NoRequest
  Callers = {c1, c2}
  Requests <- ApiRequests
  MaxCalls = 4
  BatchLimit = 3
  MaxContact = 6
  MaxField = 4
  Lists = {1}
  Values = {a, b}
  SeededFields = {1, 2}
  SystemFields = {1}
  SeededDef <- MCSeededDef
  SeededChoices <- MCSeededChoices
  Names = {email, optin, other}
  WellFormed = {b}
SYMMETRY Symmetric
INVARIANT ValuesFit
