SPECIFICATION Spec
CONSTANTS
  c1 = c1  c2 = c2  k1 = k1  k2 = k2
  NoKey = NoKey
  Clients = {c1, c2}
  Keys = {k1, k2}
  Requests <- MCRequests
  PageSize = 1
  MaxContacts = 2
  MaxGroups = 1
  MaxCalls = 3
SYMMETRY Symmetric
INVARIANTS TypeOK MembersExist OnlyNamedContacts FailureChangesNothing PagesCoverTheList
CHECK_DEADLOCK FALSE
