SPECIFICATION Spec
CONSTANTS
  c1 = c1  c2 = c2  c3 = c3
  Clients = {c1, c2, c3}
  Kinds = {"read", "write"}
  Shapes <- MCShapes
  MaxRules = 2
  MaxCalls = 5
SYMMETRY Symmetric
\* The bounds on calls and rules may be used up.
CHECK_DEADLOCK FALSE
INVARIANTS TypeOK BudgetIsKept HitsAreAccounted
