SPECIFICATION FairSpec
CONSTANTS
  r1 = r1  r2 = r2  r3 = r3  Boot = Boot  Nobody = Nobody
  Resetters = {r1, r2, r3}
  MaxResets = 4
  MaxCrashes = 1
  MaxRows = 1
INVARIANTS TypeOK ResetsConverge StartsAgain
PROPERTIES ResetRestores ResetsAnswer
CHECK_DEADLOCK FALSE
