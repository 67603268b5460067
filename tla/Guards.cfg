SPECIFICATION MCSpec
CONSTANTS
  Guards = {g1, g2, g3}
  Circs = {c1, c2}
  NPrimary = 1
  NUse = 1
  MinFiltered = 1
  MaxSample = 2
  Restrictions = {{}}
  Restarts = TRUE
  MaxChanges = 1
SYMMETRY Sym
INVARIANTS PrimaryIsBest PendingIsTried FlagsAgree
PROPERTIES UpgradeInOrder
CHECK_DEADLOCK FALSE
