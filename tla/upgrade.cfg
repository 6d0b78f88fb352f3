SPECIFICATION Spec
CONSTANTS
  Migrators = {m1, m2, m3}
  Targets = {0, 1, 2, 3}
  Violations <- MCViolations
  Events = {"fault"}
SYMMETRY RunSymmetry
INVARIANTS IInv
PROPERTIES LatestIsDeclared RepetitionDoesNotRepair
