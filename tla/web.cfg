SPECIFICATION Spec
CONSTANTS
  Users = {u1}
  Numbers = {n1, n2}
  Tabs = {x1, x2}
  Calls = {c1, c2}
  None = None
SYMMETRY ClientSymmetry
INVARIANTS IInv StoredTokenWorks OwnRefreshNeverRefused NobodyWaitsInVain
PROPERTIES KeepsGoodSession
