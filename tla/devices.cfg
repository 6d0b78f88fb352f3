SPECIFICATION Spec
CONSTANTS
  Users = {u1}
  Requests = {r1, r2}
  None = None
  Lifetime = 1
  LastSecond = 1
  Events = {"login", "logout"}
SYMMETRY RowSymmetry
PROPERTIES LoginMakesASession
