SPECIFICATION Spec
CONSTANTS
  Users = {u1, u2}
  Names = {ann, bob}
  Emails = {}
  TooLong = TooLong
  Null = Null
  Requests = {r1, r2}
  None = None
  Events = {"register"}
SYMMETRY RowSymmetry
PROPERTIES TakenIsToldAsConflict
