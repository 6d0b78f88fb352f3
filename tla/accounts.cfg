SPECIFICATION Spec
CONSTANTS
  Users = {u1, u2, u3}
  Names = {ann, post}
  Emails = {post, mail}
  TooLong = TooLong
  Null = Null
  Requests = {r1, r2}
  None = None
  Events = {"register", "update_user", "delete_user", "login", "fault"}
SYMMETRY RowSymmetry
INVARIANTS IInv DeadlockNeedsUpdate
PROPERTIES RefusalIsReal ImplementsDirectory
