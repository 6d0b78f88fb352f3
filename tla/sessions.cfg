SPECIFICATION Spec
CONSTANTS
  Users = {u1}
  Requests = {r1, r2, r3}
  None = None
  Lifetime = 1
  LastSecond = 1
  Events = {"login", "refresh", "logout", "delete_user", "fault"}
SYMMETRY RowSymmetry
INVARIANTS IInv AnnouncedTokenIsSafe DeadlockNeedsDeletion
PROPERTIES OneTokenForAnother ImplementsTickets
