SPECIFICATION Spec
CONSTANTS
  Users = {u1, u2}
  Books = {b1}
  Loans = {l1, l2}
  Requests = {r1, r2, r3}
  None = None
  MaxBooksOnHand = 1
  LoanDays = 1
  MaxCopies = 1
  LastDay = 0
  Events = {"issue", "return", "delete_user", "delete_book", "set_copies", "fault"}
  CopiesOfEach = 1
  Stock <- MCStock
SYMMETRY RowSymmetry
INVARIANTS WorkGoesOn ReturnAllOrNothing DeadlockNeedsReturnOrCascades
PROPERTIES CopiesConserved ImplementsLending
