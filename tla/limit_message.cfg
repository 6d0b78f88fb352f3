SPECIFICATION Spec
CONSTANTS
  Users = {u1}
  Books = {b1, b2}
  Loans = {l1, l2}
  Requests = {r1, r2}
  None = None
  MaxBooksOnHand = 1
  LoanDays = 1
  MaxCopies = 0
  LastDay = 0
  Events = {"issue", "delete_book"}
  CopiesOfEach = 1
  Stock <- MCStock
SYMMETRY RowSymmetry
PROPERTIES LimitMessageIsTrue
