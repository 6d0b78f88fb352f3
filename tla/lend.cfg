SPECIFICATION Spec
CONSTANTS
  Users = {u1, u2}
  Books = {b1, b2, b3}
  Loans = {l1, l2, l3}
  Requests = {r1, r2}
  None = None
  MaxBooksOnHand = 2
  LoanDays = 1
  MaxCopies = 0
  LastDay = 2
  Events = {"issue", "return", "midnight", "fault"}
  CopiesOfEach = 2
  Stock <- MCStock
SYMMETRY RowSymmetry
INVARIANTS LoanLimit CounterCoversLoans IInv
PROPERTIES LimitRefusalDeserved AllCopiesOnLoan NoLoanWhileOverdue
