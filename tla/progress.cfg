SPECIFICATION FairSpec
CONSTANTS
  Users = {u1, u2}
  Books = {b1}
  Loans = {l1, l2}
  Requests = {r1, r2}
  None = None
  MaxBooksOnHand = 1
  LoanDays = 1
  MaxCopies = 0
  LastDay = 0
  Events = {"issue", "return", "delete_user", "delete_book"}
  CopiesOfEach = 1
  Stock <- MCStock
PROPERTIES EveryRequestEnds AnsweredLoanIsStored
