SPECIFICATION Spec
CONSTANTS
  Authors = {a1, a2}
  Books = {b1, b2}
  Names = {n1, n2}
  Blank = Blank
  Null = Null
  Requests = {r1, r2}
  None = None
  Events = {"create_author", "update_author", "delete_author", "create_book", "update_book", "delete_book", "fault"}
SYMMETRY RowSymmetry
INVARIANTS IInv DeadlockNeedsTwoRenamings
PROPERTIES AnswersComeTrue ImplementsBibliography
