SPECIFICATION Spec
CONSTANTS
  Authors = {a1}
  Books = {b1}
  Names = {n1}
  Blank = Blank
  Null = Null
  Requests = {r1, r2}
  None = None
  Events = {"create_author", "delete_author", "create_book"}
INVARIANTS EveryBookHasAnAuthor
