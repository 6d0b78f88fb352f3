--------------------------- MODULE MCCirculation ---------------------------
(***************************************************************************)
(* Small instances of Circulation for TLC.                                 *)
(***************************************************************************)
EXTENDS Circulation, TLC

CONSTANTS CopiesOfEach  \* how many copies each book starts with

MCStock == [b \in Books |-> CopiesOfEach]

\* Rows of one table and request slots can be renamed freely.
RowSymmetry ==
  Permutations(Users) \cup Permutations(Books) \cup Permutations(Loans) \cup Permutations(Requests)

=============================================================================
