------------------------------ MODULE Lending ------------------------------
(***************************************************************************)
(* What the lending desk of OpenShelf promises, without requests, locks,   *)
(* counters or transactions: who is a member, which books are in the       *)
(* catalogue, how many copies of each are on the shelf, and who has what.  *)
(* Every step is one whole request that took effect.  Circulation is shown *)
(* to implement this specification.                                        *)
(***************************************************************************)
EXTENDS Integers, FiniteSets

CONSTANTS Users, Books,
          Limit,   \* books one member may have at a time
          Stock,   \* copies of each book at the beginning
          Largest  \* most copies the staff may put on the shelf

VARIABLES
  members,    \* the registered users
  catalogue,  \* the books that exist
  shelf,      \* copies of each book ready to be taken
  onLoan      \* pairs <<u, b>>: u has a copy of b

desk == <<members, catalogue, shelf, onLoan>>

BooksOf(u) == {b \in Books : <<u, b>> \in onLoan}

Borrow(u, b) ==
  /\ u \in members /\ b \in catalogue
  /\ shelf[b] > 0 /\ b \notin BooksOf(u) /\ Cardinality(BooksOf(u)) < Limit
  /\ shelf' = [shelf EXCEPT ![b] = @ - 1]
  /\ onLoan' = onLoan \cup {<<u, b>>}
  /\ UNCHANGED <<members, catalogue>>

GiveBack(u, b) ==
  /\ b \in BooksOf(u)
  /\ shelf' = [shelf EXCEPT ![b] = @ + 1]
  /\ onLoan' = onLoan \ {<<u, b>>}
  /\ UNCHANGED <<members, catalogue>>

\* A member who leaves keeps the copies: they never come back to the shelf.
Leave(u) ==
  /\ u \in members
  /\ members' = members \ {u}
  /\ onLoan' = {loan \in onLoan : loan[1] # u}
  /\ UNCHANGED <<catalogue, shelf>>

Withdraw(b) ==
  /\ b \in catalogue
  /\ catalogue' = catalogue \ {b}
  /\ shelf' = [shelf EXCEPT ![b] = 0]
  /\ onLoan' = {loan \in onLoan : loan[2] # b}
  /\ UNCHANGED members

SetShelf(b, n) ==
  /\ b \in catalogue
  /\ shelf' = [shelf EXCEPT ![b] = n]
  /\ UNCHANGED <<members, catalogue, onLoan>>

Init ==
  /\ members = Users /\ catalogue = Books /\ shelf = Stock /\ onLoan = {}

Next ==
  \/ \E u \in Users, b \in Books : Borrow(u, b) \/ GiveBack(u, b)
  \/ \E u \in Users : Leave(u)
  \/ \E b \in Books : Withdraw(b) \/ \E n \in 0 .. Largest : SetShelf(b, n)

Spec == Init /\ [][Next]_desk

=============================================================================
