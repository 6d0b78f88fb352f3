---------------------------- MODULE Bibliography ----------------------------
(***************************************************************************)
(* What the catalogue of OpenShelf promises, without requests, look-ups,   *)
(* indexes or locks: the names of its authors, the titles of its books,    *)
(* and who wrote what.  Every step is one whole request that took effect.  *)
(* Catalog is shown to implement this specification.                       *)
(***************************************************************************)
CONSTANTS Authors, Books,
          AuthorNames, Titles,
          None  \* neither name nor title: not in the catalogue

VARIABLES
  name,    \* the name of each author, the title of each book, or None
  credits  \* pairs <<b, a>>: a is an author of b

catalogue == <<name, credits>>

Listed(x) == name[x] # None

\* No other of its kind goes by this name.
Distinct(kind, x, n) == \A y \in kind \ {x} : name[y] # n

AddAuthor(a, n) ==
  /\ ~Listed(a) /\ Distinct(Authors, a, n)
  /\ name' = [name EXCEPT ![a] = n] /\ UNCHANGED credits

RenameAuthor(a, n) ==
  /\ Listed(a) /\ Distinct(Authors, a, n)
  /\ name' = [name EXCEPT ![a] = n] /\ UNCHANGED credits

\* Only an author without books can go.
RemoveAuthor(a) ==
  /\ Listed(a) /\ \A b \in Books : <<b, a>> \notin credits
  /\ name' = [name EXCEPT ![a] = None] /\ UNCHANGED credits

\* The authors of a book are in the catalogue; there may be none.
AddBook(b, n, authors) ==
  /\ ~Listed(b) /\ Distinct(Books, b, n) /\ \A a \in authors : Listed(a)
  /\ name' = [name EXCEPT ![b] = n]
  /\ credits' = credits \cup {b} \X authors

RenameBook(b, n) ==
  /\ Listed(b) /\ Distinct(Books, b, n)
  /\ name' = [name EXCEPT ![b] = n] /\ UNCHANGED credits

RemoveBook(b) ==
  /\ Listed(b)
  /\ name' = [name EXCEPT ![b] = None]
  /\ credits' = {credit \in credits : credit[1] # b}

Init == name = [x \in Authors \cup Books |-> None] /\ credits = {}

Next ==
  \/ \E a \in Authors, n \in AuthorNames : AddAuthor(a, n) \/ RenameAuthor(a, n)
  \/ \E a \in Authors : RemoveAuthor(a)
  \/ \E b \in Books, n \in Titles :
       RenameBook(b, n) \/ \E authors \in SUBSET Authors : AddBook(b, n, authors)
  \/ \E b \in Books : RemoveBook(b)

Spec == Init /\ [][Next]_catalogue

=============================================================================
