----------------------------- MODULE Directory -----------------------------
(***************************************************************************)
(* What the accounts of OpenShelf promise, without requests, look-ups,     *)
(* indexes or locks: who has which name and which address.  Every step is  *)
(* one whole request that took effect.  Accounts is shown to implement     *)
(* this specification.                                                     *)
(***************************************************************************)
CONSTANTS Users, Names, Emails,
          Null,  \* an account without an address
          None   \* no account

VARIABLES
  name,    \* the name of each account, or None
  address  \* its address, Null, or None

directory == <<name, address>>

Member(x) == name[x] # None

NameIsFree(x, n) == \A y \in Users \ {x} : name[y] # n
AddressIsFree(x, e) == e = Null \/ \A y \in Users \ {x} : address[y] # e

Enter(x, n, e) ==
  /\ NameIsFree(x, n) /\ AddressIsFree(x, e)
  /\ name' = [name EXCEPT ![x] = n]
  /\ address' = [address EXCEPT ![x] = e]

Join(x, n, e) == ~Member(x) /\ Enter(x, n, e)
Change(x, n, e) == Member(x) /\ Enter(x, n, e)

Leave(x) ==
  /\ Member(x)
  /\ name' = [name EXCEPT ![x] = None]
  /\ address' = [address EXCEPT ![x] = None]

Init == name = [x \in Users |-> None] /\ address = [x \in Users |-> None]

Next == \E x \in Users :
  \/ Leave(x)
  \/ \E n \in Names, e \in Emails \cup {Null} : Join(x, n, e) \/ Change(x, n, e)

Spec == Init /\ [][Next]_directory

=============================================================================
