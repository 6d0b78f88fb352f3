------------------------------ MODULE Tickets -------------------------------
(***************************************************************************)
(* What refresh tokens promise: tickets of members, each used at most once *)
(* and exchanged for exactly one other.  Sessions is shown to implement    *)
(* this specification.                                                     *)
(***************************************************************************)
CONSTANTS Users, Numbers

VARIABLES
  members,  \* the users that exist
  valid,    \* the tickets that can be exchanged
  used      \* the tickets that no longer can

desk == <<members, valid, used>>

Tickets == Users \X Numbers
Unused(t) == t \notin valid \cup used
IsOf(t, u) == t[1] = u

SignIn(t) ==
  /\ t[1] \in members /\ Unused(t)
  /\ valid' = valid \cup {t}
  /\ members' = members /\ used' = used

Exchange(t, n) ==
  /\ t \in valid /\ Unused(n) /\ t[1] = n[1]
  /\ valid' = (valid \ {t}) \cup {n}
  /\ used' = used \cup {t}
  /\ members' = members

SignOut(t) ==
  /\ t \in valid
  /\ valid' = valid \ {t} /\ used' = used \cup {t}
  /\ members' = members

Leave(u) ==
  /\ u \in members
  /\ members' = members \ {u}
  /\ valid' = {t \in valid : ~IsOf(t, u)} /\ used' = {t \in used : ~IsOf(t, u)}

Init == members = Users /\ valid = {} /\ used = {}

Next ==
  \/ \E t \in Tickets : SignIn(t) \/ SignOut(t) \/ \E n \in Tickets : Exchange(t, n)
  \/ \E u \in Users : Leave(u)

Spec == Init /\ [][Next]_desk

=============================================================================
