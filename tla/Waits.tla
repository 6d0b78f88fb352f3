------------------------------- MODULE Waits -------------------------------
(***************************************************************************)
(* Who waits for whom, for the proofs about Circulation, Sessions, Catalog *)
(* and Accounts: in a finite set of requests, those that one of them waits *)
(* for, directly or through others, include one that waits for nobody or   *)
(* one on a circle.  A circle is stated as those modules state it, without *)
(* paths: r is on one if every set closed under waiting that contains      *)
(* those r waits for contains r.                                           *)
(***************************************************************************)
EXTENDS FiniteSetTheorems, TLAPS

\* S contains those that its members wait for; W[r] are those r waits for.
ClosedUnder(W, S) == \A s \in S : W[s] \subseteq S

OnCircle(W, N, r) ==
  \A S \in SUBSET N : W[r] \subseteq S /\ ClosedUnder(W, S) => r \in S

\* The smallest non-empty closed set within S consists of one that waits for
\* nobody, or of requests on a circle.
LEMMA SmallestClosedSet ==
  ASSUME NEW S, IsFiniteSet(S), NEW W, S # {}, ClosedUnder(W, S)
  PROVE  \E M \in SUBSET S :
           /\ M # {} /\ ClosedUnder(W, M)
           /\ \A T \in SUBSET M : T # {} /\ ClosedUnder(W, T) => T = M
<1> DEFINE C == {T \in SUBSET S : T # {} /\ ClosedUnder(W, T)}
<1>1. FiniteSubsetsOf(S) = SUBSET S
  BY FS_FiniteSubsetsOfFinite
<1>2. IsWellFoundedOn(StrictSubsetOrdering(S), SUBSET S)
  BY <1>1, FS_StrictSubsetOrderingWellFounded
<1>3. C \subseteq SUBSET S /\ C # {}
  OBVIOUS
<1> HIDE DEF C
<1>4. PICK M \in C : \A T \in C : <<T, M>> \notin StrictSubsetOrdering(S)
  BY <1>2, <1>3, WFMin, Zenon
<1>5. ASSUME NEW T \in SUBSET M, T # {}, ClosedUnder(W, T) PROVE T = M
  <2>1. T \in C /\ M \in SUBSET S
    BY <1>5 DEF C
  <2> QED BY <1>4, <2>1 DEF StrictSubsetOrdering
<1> QED BY <1>4, <1>5 DEF C

LEMMA WaitsEnd ==
  ASSUME NEW N, IsFiniteSet(N), NEW W, NEW S \in SUBSET N, S # {}, ClosedUnder(W, S)
  PROVE  \E s \in S : W[s] = {} \/ OnCircle(W, N, s)
<1>1. IsFiniteSet(S)
  BY FS_Subset
<1>2. PICK M \in SUBSET S :
        /\ M # {} /\ ClosedUnder(W, M)
        /\ \A T \in SUBSET M : T # {} /\ ClosedUnder(W, T) => T = M
  BY <1>1, SmallestClosedSet
<1>3. PICK s \in M : TRUE
  BY <1>2
<1>4. ASSUME W[s] # {} PROVE OnCircle(W, N, s)
  <2> SUFFICES ASSUME NEW T \in SUBSET N, W[s] \subseteq T, ClosedUnder(W, T) PROVE s \in T
    BY DEF OnCircle
  <2>1. ClosedUnder(W, T \cap M)
    BY <1>2 DEF ClosedUnder
  <2>2. T \cap M # {}
    BY <1>2, <1>3, <1>4 DEF ClosedUnder
  <2> QED BY <1>2, <1>3, <2>1, <2>2
<1> QED BY <1>3, <1>4

=============================================================================
