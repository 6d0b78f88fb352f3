--------------------------- MODULE MigrationsProofs ---------------------------
(***************************************************************************)
(* The invariants of Migrations, for any number of overlapping runs and    *)
(* any constraints that rows may violate.                                  *)
(***************************************************************************)
EXTENDS Migrations, TLAPS

-----------------------------------------------------------------------------
(* What the scripts create *)

LEMMA ConcurrentListed ==
  Concurrent = {"ux_books_title_lower", "idx_authors_name_trgm", "idx_books_title_trgm",
                "idx_book_loans_user_open_due_date", "ux_book_loans_user_book_open"}
<1>1. Steps = {1, 2, 3, 4, 5}
  BY DEF Steps
<1> QED BY <1>1 DEF Concurrent, Indexes

\* No two revisions create the same object.
LEMMA Disjoint ==
  /\ Initial \cap Hardened = {} /\ Initial \cap Concurrent = {} /\ Hardened \cap Concurrent = {}
  /\ Extension \notin Initial \cup Hardened \cup Concurrent
<1>1. Initial \cap Hardened = {}
  BY DEF Initial, Hardened
<1>2. Initial \cap Concurrent = {}
  BY ConcurrentListed DEF Initial
<1>3. Hardened \cap Concurrent = {}
  BY ConcurrentListed DEF Hardened
<1>4. Extension \notin Initial \cup Hardened \cup Concurrent
  BY ConcurrentListed DEF Initial, Hardened, Extension
<1> QED BY <1>1, <1>2, <1>3, <1>4

LEMMA IndexesDistinct ==
  /\ \A i \in Steps : Indexes[i] \in Concurrent
  /\ \A i, j \in Steps : Indexes[i] = Indexes[j] => i = j
BY DEF Concurrent, Indexes, Steps

\* models.py declares what the three scripts create.
LEMMA DeclaredIsCreated == Declared = Initial \cup Hardened \cup Concurrent
BY ConcurrentListed DEF Declared, Initial, Hardened

LEMMA TransactionalParts ==
  /\ Transactional(0) = {} /\ Transactional(1) = Initial
  /\ Transactional(2) = Initial \cup Hardened /\ Transactional(3) = Initial \cup Hardened
  /\ \A v \in Versions : Transactional(v) \subseteq Initial \cup Hardened
BY DEF Transactional, Versions, Latest

-----------------------------------------------------------------------------
(* One run takes a step, the others keep their place. *)

\* What changes with the place of run m.
Keeps(n) == pc'[n] = pc[n] /\ from'[n] = from[n] /\ target'[n] = target[n] /\ step'[n] = step[n]

\* A run that is not in the middle of the indexes is not disturbed by a step that
\* neither takes an index away nor the version back.
LEMMA OthersKeepRunInv ==
  ASSUME NEW n \in Migrators, RunInv(n), Keeps(n), ~Downgrades(n), ~Inside(n),
         version' >= version, Extension \in objects => Extension \in objects',
         Indexes[1] \in objects => Indexes[1] \in objects',
         version' = Latest => version = Latest \/ Indexes[1] \in objects',
         version \in Versions, version' \in Versions, from[n] \in Versions
  PROVE  RunInv(n)'
BY DEF RunInv, Keeps, Inside, Upgrades, Downgrades, Versions, Latest

\* Nor is an idle one by any step.
LEMMA IdleKeepsRunInv ==
  ASSUME NEW n \in Migrators, RunInv(n), Keeps(n), pc[n] = "idle"
  PROVE  RunInv(n)' /\ ~Inside(n)'
BY DEF RunInv, Keeps, Inside, Upgrades, Downgrades

\* The end of a run.
LEMMA Ended ==
  ASSUME TypeOK, NEW m \in Migrators, End(m)
  PROVE  /\ pc' \in [Migrators -> {"idle", "transaction", "block", "statement"}]
         /\ from' \in [Migrators -> Versions] /\ target' \in [Migrators -> Versions]
         /\ step' \in [Migrators -> 1 .. 6]
         /\ RunInv(m)' /\ ~Inside(m)'
         /\ \A n \in Migrators \ {m} : Keeps(n)
<1>1. 0 \in Versions /\ 1 \in 1 .. 6
  BY DEF Versions, Latest
<1>2. pc'[m] = "idle" /\ step'[m] = 1
  BY DEF TypeOK, End
<1>3. RunInv(m)' /\ ~Inside(m)'
  BY <1>2 DEF RunInv, Inside, Upgrades, Downgrades
<1> QED BY <1>1, <1>3 DEF TypeOK, End, Keeps

\* The indexes are neither tables nor constraints of the transactions.
LEMMA IndexesApart ==
  \A i \in Steps : /\ Indexes[i] \in Concurrent /\ Indexes[i] \notin Initial \cup Hardened
                   /\ Indexes[i] # Extension /\ Indexes[i] \in Objects
BY IndexesDistinct, Disjoint DEF Objects

-----------------------------------------------------------------------------
(* The actions *)

LEMMA BeginKeepsIInv ==
  ASSUME IInv, NEW m \in Migrators, NEW to \in Versions, Begin(m, to)
  PROVE  IInv'
<1>1. /\ pc[m] = "idle" /\ pc'[m] = (IF version = Latest THEN "block" ELSE "transaction")
      /\ from'[m] = version /\ target'[m] = to /\ step'[m] = 1 /\ to # version
      /\ \A n \in Migrators \ {m} : Keeps(n)
      /\ UNCHANGED <<version, objects, invalid, unfit>>
  BY DEF IInv, TypeOK, Begin, Keeps
<1>2. TypeOK'
  BY <1>1 DEF IInv, TypeOK, Begin, Versions
<1>3. SchemaInv' /\ PrefixInv'
  BY <1>1 DEF IInv, SchemaInv, PrefixInv
<1>4. ASSUME NEW n \in Migrators \ {m} PROVE RunInv(n)' /\ (Inside(n)' <=> Inside(n))
  <2>1. ~Downgrades(n)' /\ (Upgrades(n)' <=> Upgrades(n)) /\ (Inside(n)' <=> Inside(n))
    BY <1>1, <1>4 DEF Begin, Keeps, Upgrades, Downgrades, Inside
  <2> QED BY <1>1, <1>4, <2>1 DEF RunInv, Keeps, IInv
<1>5. ~Inside(m)'
  BY <1>1 DEF Inside
<1>6. RunInv(m)'
  <2>1. version \in Versions /\ to \in Versions
    BY DEF IInv, TypeOK
  <2>2. Upgrades(m)' => to > version /\ version < Latest
    BY <1>1, <2>1 DEF Upgrades, Versions, Latest
  <2>3. Downgrades(m)' => \A n \in Migrators \ {m} : pc'[n] = "idle"
    BY <1>1, <2>1 DEF Downgrades, Begin, Keeps
  <2>4. \A i \in Steps : ~(i > 6 - 1)
    BY DEF Steps
  <2> QED BY <1>1, <1>5, <2>1, <2>2, <2>3, <2>4 DEF RunInv, Versions, Latest
<1> QED BY <1>2, <1>3, <1>4, <1>5, <1>6 DEF IInv

LEMMA FailKeepsIInv ==
  ASSUME IInv, NEW m \in Migrators, Fail(m)
  PROVE  IInv'
<1>1. End(m) /\ UNCHANGED <<version, objects, invalid, unfit>> /\ TypeOK
  BY DEF Fail, IInv
<1>2. TypeOK'
  BY <1>1, Ended DEF TypeOK
<1>3. SchemaInv' /\ PrefixInv'
  BY <1>1 DEF IInv, SchemaInv, PrefixInv
<1>4. ASSUME NEW n \in Migrators \ {m} PROVE RunInv(n)' /\ (Inside(n)' <=> Inside(n))
  <2>1. Keeps(n) /\ pc'[m] = "idle"
    BY <1>1, Ended DEF End, TypeOK
  <2>2. /\ Upgrades(n)' <=> Upgrades(n)
        /\ Downgrades(n)' <=> Downgrades(n)
        /\ Inside(n)' <=> Inside(n)
    BY <2>1 DEF Keeps, Upgrades, Downgrades, Inside
  <2>3. (\A k \in Migrators \ {n} : pc[k] = "idle") => \A k \in Migrators \ {n} : pc'[k] = "idle"
    BY <1>1, Ended, <2>1 DEF Keeps
  <2> QED BY <1>1, <2>1, <2>2, <2>3 DEF RunInv, Keeps, IInv
<1> QED BY <1>1, <1>2, <1>3, <1>4, Ended DEF IInv

\* The application's rows.
LEMMA RowsKeepIInv ==
  ASSUME IInv, NEW c \in Violations, Violate(c) \/ Amend(c)
  PROVE  IInv'
<1>1. UNCHANGED <<version, objects, invalid, run>> /\ unfit' \subseteq unfit \cup {c}
      /\ (unfit' \subseteq unfit \/ (version >= 1 /\ c \notin objects \ invalid))
  BY DEF Violate, Amend
<1>2. TypeOK'
  BY <1>1 DEF IInv, TypeOK, run
<1>3. SchemaInv' /\ PrefixInv'
  BY <1>1 DEF IInv, SchemaInv, PrefixInv
<1>4. ASSUME NEW n \in Migrators PROVE RunInv(n)' /\ (Inside(n)' <=> Inside(n))
  BY <1>1 DEF IInv, run, RunInv, Inside, Upgrades, Downgrades
<1> QED BY <1>2, <1>3, <1>4 DEF IInv

\* Scripts that are executed in one transaction leave the schema of a version.
LEMMA Migrated ==
  ASSUME IInv, NEW v \in Versions, NEW w \in Versions, v # w, w < Latest, CanMigrate(v, w), Migrate(v, w)
  PROVE  /\ version = v /\ version' = w
         /\ objects' \subseteq Objects /\ invalid' \subseteq Concurrent /\ unfit' \subseteq Violations
         /\ SchemaInv' /\ PrefixInv'
         /\ Extension \in objects => Extension \in objects'
         /\ w > 0 => \A i \in Steps : Indexes[i] \in objects' <=> Indexes[i] \in objects
         /\ \A i \in Steps : Indexes[i] \in objects' => Indexes[i] \in objects
<1>1. /\ version = v /\ version' = w
      /\ objects \subseteq Objects /\ invalid \subseteq Concurrent /\ unfit \subseteq Violations
      /\ SchemaInv /\ PrefixInv
  BY DEF IInv, TypeOK, CanMigrate, Migrate
<1>2. CASE w = 0
  <2>1. objects' = objects \cap {Extension} /\ invalid' = {} /\ unfit' = {}
    BY <1>2 DEF Migrate
  <2>2. SchemaInv'
    BY <1>1, <1>2, <2>1, Disjoint, TransactionalParts DEF SchemaInv
  <2>3. \A i \in Steps : Indexes[i] \notin objects'
    BY <2>1, IndexesApart
  <2>4. PrefixInv'
    BY <2>3 DEF PrefixInv
  <2> QED BY <1>1, <1>2, <2>1, <2>2, <2>3, <2>4
<1>3. CASE w # 0
  <2>1. objects' = (objects \ Transactional(v)) \cup Transactional(w) /\ invalid' = invalid /\ unfit' = unfit
    BY <1>3 DEF Migrate
  <2>2. Transactional(v) \subseteq Initial \cup Hardened /\ Transactional(w) \subseteq Initial \cup Hardened
    BY TransactionalParts
  <2>3. \A x \in Concurrent \cup {Extension} : x \in objects' <=> x \in objects
    BY <2>1, <2>2, Disjoint
  <2>4. SchemaInv'
    <3>1. objects' \cap (Initial \cup Hardened) = Transactional(w)
      BY <1>1, <2>1, <2>2 DEF SchemaInv
    <3>2. invalid \subseteq objects'
      BY <1>1, <2>3 DEF SchemaInv
    <3>3. unfit \cap (objects' \ invalid) = {}
      BY <1>1, <2>1, <2>2 DEF SchemaInv, CanMigrate
    <3> QED BY <1>1, <1>3, <2>1, <3>1, <3>2, <3>3 DEF SchemaInv
  <2>5. \A i \in Steps : Indexes[i] \in objects' <=> Indexes[i] \in objects
    BY <2>3, IndexesApart
  <2>6. PrefixInv'
    BY <1>1, <2>5 DEF PrefixInv
  <2>7. objects' \subseteq Objects
    BY <1>1, <2>1, <2>2 DEF Objects
  <2> QED BY <1>1, <1>3, <2>1, <2>3, <2>4, <2>5, <2>6, <2>7
<1> QED BY <1>2, <1>3

LEMMA DowngradeTransactionKeepsIInv ==
  ASSUME IInv, NEW m \in Migrators, DowngradeTransaction(m)
  PROVE  IInv'
<1>1. /\ from[m] \in Versions /\ target[m] \in Versions /\ target[m] < from[m] /\ target[m] < Latest
      /\ CanMigrate(from[m], target[m]) /\ Migrate(from[m], target[m]) /\ End(m)
      /\ RunInv(m) /\ Downgrades(m) /\ TypeOK
  BY DEF DowngradeTransaction, Downgrades, IInv, TypeOK, Versions, Latest
<1>2. /\ SchemaInv' /\ PrefixInv' /\ version' = target[m]
      /\ objects' \subseteq Objects /\ invalid' \subseteq Concurrent /\ unfit' \subseteq Violations
  <2>1. from[m] # target[m]
    BY <1>1 DEF Versions
  <2> QED BY <1>1, <2>1, Migrated
<1>3. TypeOK'
  BY <1>1, <1>2, Ended DEF TypeOK
<1>4. ASSUME NEW n \in Migrators \ {m} PROVE RunInv(n)' /\ ~Inside(n)'
  <2>1. pc[n] = "idle" /\ Keeps(n) /\ RunInv(n)
    BY <1>1, Ended DEF RunInv, IInv
  <2> QED BY <2>1, IdleKeepsRunInv
<1> QED BY <1>1, <1>2, <1>3, <1>4, Ended DEF IInv

LEMMA UpgradeTransactionKeepsIInv ==
  ASSUME IInv, NEW m \in Migrators, UpgradeTransaction(m)
  PROVE  IInv'
<1>1. /\ from[m] \in Versions /\ target[m] \in Versions /\ from[m] < target[m]
      /\ pc[m] = "transaction" /\ Upgrades(m) /\ RunInv(m) /\ TypeOK /\ step[m] = 1
  BY DEF UpgradeTransaction, Upgrades, IInv, TypeOK, RunInv
<1>2. \A n \in Migrators : ~Downgrades(n)
  <2>1. ~Downgrades(m)
    BY <1>1 DEF Downgrades, Versions
  <2> QED BY <1>1, <2>1 DEF IInv, RunInv
\* What the step does to the schema, seen from the other runs
<1>3. ASSUME version' >= version, version' < Latest \/ version' = version, version' \in Versions,
             version' # version => version < 2,
             Extension \in objects => Extension \in objects',
             UNCHANGED invalid,
             \A i \in Steps : Indexes[i] \in objects' <=> Indexes[i] \in objects,
             NEW n \in Migrators \ {m}, Keeps(n)
      PROVE  RunInv(n)' /\ (Inside(n)' <=> Inside(n))
  <2>1. /\ Inside(n)' <=> Inside(n)
        /\ Upgrades(n)' <=> Upgrades(n)
        /\ ~Downgrades(n)'
    BY <1>2, <1>3 DEF Keeps, Inside, Upgrades, Downgrades
  <2>2. RunInv(n)
    BY DEF IInv
  <2>3. Upgrades(n) /\ pc[n] # "transaction" => version >= 2 /\ version' = version
    BY <1>1, <1>3, <2>2 DEF RunInv, TypeOK, Versions
  <2>4. Inside(n) /\ Upgrades(n) => version' = 2
    BY <1>3, <2>2, <2>3 DEF RunInv, Inside
  <2>5. Upgrades(n) /\ version' = Latest => Indexes[1] \in objects'
    BY <1>3, <2>2 DEF RunInv, Steps, Latest
  <2>6. Upgrades(n) => version' >= from'[n]
    BY <1>1, <1>3, <2>2 DEF RunInv, TypeOK, Versions, Keeps
  <2> QED BY <1>3, <2>1, <2>2, <2>3, <2>4, <2>5, <2>6 DEF RunInv, Keeps
<1>4. CASE target[m] < Latest
  <2>1. /\ CanMigrate(from[m], target[m]) /\ Migrate(from[m], target[m]) /\ End(m)
        /\ target[m] > 0
    BY <1>1, <1>4 DEF UpgradeTransaction, Versions
  <2>2. /\ SchemaInv' /\ PrefixInv' /\ version = from[m] /\ version' = target[m]
        /\ objects' \subseteq Objects /\ invalid' \subseteq Concurrent /\ unfit' \subseteq Violations
        /\ Extension \in objects => Extension \in objects'
        /\ \A i \in Steps : Indexes[i] \in objects' <=> Indexes[i] \in objects
    <3>1. from[m] # target[m]
      BY <1>1 DEF Versions
    <3> QED BY <1>1, <1>4, <2>1, <3>1, Migrated
  <2>3. UNCHANGED invalid
    BY <2>1 DEF Migrate
  <2>4. version' >= version /\ version' < Latest /\ version < 2
    BY <1>1, <1>4, <2>2 DEF Versions, Latest
  <2>5. TypeOK'
    BY <1>1, <2>1, <2>2, Ended DEF TypeOK
  <2>6. ASSUME NEW n \in Migrators \ {m} PROVE RunInv(n)' /\ (Inside(n)' <=> Inside(n))
    <3>1. Keeps(n)
      BY <1>1, <2>1, Ended
    <3>2. version' \in Versions
      BY <1>1, <2>2
    <3> QED BY <1>3, <2>2, <2>3, <2>4, <3>1, <3>2
  <2> QED BY <1>1, <2>1, <2>2, <2>5, <2>6, Ended DEF IInv
<1>5. CASE target[m] = Latest
  <2>1. /\ from[m] < 2 => CanMigrate(from[m], 2)
        /\ version' = IF from[m] < 2 THEN 2 ELSE version
        /\ objects' = (objects \cup {Extension}) \cup IF from[m] < 2 THEN Transactional(2) ELSE {}
        /\ pc' = [pc EXCEPT ![m] = "block"]
        /\ UNCHANGED <<invalid, unfit, from, target, step>>
    BY <1>5 DEF UpgradeTransaction, Latest
  <2>2. /\ version' >= version /\ version' \in Versions
        /\ version' < Latest \/ version' = version
        /\ version' # version => version < 2
        /\ version' = version \/ (version = from[m] /\ version' = 2)
    BY <1>1, <2>1 DEF CanMigrate, TypeOK, Versions, Latest
  <2>3. \A i \in Steps : Indexes[i] \in objects' <=> Indexes[i] \in objects
    BY <2>1, IndexesApart, TransactionalParts
  <2>4. Extension \in objects'
    BY <2>1
  <2>5. TypeOK'
    <3>1. objects' \subseteq Objects
      BY <1>1, <2>1, TransactionalParts DEF TypeOK, Objects
    <3> QED BY <1>1, <2>1, <2>2, <3>1 DEF TypeOK
  <2>6. SchemaInv'
    <3>1. CASE from[m] < 2
      <4>1. /\ version' = 2 /\ version = from[m] /\ unfit' = unfit /\ invalid' = invalid
            /\ objects' = objects \cup {Extension} \cup Initial \cup Hardened
        BY <2>1, <3>1, TransactionalParts DEF CanMigrate
      <4>2. unfit \cap (objects' \ invalid) = {}
        <5>1. unfit \cap ((Initial \cup Hardened) \ Transactional(version)) = {}
          BY <2>1, <3>1, <4>1, TransactionalParts DEF CanMigrate
        <5>2. Transactional(version) \subseteq objects /\ unfit \cap (objects \ invalid) = {}
          BY DEF IInv, SchemaInv
        <5>3. Extension \notin unfit
          BY <1>1, WhatRowsViolate, Disjoint DEF TypeOK
        <5> QED BY <4>1, <5>1, <5>2, <5>3
      <4>3. objects' \cap (Initial \cup Hardened) = Transactional(2)
        BY <4>1, TransactionalParts, Disjoint
      <4> QED BY <4>1, <4>2, <4>3 DEF IInv, SchemaInv
    <3>2. CASE ~(from[m] < 2)
      <4>1. UNCHANGED <<version, invalid, unfit>> /\ objects' = objects \cup {Extension}
        BY <2>1, <3>2
      <4>2. Extension \notin unfit
        BY <1>1, WhatRowsViolate, Disjoint DEF TypeOK
      <4> QED BY <4>1, <4>2, Disjoint DEF IInv, SchemaInv
    <3> QED BY <3>1, <3>2
  <2>7. PrefixInv'
    BY <2>3 DEF IInv, PrefixInv
  <2>8. ASSUME NEW n \in Migrators \ {m} PROVE RunInv(n)' /\ (Inside(n)' <=> Inside(n))
    <3>1. Keeps(n)
      BY <1>1, <2>1 DEF Keeps, TypeOK
    <3> QED BY <1>3, <2>1, <2>2, <2>3, <2>4, <3>1
  <2>9. pc'[m] = "block" /\ from'[m] = from[m] /\ target'[m] = target[m] /\ step'[m] = 1
    BY <1>1, <2>1 DEF TypeOK
  <2>10. ~Inside(m)' /\ ~Downgrades(m)'
    BY <1>1, <2>9 DEF Inside, Downgrades, Versions
  <2>11. version' = Latest => Indexes[1] \in objects'
    BY <1>1, <2>2, <2>3 DEF RunInv, Steps, Latest
  <2>12. version' >= 2
    BY <1>1, <2>1, <2>2 DEF RunInv, TypeOK, Latest, Versions
  <2>13. version' >= from'[m]
    BY <1>1, <2>2, <2>9 DEF RunInv, TypeOK, Versions
  <2>14. RunInv(m)'
    BY <1>1, <1>5, <2>4, <2>9, <2>10, <2>11, <2>12, <2>13 DEF RunInv
  <2> QED BY <2>5, <2>6, <2>7, <2>8, <2>10, <2>14 DEF IInv
<1>6. target[m] < Latest \/ target[m] = Latest
  BY <1>1 DEF Versions, Latest
<1> QED BY <1>4, <1>5, <1>6

\* A statement of an upgrade is the next index, one of a downgrade the last one
\* that is left.
LEMMA StatementIndex ==
  ASSUME IInv, NEW m \in Migrators, pc[m] \in {"block", "statement"}, step[m] <= 5
  PROVE  /\ Upgrades(m) \/ Downgrades(m)
         /\ Upgrades(m) => ~Downgrades(m) /\ step[m] \in Steps /\ Index(m) = Indexes[step[m]]
         /\ Downgrades(m) => ~Upgrades(m) /\ 6 - step[m] \in Steps /\ Index(m) = Indexes[6 - step[m]]
         /\ Index(m) \in Concurrent /\ Index(m) \notin Initial \cup Hardened
         /\ Index(m) # Extension /\ Index(m) \in Objects
<1>1. /\ from[m] \in Versions /\ target[m] \in Versions /\ from[m] # target[m]
      /\ step[m] \in 1 .. 6
  BY DEF IInv, TypeOK, RunInv
<1>2. step[m] \in Steps /\ 6 - step[m] \in Steps
  BY <1>1 DEF Steps
<1>3. (Upgrades(m) /\ ~Downgrades(m)) \/ (Downgrades(m) /\ ~Upgrades(m))
  BY <1>1 DEF Upgrades, Downgrades, Versions
<1>4. /\ Upgrades(m) => Index(m) = Indexes[step[m]]
      /\ Downgrades(m) => Index(m) = Indexes[6 - step[m]]
  BY <1>1 DEF Index, Upgrades, Downgrades, Versions
<1> QED BY <1>2, <1>3, <1>4, IndexesApart

\* While a downgrade is at work, all other runs stay idle.
LEMMA DowngradeIsAlone ==
  ASSUME IInv, NEW m \in Migrators, Downgrades(m), \A n \in Migrators \ {m} : Keeps(n),
         NEW n \in Migrators \ {m}
  PROVE  RunInv(n)' /\ ~Inside(n)'
<1>1. pc[n] = "idle" /\ Keeps(n) /\ RunInv(n)
  BY DEF IInv, RunInv
<1> QED BY <1>1, IdleKeepsRunInv

LEMMA StartStatementKeepsIInv ==
  ASSUME IInv, NEW m \in Migrators, StartStatement(m)
  PROVE  IInv'
<1> DEFINE x == Index(m)
<1>1. /\ pc[m] = "block" /\ step[m] <= 5 /\ step[m] \in 1 .. 6 /\ TypeOK /\ RunInv(m)
      /\ objects' = objects \cup {x} /\ invalid' = invalid \cup {x}
      /\ pc'[m] = "statement" /\ UNCHANGED <<version, unfit, from, target, step>>
      /\ \A n \in Migrators \ {m} : Keeps(n)
  BY DEF StartStatement, IInv, TypeOK, Keeps
<1>2. /\ x \in Concurrent /\ x \notin Initial \cup Hardened /\ x # Extension /\ x \in Objects
      /\ Upgrades(m) => ~Downgrades(m) /\ step[m] \in Steps /\ x = Indexes[step[m]]
      /\ Downgrades(m) => ~Upgrades(m) /\ 6 - step[m] \in Steps /\ x = Indexes[6 - step[m]]
      /\ Upgrades(m) \/ Downgrades(m)
  BY <1>1, StatementIndex
<1>3. Upgrades(m) => x \notin objects /\ Initial \subseteq objects
  BY DEF StartStatement, CanCreate
<1>4. Downgrades(m) => x \in objects
  BY <1>2 DEF StartStatement
<1> HIDE DEF x
<1>5. TypeOK'
  <2>1. pc' \in [Migrators -> {"idle", "transaction", "block", "statement"}]
    BY <1>1 DEF TypeOK, StartStatement
  <2> QED BY <1>1, <1>2, <2>1 DEF TypeOK
<1>6. /\ Upgrades(m)' <=> Upgrades(m)
      /\ Downgrades(m)' <=> Downgrades(m)
      /\ Inside(m)'
  BY <1>1 DEF Upgrades, Downgrades, Inside
<1>7. SchemaInv'
  <2>1. version # 0
    <3>1. Upgrades(m) => version >= 2
      BY <1>1 DEF RunInv
    <3>2. Downgrades(m) => version = Latest
      BY <1>1 DEF RunInv
    <3> QED BY <1>1, <1>2, <3>1, <3>2 DEF TypeOK, Versions, Latest
  <2> QED BY <1>1, <1>2, <2>1 DEF IInv, SchemaInv
<1>8. CASE Upgrades(m)
  <2>1. /\ version >= 2 /\ target[m] = Latest /\ Extension \in objects /\ version \in Versions
        /\ step[m] \in Steps /\ x = Indexes[step[m]] /\ x \notin objects
    BY <1>1, <1>2, <1>3, <1>8 DEF RunInv, TypeOK
  <2>2. \A i \in Steps : Indexes[i] \in objects <=> i < step[m]
    <3>1. CASE step[m] > 1
      BY <1>1, <1>8, <3>1 DEF RunInv, Inside
    <3>2. CASE step[m] = 1
      <4>1. \A i \in Steps : 1 < i => Indexes[i] \notin objects
        BY <2>1, <3>2 DEF IInv, PrefixInv, Steps
      <4> QED BY <2>1, <3>2, <4>1 DEF Steps
    <3> QED BY <1>1, <3>1, <3>2
  <2>3. version = 2
    <3>1. step[m] > 1 => version = 2
      BY <1>1, <1>8 DEF RunInv, Inside
    <3>2. step[m] = 1 => version # Latest
      BY <1>1, <1>8, <2>1 DEF RunInv
    <3> QED BY <1>1, <2>1, <3>1, <3>2 DEF Versions, Latest
  <2>4. \A i \in Steps : Indexes[i] \in invalid => FALSE
    <3>1. step[m] > 1 => \A i \in Steps : Indexes[i] \in invalid => FALSE
      BY <1>1, <1>8 DEF RunInv, Inside
    <3>2. step[m] = 1 => \A i \in Steps : Indexes[i] \notin objects
      BY <2>2 DEF Steps
    <3> QED BY <1>1, <3>1, <3>2 DEF IInv, SchemaInv
  <2>5. \A i \in Steps : Indexes[i] = x => i = step[m]
    BY <2>1, IndexesDistinct
  <2>6. \A i \in Steps : Indexes[i] \in objects' <=> i < step[m] \/ i = step[m]
    BY <1>1, <2>1, <2>2, <2>5
  <2>7. PrefixInv'
    BY <1>1, <2>6 DEF PrefixInv, Steps
  <2>8. RunInv(m)'
    <3>1. \A i \in Steps : Indexes[i] \in invalid' => i = step[m]
      BY <1>1, <2>4, <2>5
    <3>2. Indexes[1] \in objects' /\ Extension \in objects'
      BY <1>1, <2>1, <2>6 DEF Steps
    <3>3. ~Downgrades(m)' /\ from'[m] # target'[m] /\ version' >= from'[m]
      BY <1>1, <1>2, <1>6, <1>8 DEF RunInv
    <3> QED BY <1>1, <1>6, <2>1, <2>3, <2>6, <3>1, <3>2, <3>3 DEF RunInv
  <2>9. ASSUME NEW n \in Migrators \ {m} PROVE RunInv(n)' /\ ~Inside(n)'
    <3>1. ~Inside(n)
      <4>1. SUFFICES ASSUME Inside(n) PROVE FALSE
        OBVIOUS
      <4>2. RunInv(n) /\ ~Downgrades(n) /\ from[n] \in Versions /\ target[n] \in Versions /\ step[n] \in 1 .. 6
        BY <1>1, <1>8 DEF IInv, RunInv, TypeOK
      <4>3. Upgrades(n)
        BY <4>1, <4>2 DEF Inside, Upgrades, Downgrades, RunInv, Versions
      <4>4. Indexes[1] \in objects
        BY <4>1, <4>2, <4>3 DEF RunInv, Inside, Steps
      <4>5. step[m] > 1
        BY <2>2, <4>4 DEF Steps
      <4> QED BY <1>1, <4>1, <4>5 DEF IInv, Inside
    <3>2. RunInv(n) /\ ~Downgrades(n) /\ Keeps(n) /\ from[n] \in Versions
      BY <1>1, <1>8 DEF IInv, RunInv, TypeOK
    <3>3. RunInv(n)'
      BY <1>1, <2>1, <3>1, <3>2, OthersKeepRunInv DEF Versions, Latest
    <3>4. ~Inside(n)'
      BY <3>1, <3>2 DEF Inside, Keeps
    <3> QED BY <3>3, <3>4
  <2> QED BY <1>5, <1>7, <2>7, <2>8, <2>9 DEF IInv
<1>9. CASE Downgrades(m)
  <2>1. objects' = objects
    BY <1>1, <1>4, <1>9
  <2>2. PrefixInv'
    BY <2>1 DEF IInv, PrefixInv
  <2>3. RunInv(m)'
    <3>1. ~Upgrades(m)'
      BY <1>2, <1>6, <1>9
    <3>2. \A n \in Migrators \ {m} : pc'[n] = "idle"
      BY <1>1, <1>9 DEF RunInv, Keeps
    <3> QED BY <1>1, <1>6, <1>9, <2>1, <3>1, <3>2 DEF RunInv
  <2> QED BY <1>1, <1>5, <1>7, <1>9, <2>2, <2>3, DowngradeIsAlone DEF IInv
<1> QED BY <1>2, <1>8, <1>9

\* The only run that is in the middle of the indexes goes on; others have not
\* begun with them, or are idle.
LEMMA BesideTheBuilder ==
  ASSUME IInv, NEW m \in Migrators, Inside(m), NEW n \in Migrators \ {m}, Keeps(n),
         version' >= version, version' \in Versions, UNCHANGED objects, ~Downgrades(m),
         version' = Latest => Indexes[1] \in objects
  PROVE  RunInv(n)' /\ ~Inside(n)'
<1>1. RunInv(n) /\ ~Inside(n) /\ from[n] \in Versions /\ version \in Versions
  BY DEF IInv, TypeOK
<1>2. ~Downgrades(n)
  BY <1>1 DEF RunInv, Inside
<1>3. RunInv(n)'
  BY <1>1, <1>2, OthersKeepRunInv
<1> QED BY <1>1, <1>3 DEF Inside, Keeps

LEMMA FinishStatementKeepsIInv ==
  ASSUME IInv, NEW m \in Migrators, FinishStatement(m)
  PROVE  IInv'
<1> DEFINE x == Index(m)
<1>1. /\ pc[m] = "statement" /\ step[m] <= 5 /\ step[m] \in 1 .. 6 /\ TypeOK /\ RunInv(m)
      /\ x \in objects /\ invalid' = invalid \ {x}
      /\ pc'[m] = "block" /\ step'[m] = step[m] + 1 /\ UNCHANGED <<version, unfit, from, target>>
      /\ \A n \in Migrators \ {m} : Keeps(n)
  BY DEF FinishStatement, IInv, TypeOK, RunInv, Keeps
<1>2. /\ x \in Concurrent /\ x \notin Initial \cup Hardened /\ x # Extension /\ x \in Objects
      /\ Upgrades(m) => ~Downgrades(m) /\ step[m] \in Steps /\ x = Indexes[step[m]]
      /\ Downgrades(m) => ~Upgrades(m) /\ 6 - step[m] \in Steps /\ x = Indexes[6 - step[m]]
      /\ Upgrades(m) \/ Downgrades(m)
  BY <1>1, StatementIndex
<1>3. Upgrades(m) => x \notin unfit /\ UNCHANGED objects
  BY DEF FinishStatement
<1>4. Downgrades(m) => objects' = objects \ {x}
  BY <1>2 DEF FinishStatement
<1> HIDE DEF x
<1>5. TypeOK'
  <2>1. pc' \in [Migrators -> {"idle", "transaction", "block", "statement"}]
    BY <1>1 DEF TypeOK, FinishStatement
  <2>2. step' \in [Migrators -> 1 .. 6]
    BY <1>1 DEF TypeOK, FinishStatement
  <2>3. objects' \subseteq Objects
    BY <1>1, <1>2, <1>3, <1>4 DEF TypeOK
  <2> QED BY <1>1, <1>2, <2>1, <2>2, <2>3 DEF TypeOK
<1>6. /\ Upgrades(m)' <=> Upgrades(m)
      /\ Downgrades(m)' <=> Downgrades(m)
      /\ Inside(m) /\ Inside(m)'
  BY <1>1 DEF Upgrades, Downgrades, Inside
<1>7. CASE Upgrades(m)
  <2>1. UNCHANGED objects /\ x \notin unfit /\ step[m] \in Steps /\ x = Indexes[step[m]]
    BY <1>2, <1>3, <1>7
  <2>2. SchemaInv' /\ PrefixInv'
    BY <1>1, <2>1 DEF IInv, SchemaInv, PrefixInv
  <2>3. /\ version = 2 /\ target[m] = Latest /\ Extension \in objects
        /\ \A i \in Steps : Indexes[i] \in objects <=> i < step[m] \/ i = step[m]
        /\ \A i \in Steps : Indexes[i] \in invalid => i = step[m]
    BY <1>1, <1>6, <1>7 DEF RunInv
  <2>4. RunInv(m)'
    <3>1. \A i \in Steps : Indexes[i] \in objects' <=> i < step'[m]
      BY <1>1, <2>1, <2>3 DEF Steps
    <3>2. \A i \in Steps : Indexes[i] \notin invalid'
      BY <1>1, <2>1, <2>3
    <3>3. ~Downgrades(m)' /\ from'[m] # target'[m] /\ version' >= from'[m] /\ version' # Latest
      BY <1>1, <1>2, <1>6, <1>7, <2>3 DEF RunInv, Latest
    <3>4. \A i \in Steps : Indexes[i] \in objects' <=> i < step'[m] \/ (i = step'[m] /\ pc'[m] = "statement")
      BY <1>1, <3>1
    <3> QED BY <1>1, <2>1, <2>3, <3>2, <3>3, <3>4 DEF RunInv
  <2>5. ASSUME NEW n \in Migrators \ {m} PROVE RunInv(n)' /\ ~Inside(n)'
    BY <1>1, <1>2, <1>6, <1>7, <2>1, <2>3, BesideTheBuilder DEF Versions, Latest
  <2> QED BY <1>5, <2>2, <2>4, <2>5 DEF IInv
<1>8. CASE Downgrades(m)
  <2>1. /\ objects' = objects \ {x} /\ 6 - step[m] \in Steps /\ x = Indexes[6 - step[m]]
        /\ version = Latest /\ from[m] = Latest
        /\ \A i \in Steps : i > 6 - step[m] => Indexes[i] \notin objects
    BY <1>1, <1>2, <1>4, <1>8 DEF RunInv
  <2>2. \A i \in Steps : i > 6 - step'[m] => Indexes[i] \notin objects'
    BY <1>1, <2>1 DEF Steps
  <2>3. \A i \in Steps : i < 6 - step[m] => (Indexes[i] \in objects' <=> Indexes[i] \in objects)
    BY <2>1, IndexesDistinct DEF Steps
  <2>4. PrefixInv'
    BY <1>1, <2>1, <2>2, <2>3 DEF IInv, PrefixInv, Steps
  <2>5. SchemaInv'
    <3>1. version' # 0
      BY <1>1, <2>1 DEF Latest
    <3> QED BY <1>1, <1>2, <2>1, <3>1 DEF IInv, SchemaInv
  <2>6. RunInv(m)'
    <3>1. ~Upgrades(m)'
      BY <1>2, <1>6, <1>8
    <3>2. \A n \in Migrators \ {m} : pc'[n] = "idle"
      BY <1>1, <1>8 DEF RunInv, Keeps
    <3> QED BY <1>1, <1>8, <2>1, <2>2, <3>1, <3>2 DEF RunInv
  <2> QED BY <1>1, <1>5, <1>8, <2>4, <2>5, <2>6, DowngradeIsAlone DEF IInv
<1> QED BY <1>2, <1>7, <1>8

\* When an upgrade has built all indexes ...
LEMMA AllBuilt ==
  ASSUME IInv, NEW m \in Migrators, pc[m] = "block", step[m] = 6, Upgrades(m)
  PROVE  /\ version = 2 /\ Concurrent \subseteq objects /\ invalid = {} /\ Inside(m) /\ ~Downgrades(m)
         /\ Indexes[1] \in objects
<1>1. RunInv(m) /\ Inside(m) /\ TypeOK
  BY DEF IInv, Inside
<1>2. version = 2 /\ \A i \in Steps : Indexes[i] \in objects /\ Indexes[i] \notin invalid
  BY <1>1 DEF RunInv, Steps
<1>3. Concurrent \subseteq objects /\ invalid = {}
  BY <1>1, <1>2 DEF Concurrent, TypeOK
<1>4. ~Downgrades(m)
  BY <1>1 DEF Upgrades, Downgrades, TypeOK, Versions
<1> QED BY <1>1, <1>2, <1>3, <1>4 DEF Steps

LEMMA LeaveBlockKeepsIInv ==
  ASSUME IInv, NEW m \in Migrators, LeaveBlock(m)
  PROVE  IInv'
<1>1. pc[m] = "block" /\ step[m] = 6 /\ TypeOK /\ RunInv(m) /\ UNCHANGED <<objects, invalid, unfit>>
  BY DEF LeaveBlock, IInv
<1>2. CASE Upgrades(m)
  <2>1. /\ version = 2 /\ version' = Latest /\ End(m) /\ Inside(m) /\ ~Downgrades(m)
        /\ Indexes[1] \in objects
    BY <1>1, <1>2, AllBuilt DEF LeaveBlock
  <2>2. TypeOK'
    BY <1>1, <2>1, Ended DEF TypeOK, Versions, Latest
  <2>3. SchemaInv' /\ PrefixInv'
    BY <1>1, <2>1, TransactionalParts DEF IInv, SchemaInv, PrefixInv, Latest
  <2>4. ASSUME NEW n \in Migrators \ {m} PROVE RunInv(n)' /\ ~Inside(n)'
    <3>1. Keeps(n) /\ version' >= version /\ version' \in Versions
      BY <1>1, <2>1, Ended DEF Versions, Latest
    <3> QED BY <1>1, <2>1, <3>1, BesideTheBuilder
  <2> QED BY <1>1, <2>1, <2>2, <2>3, <2>4, Ended DEF IInv
<1>3. CASE ~Upgrades(m)
  <2>1. /\ pc' = [pc EXCEPT ![m] = "transaction"]
        /\ UNCHANGED <<version, objects, invalid, unfit, from, target, step>>
    BY <1>3 DEF LeaveBlock
  <2>2. Downgrades(m)
    BY <1>1, <1>3 DEF Upgrades, Downgrades, RunInv, TypeOK, Versions
  <2>3. /\ pc'[m] = "transaction" /\ ~Upgrades(m)' /\ ~Inside(m)'
        /\ \A n \in Migrators \ {m} : Keeps(n)
    BY <1>1, <1>3, <2>1 DEF TypeOK, Keeps, Upgrades, Inside
  <2>4. TypeOK'
    BY <1>1, <2>1 DEF TypeOK
  <2>5. SchemaInv' /\ PrefixInv'
    BY <2>1 DEF IInv, SchemaInv, PrefixInv
  <2>6. Concurrent \cap objects = {}
    BY <1>1, <2>2 DEF RunInv, Concurrent, Steps
  <2>7. RunInv(m)'
    <3>1. \A n \in Migrators \ {m} : pc'[n] = "idle"
      BY <1>1, <2>2, <2>3 DEF RunInv, Keeps
    <3> QED BY <1>1, <2>1, <2>2, <2>3, <2>6, <3>1 DEF RunInv, Downgrades
  <2> QED BY <2>2, <2>3, <2>4, <2>5, <2>7, DowngradeIsAlone DEF IInv
<1> QED BY <1>2, <1>3

-----------------------------------------------------------------------------
(* The theorems *)

LEMMA InitIInv == Init => IInv
<1> SUFFICES ASSUME Init PROVE IInv
  OBVIOUS
<1>1. TypeOK
  BY DEF Init, TypeOK, Versions, Latest
<1>2. SchemaInv /\ PrefixInv
  BY TransactionalParts DEF Init, SchemaInv, PrefixInv
<1>3. ASSUME NEW m \in Migrators PROVE RunInv(m) /\ ~Inside(m)
  BY DEF Init, RunInv, Inside, Upgrades, Downgrades
<1> QED BY <1>1, <1>2, <1>3 DEF IInv

LEMMA NextIInv == IInv /\ [Next]_vars => IInv'
<1> SUFFICES ASSUME IInv, [Next]_vars PROVE IInv'
  OBVIOUS
<1>1. ASSUME NEW m \in Migrators, NEW to \in Targets, Begin(m, to) PROVE IInv'
  BY <1>1, TargetVersions, BeginKeepsIInv
<1>2. CASE UNCHANGED vars
  BY <1>2 DEF vars, run, IInv, TypeOK, SchemaInv, PrefixInv, RunInv, Inside, Upgrades, Downgrades
<1> QED BY <1>1, <1>2, UpgradeTransactionKeepsIInv, DowngradeTransactionKeepsIInv,
           StartStatementKeepsIInv, FinishStatementKeepsIInv, LeaveBlockKeepsIInv,
           FailKeepsIInv, RowsKeepIInv DEF Next

\* The schema agrees with its version between any two statements, valid
\* constraints are kept by all rows, the last revision's indexes are built from
\* one end and dropped from the other, by one run at a time (env.py:65-70,
\* 4c9f3a1b2d7e:21-84).
THEOREM InductiveInvariant == Spec => []IInv
<1>1. Init => IInv
  BY InitIInv
<1>2. IInv /\ [Next]_vars => IInv'
  BY NextIInv
<1> QED BY <1>1, <1>2, PTL DEF Spec

\* The step to the head of the chain, and steps to other versions.
LEMMA StepToLatest ==
  ASSUME IInv, [Next]_vars, version # Latest, version' = Latest
  PROVE  \E m \in Migrators : LeaveBlock(m) /\ Upgrades(m)
<1>1. PICK m \in Migrators : UpgradeTransaction(m) \/ DowngradeTransaction(m) \/ LeaveBlock(m)
  BY DEF Next, vars, Begin, StartStatement, FinishStatement, Fail, Violate, Amend
<1>2. from[m] \in Versions /\ target[m] \in Versions
  BY DEF IInv, TypeOK
<1>3. ~UpgradeTransaction(m)
  BY <1>2 DEF UpgradeTransaction, Migrate, Latest, Versions
<1>4. ~DowngradeTransaction(m)
  BY <1>2 DEF DowngradeTransaction, Migrate, Downgrades, Latest, Versions
<1> QED BY <1>1, <1>3, <1>4 DEF LeaveBlock

\* An upgrade that reaches the head has made the schema of models.py, for any
\* history of interrupted, overlapping and repeated runs (4c9f3a1b2d7e:25).
THEOREM LatestIsDeclaredHolds == Spec => LatestIsDeclared
<1>1. IInv /\ [Next]_vars => [version # Latest /\ version' = Latest =>
        /\ objects' \ {Extension} = Declared /\ invalid' = {}
        /\ unfit' \cap Declared = {}]_vars
  <2> SUFFICES ASSUME IInv, [Next]_vars, version # Latest, version' = Latest
               PROVE  /\ objects' \ {Extension} = Declared /\ invalid' = {}
                      /\ unfit' \cap Declared = {}
    OBVIOUS
  <2>1. PICK m \in Migrators : LeaveBlock(m) /\ Upgrades(m)
    BY StepToLatest
  <2>2. /\ version = 2 /\ Concurrent \subseteq objects /\ invalid = {}
        /\ UNCHANGED <<objects, invalid, unfit>>
    BY <2>1, AllBuilt DEF LeaveBlock
  <2>3. /\ objects \subseteq Objects /\ Initial \cup Hardened \subseteq objects
        /\ unfit \cap objects = {}
    BY <2>2, TransactionalParts DEF IInv, TypeOK, SchemaInv
  <2>4. objects \ {Extension} = Declared
    BY <2>2, <2>3, DeclaredIsCreated, Disjoint DEF Objects
  <2> QED BY <2>2, <2>3, <2>4
<1> QED BY <1>1, InductiveInvariant, PTL DEF Spec, LatestIsDeclared

\* Only the end of the tables takes the first index away from a half-built
\* schema, and nothing completes one that a downgrade left (4c9f3a1b2d7e:26, 72).
THEOREM RepetitionDoesNotRepairHolds == Spec => RepetitionDoesNotRepair
<1>1. ASSUME IInv, [Next]_vars, HalfBuilt PROVE HalfBuilt' \/ version' = 0
  <2>1. /\ version < Latest /\ version \in Versions /\ Indexes[1] \in objects
        /\ \A n \in Migrators : pc[n] # "statement" /\ step[n] = 1
    BY <1>1 DEF HalfBuilt, NobodyInside, IInv, TypeOK
  <2>2. ASSUME version' < Latest, Indexes[1] \in objects',
               \A n \in Migrators : pc'[n] # "statement" /\ step'[n] = 1
        PROVE  HalfBuilt'
    BY <2>2 DEF HalfBuilt, NobodyInside
  <2>3. ASSUME NEW m \in Migrators, NEW to \in Targets, Begin(m, to) PROVE HalfBuilt'
    BY <1>1, <2>1, <2>2, <2>3 DEF Begin, IInv, TypeOK
  <2>4. ASSUME NEW m \in Migrators, End(m), version' < Latest, Indexes[1] \in objects' PROVE HalfBuilt'
    BY <1>1, <2>1, <2>2, <2>4 DEF End, IInv, TypeOK
  <2>5. ASSUME NEW m \in Migrators, UpgradeTransaction(m) PROVE HalfBuilt'
    <3>1. /\ from[m] \in Versions /\ target[m] \in Versions /\ from[m] < target[m]
      BY <1>1, <2>5 DEF UpgradeTransaction, Upgrades, IInv, TypeOK
    <3>2. CASE target[m] < Latest
      <4>1. /\ CanMigrate(from[m], target[m]) /\ Migrate(from[m], target[m]) /\ End(m)
            /\ target[m] > 0 /\ from[m] # target[m]
        BY <2>5, <3>1, <3>2 DEF UpgradeTransaction, Versions
      <4>2. version' < Latest /\ Indexes[1] \in objects'
        BY <1>1, <2>1, <3>1, <3>2, <4>1, Migrated DEF Steps
      <4> QED BY <2>4, <4>1, <4>2
    <3>3. CASE ~(target[m] < Latest)
      BY <1>1, <2>1, <2>2, <2>5, <3>3 DEF UpgradeTransaction, IInv, TypeOK, Latest
    <3> QED BY <3>2, <3>3
  <2>6. ASSUME NEW m \in Migrators, DowngradeTransaction(m) PROVE HalfBuilt' \/ version' = 0
    <3>1. /\ from[m] \in Versions /\ target[m] \in Versions /\ from[m] # target[m] /\ target[m] < Latest
          /\ CanMigrate(from[m], target[m]) /\ Migrate(from[m], target[m]) /\ End(m)
      BY <1>1, <2>6 DEF DowngradeTransaction, Downgrades, IInv, TypeOK, Versions, Latest
    <3>2. CASE target[m] > 0
      <4>1. version' < Latest /\ Indexes[1] \in objects'
        BY <1>1, <2>1, <3>1, <3>2, Migrated DEF Steps
      <4> QED BY <2>4, <3>1, <4>1
    <3> QED BY <3>1, <3>2 DEF Migrate, Versions
  <2>7. ASSUME NEW m \in Migrators PROVE ~StartStatement(m)
    <3>1. SUFFICES ASSUME StartStatement(m) PROVE FALSE
      OBVIOUS
    <3>2. pc[m] = "block" /\ step[m] = 1 /\ RunInv(m)
      BY <1>1, <2>1, <3>1 DEF StartStatement, IInv
    <3>3. Upgrades(m) \/ Downgrades(m)
      BY <1>1, <3>2, StatementIndex
    <3>4. ~Downgrades(m)
      BY <2>1, <3>2 DEF RunInv, Latest
    <3>5. Index(m) = Indexes[1]
      BY <1>1, <3>2, <3>3, <3>4, StatementIndex
    <3> QED BY <2>1, <3>1, <3>3, <3>4, <3>5 DEF StartStatement, CanCreate
  <2>8. ASSUME NEW m \in Migrators PROVE ~FinishStatement(m) /\ ~LeaveBlock(m)
    BY <2>1 DEF FinishStatement, LeaveBlock
  <2>9. ASSUME NEW m \in Migrators, Fail(m) PROVE HalfBuilt'
    BY <2>1, <2>4, <2>9 DEF Fail
  <2>10. ASSUME NEW c \in Violations, Violate(c) \/ Amend(c) PROVE HalfBuilt'
    BY <2>1, <2>2, <2>10 DEF Violate, Amend, run
  <2>11. CASE UNCHANGED vars
    BY <2>1, <2>2, <2>11 DEF vars, run
  <2> QED BY <1>1, <2>3, <2>5, <2>6, <2>7, <2>8, <2>9, <2>10, <2>11 DEF Next
<1>2. ASSUME IInv, [Next]_vars, HalfDropped PROVE HalfDropped'
  <2>1. /\ version = Latest /\ Indexes[5] \notin objects
        /\ \A n \in Migrators : pc[n] # "statement" /\ step[n] = 1
    BY <1>2 DEF HalfDropped, NobodyInside
  <2>2. ASSUME version' = Latest, Indexes[5] \notin objects',
               \A n \in Migrators : pc'[n] # "statement" /\ step'[n] = 1
        PROVE  HalfDropped'
    BY <2>2 DEF HalfDropped, NobodyInside
  <2>3. ASSUME NEW m \in Migrators, NEW to \in Targets, Begin(m, to) PROVE HalfDropped'
    BY <1>2, <2>1, <2>2, <2>3 DEF Begin, IInv, TypeOK
  <2>4. ASSUME NEW m \in Migrators, UpgradeTransaction(m) PROVE HalfDropped'
    <3>1. /\ from[m] \in Versions /\ target[m] \in Versions /\ from[m] < target[m] /\ pc' = [pc EXCEPT ![m] = "block"]
          /\ version' = version /\ objects' = objects \cup {Extension} /\ UNCHANGED step
      BY <1>2, <2>1, <2>4 DEF UpgradeTransaction, Upgrades, CanMigrate, IInv, TypeOK, Versions, Latest
    <3>2. Indexes[5] # Extension
      BY IndexesApart DEF Steps
    <3> QED BY <1>2, <2>1, <2>2, <3>1, <3>2 DEF IInv, TypeOK
  <2>5. ASSUME NEW m \in Migrators PROVE ~DowngradeTransaction(m)
    BY <1>2, <2>1 DEF DowngradeTransaction, CanMigrate, IInv, RunInv
  <2>6. ASSUME NEW m \in Migrators PROVE ~StartStatement(m)
    <3>1. SUFFICES ASSUME StartStatement(m) PROVE FALSE
      OBVIOUS
    <3>2. pc[m] = "block" /\ step[m] = 1 /\ RunInv(m)
      BY <1>2, <2>1, <3>1 DEF StartStatement, IInv
    <3>3. /\ Upgrades(m) \/ Downgrades(m)
          /\ Upgrades(m) => ~Downgrades(m) /\ Index(m) = Indexes[1]
          /\ Downgrades(m) => ~Upgrades(m) /\ Index(m) = Indexes[5]
      BY <1>2, <3>2, StatementIndex
    <3>4. Upgrades(m) => Indexes[1] \in objects
      BY <2>1, <3>2 DEF RunInv
    <3> QED BY <2>1, <3>1, <3>3, <3>4 DEF StartStatement, CanCreate
  <2>7. ASSUME NEW m \in Migrators PROVE ~FinishStatement(m) /\ ~LeaveBlock(m)
    BY <2>1 DEF FinishStatement, LeaveBlock
  <2>8. ASSUME NEW m \in Migrators, Fail(m) PROVE HalfDropped'
    BY <1>2, <2>1, <2>2, <2>8 DEF Fail, End, IInv, TypeOK
  <2>9. ASSUME NEW c \in Violations, Violate(c) \/ Amend(c) PROVE HalfDropped'
    BY <2>1, <2>2, <2>9 DEF Violate, Amend, run
  <2>10. CASE UNCHANGED vars
    BY <2>1, <2>2, <2>10 DEF vars, run
  <2> QED BY <1>2, <2>3, <2>4, <2>5, <2>6, <2>7, <2>8, <2>9, <2>10 DEF Next
<1>3. IInv /\ [Next]_vars => [/\ HalfBuilt => HalfBuilt' \/ version' = 0
                              /\ HalfDropped => HalfDropped']_vars
  BY <1>1, <1>2
<1> QED BY <1>3, InductiveInvariant, PTL DEF Spec, RepetitionDoesNotRepair

=============================================================================
