------------------------------ MODULE Migrations ------------------------------
(***************************************************************************)
(* The database schema and the alembic runs that migrate it.               *)
(*                                                                         *)
(* A run reads the version of the schema and executes the scripts from     *)
(* there to its target.  All of them share one transaction (env.py), but   *)
(* for the five indexes of the last revision: they are built, and dropped, *)
(* one by one outside of any transaction, while the application works, so  *)
(* that a run can end between them.                                        *)
(***************************************************************************)
EXTENDS Naturals, FiniteSets, Sequences

CONSTANTS
  Migrators,   \* alembic runs at the same time
  Targets,     \* the versions they are asked for: 0 is base, 3 is head
  Violations,  \* the constraints that stored rows may come to violate
  Events       \* a subset of {"fault"}: runs are killed, statements fail

Latest == 3
Versions == 0 .. Latest

VARIABLES
  version,   \* alembic_version: how many of the three revisions are applied
  objects,   \* the tables, indexes and checks there are
  invalid,   \* the indexes that are not built to the end
  unfit,     \* the constraints that stored rows violate
  pc, from, target,  \* of every run: how far it is, from which version to which
  step       \* the statement of the last revision that comes next

run == <<pc, from, target, step>>
vars == <<version, objects, invalid, unfit, run>>

-----------------------------------------------------------------------------
(* What the scripts create *)

TableOrder == <<"authors", "books", "users", "authors_books", "book_loans", "refresh_sessions">>

References == [authors |-> {}, books |-> {}, users |-> {}, authors_books |-> {"authors", "books"},
               book_loans |-> {"books", "users"}, refresh_sessions |-> {"users"}]

\* 095a14abdacd: tables with their indexes and checks
Initial ==
       {"authors", "ix_authors_birthday", "check_birthday_not_future"}
  \cup {"books", "ix_books_publication_date", "ix_books_title",
        "check_available_instances_not_negative", "check_publication_date_not_future"}
  \cup {"users", "ix_users_email", "ix_users_username"}
  \cup {"authors_books", "ix_authors_books_author_id", "ix_authors_books_book_id"}
  \cup {"book_loans", "idx_book_loans_book_open", "idx_book_loans_user_open", "ix_book_loans_book_id",
        "ix_book_loans_due_date", "ix_book_loans_issued_at", "ix_book_loans_returned_at",
        "ix_book_loans_user_id", "check_due_after_issue", "check_returned_after_issued"}
  \cup {"refresh_sessions", "idx_refresh_sessions_user_active", "ix_refresh_sessions_expires_at",
        "ix_refresh_sessions_revoked_at", "ix_refresh_sessions_token_hash",
        "ix_refresh_sessions_user_id", "check_refresh_expires_after_created"}

\* 2f1b7dcd4a21
Hardened == {"authors.name varchar(200)", "check_authors_name_not_blank",
             "check_authors_biography_max_length", "ux_authors_name_lower"}

\* 4c9f3a1b2d7e, in the order of upgrade
Indexes == <<"ux_books_title_lower", "idx_authors_name_trgm", "idx_books_title_trgm",
             "idx_book_loans_user_open_due_date", "ux_book_loans_user_book_open">>

Steps == 1 .. 5
Concurrent == {Indexes[i] : i \in Steps}
Extension == "pg_trgm"
Objects == Initial \cup Hardened \cup Concurrent \cup {Extension}

\* What models.py declares, table by table: the schema the repositories expect
Declared ==
       {"authors_books", "ix_authors_books_book_id", "ix_authors_books_author_id"}
  \cup {"users", "ix_users_username", "ix_users_email"}
  \cup {"refresh_sessions", "ix_refresh_sessions_user_id", "ix_refresh_sessions_token_hash",
        "ix_refresh_sessions_expires_at", "ix_refresh_sessions_revoked_at",
        "check_refresh_expires_after_created", "idx_refresh_sessions_user_active"}
  \cup {"authors", "authors.name varchar(200)", "ix_authors_birthday", "check_birthday_not_future",
        "check_authors_name_not_blank", "check_authors_biography_max_length",
        "ux_authors_name_lower", "idx_authors_name_trgm"}
  \cup {"books", "ix_books_title", "ix_books_publication_date", "check_publication_date_not_future",
        "check_available_instances_not_negative", "ux_books_title_lower", "idx_books_title_trgm"}
  \cup {"book_loans", "ix_book_loans_user_id", "ix_book_loans_book_id", "ix_book_loans_issued_at",
        "ix_book_loans_due_date", "ix_book_loans_returned_at", "check_returned_after_issued",
        "check_due_after_issue", "idx_book_loans_user_open", "idx_book_loans_book_open",
        "idx_book_loans_user_open_due_date", "ux_book_loans_user_book_open"}

\* A table is created after those it refers to, and dropped before them.
ASSUME ReferencesFirst ==
  \A i \in DOMAIN TableOrder : References[TableOrder[i]] \subseteq {TableOrder[j] : j \in 1 .. i - 1}
ASSUME WhatRowsViolate == Violations \subseteq Hardened \cup Concurrent
ASSUME TargetVersions == Targets \subseteq Versions

\* The objects that are created and dropped in transactions
Transactional(v) == (IF v >= 1 THEN Initial ELSE {}) \cup (IF v >= 2 THEN Hardened ELSE {})

TypeOK ==
  /\ version \in Versions /\ objects \subseteq Objects /\ invalid \subseteq Concurrent
  /\ unfit \subseteq Violations
  /\ pc \in [Migrators -> {"idle", "transaction", "block", "statement"}]
  /\ from \in [Migrators -> Versions] /\ target \in [Migrators -> Versions]
  /\ step \in [Migrators -> 1 .. 6]

-----------------------------------------------------------------------------
(* alembic upgrade, alembic downgrade *)

Upgrades(m) == pc[m] # "idle" /\ from[m] < target[m]
Downgrades(m) == pc[m] # "idle" /\ target[m] < from[m]

\* The version is read once, at the start of the run; at the target there is
\* nothing to do.  A downgrade is an intervention: no other run is at work then.
Begin(m, to) ==
  /\ pc[m] = "idle" /\ to # version
  /\ \A n \in Migrators : ~Downgrades(n) /\ (to < version => pc[n] = "idle")
  /\ pc' = [pc EXCEPT ![m] = IF version = Latest THEN "block" ELSE "transaction"]
  /\ from' = [from EXCEPT ![m] = version]
  /\ target' = [target EXCEPT ![m] = to]
  /\ step' = [step EXCEPT ![m] = 1]
  /\ UNCHANGED <<version, objects, invalid, unfit>>

\* The run ends, at its target or with an exception or the death of the process.
\* What the open transaction did is undone, what was done before it stays.
End(m) ==
  /\ pc' = [pc EXCEPT ![m] = "idle"]
  /\ from' = [from EXCEPT ![m] = 0]
  /\ target' = [target EXCEPT ![m] = 0]
  /\ step' = [step EXCEPT ![m] = 1]

\* The scripts that lie between two versions, in one transaction: every create
\* and drop needs its object to be absent or there, the rows have to fit, and
\* the row of alembic_version has to be the one that was read.
CanMigrate(v, w) ==
  /\ version = v
  /\ (Transactional(w) \ Transactional(v)) \cap objects = {}
  /\ Transactional(v) \ Transactional(w) \subseteq objects
  /\ unfit \cap (Transactional(w) \ Transactional(v)) = {}

\* A dropped table takes the rows and the indexes that are left on it with it.
Migrate(v, w) ==
  /\ version' = w
  /\ objects' = IF w = 0 THEN objects \cap {Extension}
                ELSE (objects \ Transactional(v)) \cup Transactional(w)
  /\ invalid' = IF w = 0 THEN {} ELSE invalid
  /\ unfit' = IF w = 0 THEN {} ELSE unfit

\* The row of alembic_version is written with the rest of the scripts, before
\* the indexes are built.
UpgradeTransaction_LatestAtOnce(m) ==
  /\ pc[m] = "transaction" /\ Upgrades(m) /\ CanMigrate(from[m], target[m])
  /\ version' = target[m] /\ UNCHANGED <<invalid, unfit>>
  /\ objects' = (objects \ Transactional(from[m])) \cup Transactional(target[m]) \cup {Extension}
  /\ IF target[m] = Latest
     THEN pc' = [pc EXCEPT ![m] = "block"] /\ UNCHANGED <<from, target, step>>
     ELSE End(m)

\* The revisions before the last one, and CREATE EXTENSION IF NOT EXISTS;
\* autocommit_block commits them together with their version.
UpgradeTransaction(m) ==
  /\ pc[m] = "transaction" /\ Upgrades(m)
  /\ IF target[m] < Latest
     THEN CanMigrate(from[m], target[m]) /\ Migrate(from[m], target[m]) /\ End(m)
     ELSE /\ from[m] < 2 => CanMigrate(from[m], 2)
          /\ version' = IF from[m] < 2 THEN 2 ELSE version
          /\ objects' = (objects \cup {Extension}) \cup IF from[m] < 2 THEN Transactional(2) ELSE {}
          /\ pc' = [pc EXCEPT ![m] = "block"]
          /\ UNCHANGED <<invalid, unfit, from, target, step>>

\* The scripts of the revisions that are left, after the indexes if they were
\* there.
DowngradeTransaction(m) ==
  /\ pc[m] = "transaction" /\ Downgrades(m)
  /\ CanMigrate(from[m], target[m]) /\ Migrate(from[m], target[m]) /\ End(m)

-----------------------------------------------------------------------------
(* autocommit_block: CREATE and DROP INDEX CONCURRENTLY *)

\* The downgrade drops the indexes in the order of the upgrade.
Index_SameOrder(m) == Indexes[step[m]]

\* The downgrade drops the indexes in the reverse order.
Index(m) == Indexes[IF from[m] < target[m] THEN step[m] ELSE 6 - step[m]]

\* CREATE INDEX CONCURRENTLY IF NOT EXISTS
CanCreate_IfNotExists(index) == Initial \subseteq objects

\* There is no IF NOT EXISTS, but for the extension.
CanCreate(index) == index \notin objects /\ Initial \subseteq objects

\* An index is there before it is valid, and is not valid any more before it is
\* gone.
StartStatement(m) ==
  /\ pc[m] = "block" /\ step[m] <= 5
  /\ IF Upgrades(m) THEN CanCreate(Index(m)) ELSE Index(m) \in objects
  /\ objects' = objects \cup {Index(m)} /\ invalid' = invalid \cup {Index(m)}
  /\ pc' = [pc EXCEPT ![m] = "statement"]
  /\ UNCHANGED <<version, unfit, from, target, step>>

FinishStatement(m) ==
  /\ pc[m] = "statement" /\ Index(m) \in objects
  /\ invalid' = invalid \ {Index(m)}
  /\ IF Upgrades(m) THEN Index(m) \notin unfit /\ UNCHANGED objects
     ELSE objects' = objects \ {Index(m)}
  /\ pc' = [pc EXCEPT ![m] = "block"]
  /\ step' = [step EXCEPT ![m] = @ + 1]
  /\ UNCHANGED <<version, unfit, from, target>>

\* After the last of them a new transaction begins: the upgrade writes its
\* version, the downgrade goes on with the other revisions.
LeaveBlock(m) ==
  /\ pc[m] = "block" /\ step[m] = 6
  /\ IF Upgrades(m)
     THEN version = 2 /\ version' = Latest /\ End(m) /\ UNCHANGED <<objects, invalid, unfit>>
     ELSE /\ pc' = [pc EXCEPT ![m] = "transaction"]
          /\ UNCHANGED <<version, objects, invalid, unfit, from, target, step>>

\* A statement that cannot be executed ends the run.
Refused(m) ==
  \/ pc[m] = "transaction" /\ target[m] < Latest /\ ~CanMigrate(from[m], target[m])
  \/ pc[m] = "transaction" /\ target[m] = Latest /\ from[m] < 2 /\ ~CanMigrate(from[m], 2)
  \/ pc[m] = "block" /\ step[m] <= 5 /\ Upgrades(m) /\ ~CanCreate(Index(m))
  \/ pc[m] = "block" /\ step[m] <= 5 /\ Downgrades(m) /\ Index(m) \notin objects
  \/ pc[m] = "statement" /\ Upgrades(m) /\ Index(m) \in unfit

Fail(m) ==
  /\ pc[m] # "idle" /\ ("fault" \in Events \/ Refused(m))
  /\ End(m) /\ UNCHANGED <<version, objects, invalid, unfit>>

-----------------------------------------------------------------------------
(* The application, which runs whatever the version is *)

\* Rows that violate a constraint are stored while nothing enforces it (an
\* invalid index may or may not do so), and are removed again.
Violate(c) ==
  /\ c \notin unfit /\ version >= 1 /\ c \notin objects \ invalid
  /\ unfit' = unfit \cup {c} /\ UNCHANGED <<version, objects, invalid, run>>

Amend(c) == c \in unfit /\ unfit' = unfit \ {c} /\ UNCHANGED <<version, objects, invalid, run>>

-----------------------------------------------------------------------------

Init ==
  /\ version = 0 /\ objects = {} /\ invalid = {} /\ unfit = {}
  /\ pc = [m \in Migrators |-> "idle"]
  /\ from = [m \in Migrators |-> 0] /\ target = [m \in Migrators |-> 0]
  /\ step = [m \in Migrators |-> 1]

Next ==
  \/ \E m \in Migrators :
       \/ \E to \in Targets : Begin(m, to)
       \/ UpgradeTransaction(m) \/ DowngradeTransaction(m)
       \/ StartStatement(m) \/ FinishStatement(m) \/ LeaveBlock(m) \/ Fail(m)
  \/ \E c \in Violations : Violate(c) \/ Amend(c)

Spec == Init /\ [][Next]_vars

-----------------------------------------------------------------------------
(* Properties *)

\* When an upgrade reaches the head of the chain, the schema is the one that
\* models.py declares and no index of it is left invalid, whatever happened
\* before: killed and overlapping runs, failed statements, rows that were in the
\* way of a constraint (4c9f3a1b2d7e:25, env.py:69).
LatestIsDeclared ==
  [][version # Latest /\ version' = Latest =>
       /\ objects' \ {Extension} = Declared /\ invalid' = {}
       /\ unfit' \cap Declared = {}]_vars

\* No run has begun with the indexes.
NobodyInside == \A m \in Migrators : pc[m] # "statement" /\ step[m] = 1

\* What an upgrade leaves behind if it ends in the block ...
HalfBuilt == version < Latest /\ Indexes[1] \in objects /\ NobodyInside

\* ... and what a downgrade does.
HalfDropped == version = Latest /\ Indexes[5] \notin objects /\ NobodyInside

\* A run that ended in the middle of the indexes is not made good by running it
\* again: the scripts neither skip an index that is there nor one that is gone
\* (4c9f3a1b2d7e:26, 72).  What an upgrade left stays until the tables are
\* dropped; what a downgrade left stays for good.
RepetitionDoesNotRepair ==
  [][/\ HalfBuilt => HalfBuilt' \/ version' = 0
     /\ HalfDropped => HalfDropped']_vars

-----------------------------------------------------------------------------
(* What makes them inductive *)

\* Everything but the indexes of the last revision agrees with the version, and
\* a valid constraint is kept by all rows.
SchemaInv ==
  /\ objects \cap (Initial \cup Hardened) = Transactional(version)
  /\ invalid \subseteq objects
  /\ version = 0 => objects \subseteq {Extension}
  /\ unfit \cap (objects \ invalid) = {}
  /\ version = 0 => unfit = {}

\* The indexes that are there come before those that are not: the downgrade
\* drops them from the other end.
PrefixInv == \A i, j \in Steps : i < j /\ Indexes[j] \in objects => Indexes[i] \in objects

\* The run is past its first statement, so that the indexes are its own.
Inside(m) == pc[m] \in {"block", "statement"} /\ (pc[m] = "block" => step[m] > 1)

RunInv(m) ==
  /\ pc[m] = "idle" => step[m] = 1
  /\ pc[m] # "idle" => from[m] # target[m]
  /\ pc[m] = "statement" => step[m] <= 5
  /\ Upgrades(m) =>
       /\ version >= from[m]
       /\ pc[m] = "transaction" => step[m] = 1
       /\ pc[m] # "transaction" => target[m] = Latest /\ version >= 2 /\ Extension \in objects
       /\ version = Latest => Indexes[1] \in objects
       /\ Inside(m) =>
            /\ version = 2
            /\ \A i \in Steps : Indexes[i] \in objects <=> i < step[m] \/ (i = step[m] /\ pc[m] = "statement")
            /\ \A i \in Steps : Indexes[i] \in invalid => i = step[m] /\ pc[m] = "statement"
  /\ Downgrades(m) =>
       /\ version = from[m]
       /\ \A n \in Migrators \ {m} : pc[n] = "idle"
       /\ pc[m] # "transaction" =>
            from[m] = Latest /\ \A i \in Steps : i > 6 - step[m] => Indexes[i] \notin objects
       /\ from[m] = Latest /\ pc[m] = "transaction" => step[m] = 6 /\ Concurrent \cap objects = {}

IInv ==
  /\ TypeOK /\ SchemaInv /\ PrefixInv
  /\ \A m \in Migrators : RunInv(m)
  /\ \A m, n \in Migrators : Inside(m) /\ Inside(n) => m = n

=============================================================================
