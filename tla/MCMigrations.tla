----------------------------- MODULE MCMigrations -----------------------------
(***************************************************************************)
(* Small instances of Migrations for TLC.                                  *)
(***************************************************************************)
EXTENDS Migrations, TLC

\* One constraint of every revision that has some, and the last one twice.
MCViolations == {"ux_authors_name_lower", "ux_books_title_lower", "ux_book_loans_user_book_open"}

\* Runs of alembic are alike.
RunSymmetry == Permutations(Migrators)

=============================================================================
