----------------------------- MODULE MCAccounts -----------------------------
(***************************************************************************)
(* Small instances of Accounts for TLC.                                    *)
(***************************************************************************)
EXTENDS Accounts, TLC

\* Rows and request slots can be renamed freely.
RowSymmetry == Permutations(Users) \cup Permutations(Requests)

=============================================================================
