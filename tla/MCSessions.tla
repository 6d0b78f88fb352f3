----------------------------- MODULE MCSessions -----------------------------
(***************************************************************************)
(* Small instances of Sessions for TLC.                                    *)
(***************************************************************************)
EXTENDS Sessions, TLC

\* Users and request slots can be renamed freely; seconds cannot.
RowSymmetry == Permutations(Users) \cup Permutations(Requests)

=============================================================================
