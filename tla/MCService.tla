------------------------------ MODULE MCService ------------------------------
(***************************************************************************)
(* Small instances of Service for TLC.                                     *)
(***************************************************************************)
EXTENDS Service, TLC

\* Request slots can be renamed freely.
SlotSymmetry == Permutations(Requests)

=============================================================================
