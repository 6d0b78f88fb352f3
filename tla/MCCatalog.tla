----------------------------- MODULE MCCatalog -----------------------------
(***************************************************************************)
(* Small instances of Catalog for TLC.                                     *)
(***************************************************************************)
EXTENDS Catalog, TLC

\* Rows of one table, names and request slots can be renamed freely.
RowSymmetry ==
  Permutations(Authors) \cup Permutations(Books) \cup Permutations(Names) \cup Permutations(Requests)

=============================================================================
