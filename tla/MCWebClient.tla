---------------------------- MODULE MCWebClient ----------------------------
(***************************************************************************)
(* Small instances of WebClient for TLC.                                   *)
(***************************************************************************)
EXTENDS WebClient, TLC

\* Tabs, calls and the numbers of tokens can be renamed freely.
ClientSymmetry == Permutations(Tabs) \cup Permutations(Calls) \cup Permutations(Numbers)

=============================================================================
