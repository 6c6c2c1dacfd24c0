---------------------------- MODULE MCSaleLedger ----------------------------
(***************************************************************************)
(* An instance of SaleLedger for TLC.                                      *)
(***************************************************************************)
EXTENDS SaleLedger, TLC

Symmetry == Permutations(Dispatch) \cup Permutations(Note)

=============================================================================
