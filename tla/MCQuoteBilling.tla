--------------------------- MODULE MCQuoteBilling ---------------------------
(* An instance of QuoteBilling for TLC. *)
EXTENDS QuoteBilling, TLC

Symmetry == Permutations(Quote) \cup Permutations(Doc) \cup Permutations(Payer)

=============================================================================
