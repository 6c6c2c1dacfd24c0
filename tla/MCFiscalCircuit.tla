--------------------------- MODULE MCFiscalCircuit ---------------------------
(* A small instance of FiscalCircuit for TLC. *)
EXTENDS FiscalCircuit

CONSTANTS w1, w2, j1, j2

\* An invoice to sign and one in doubt.
Stages == [j \in Job |-> IF j = j1 THEN "unsigned" ELSE "consult"]
=============================================================================
