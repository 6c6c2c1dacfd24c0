------------------------- MODULE MCInternalTransfer -------------------------
(***************************************************************************)
(* An instance of InternalTransfer for TLC.                                *)
(***************************************************************************)
EXTENDS InternalTransfer, TLC

CONSTANTS t1, t2, d1, d2, d3

MCQuantity == {1, 2}

(***************************************************************************)
(* At most one dispatch has a guide: the guides of two dispatches meet     *)
(* only in the stock and in the transfer's status, which the other         *)
(* dispatch touches without one.                                           *)
(***************************************************************************)
OneGuide == Cardinality({d \in Dispatch : dispatch[d].guide # "none"}) <= 1

Symmetry == Permutations(Dispatch) \cup Permutations(Transfer)

=============================================================================
