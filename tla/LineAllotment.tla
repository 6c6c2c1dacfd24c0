---------------------------- MODULE LineAllotment ----------------------------
(***************************************************************************)
(* What the dispatches of one sold line promise, whatever the guides, the  *)
(* requests and the workers do: the quantities assigned to them never      *)
(* exceed what was sold, what has left stays assigned, and nothing is      *)
(* assigned while the sale is being cancelled.                             *)
(***************************************************************************)
EXTENDS Naturals, FiniteSetsExt

CONSTANTS
    Holder,   \* those that may be assigned a part of the line
    Capacity  \* the quantity sold

VARIABLES
    held,     \* the quantity assigned to each holder
    shipped,  \* the holders whose part has left
    closed    \* a cancellation of the sale is under way or done

vars == <<held, shipped, closed>>

Assigned(f) == SumFunctionOnSet(f, Holder)

Init ==
    /\ held = [h \in Holder |-> 0]
    /\ shipped = {}
    /\ closed = FALSE

Allot(h, q) ==
    /\ ~closed
    /\ h \notin shipped
    /\ held' = [held EXCEPT ![h] = q]
    /\ Assigned(held') <= Capacity
    /\ UNCHANGED <<shipped, closed>>

Free(h) ==
    /\ h \notin shipped
    /\ held' = [held EXCEPT ![h] = 0]
    /\ UNCHANGED <<shipped, closed>>

Ship(h) ==
    /\ held[h] > 0
    /\ shipped' = shipped \cup {h}
    /\ UNCHANGED <<held, closed>>

\* A cancellation starts only when nothing is assigned.
Close ==
    /\ \A h \in Holder : held[h] = 0
    /\ closed' = TRUE
    /\ UNCHANGED <<held, shipped>>

\* The cancellation was not sent or was rejected.
Reopen ==
    /\ closed' = FALSE
    /\ UNCHANGED <<held, shipped>>

Next ==
    \/ \E h \in Holder, q \in 1 .. Capacity : Allot(h, q)
    \/ \E h \in Holder : Free(h) \/ Ship(h)
    \/ Close
    \/ Reopen

Spec == Init /\ [][Next]_vars

=============================================================================
