----------------------------- MODULE StockHolds -----------------------------
(***************************************************************************)
(* The balance of one product in one warehouse and the holds that sales    *)
(* have on it (services/inventory_service.py).  A sale is promised its     *)
(* goods when it is emitted, loses the promise when SUNAT rejects it, and  *)
(* takes the goods when SUNAT accepts it.  Each action is what one call    *)
(* does under the lock of the balance; QuoteBilling says when they happen. *)
(*                                                                         *)
(* A document has one line.  Transfers between warehouses reserve goods of *)
(* the same balance in InternalTransfer.                                   *)
(***************************************************************************)
EXTENDS Integers, FiniteSets, FiniteSetsExt

CONSTANTS
    Doc,          \* fiscal documents
    InitialStock, \* goods on hand at the start
    MaxByHand     \* bound on manual adjustments and authorised sales

\* Documents are rows of a table: there are finitely many.
ASSUME StockAssumption ==
    /\ IsFiniteSet(Doc)
    /\ InitialStock \in Nat
    /\ MaxByHand \in Nat

VARIABLES
    onHand,    \* goods on hand
    committed, \* goods promised
    hold,      \* the hold of each document
    taken,     \* what manual adjustments took away (bookkeeping)
    counted,   \* what counts added, or took away if negative (bookkeeping)
    byHand     \* the number of adjustments and authorisations (bookkeeping)

stock == <<onHand, committed, hold, taken, counted, byHand>>

manual == <<taken, counted, byHand>>

HoldStatus == {"none", "active", "converted", "released"}

\* missing is bookkeeping: the goods were not there when the sale was accepted.
NoHold == [status |-> "none", quantity |-> 0, authorised |-> FALSE, missing |-> FALSE]

StockInit ==
    /\ onHand = InitialStock
    /\ committed = 0
    /\ hold = [d \in Doc |-> NoHold]
    /\ taken = 0
    /\ counted = 0
    /\ byHand = 0

\* Mutant: what others were promised is not taken off.
FreeStock_IgnoresHolds == onHand

FreeStock == onHand - committed

AtLeastZero(x) == IF x > 0 THEN x ELSE 0

Held(d) == hold[d].status = "active"

\* Another adjustment or authorisation (the bound).
ByHand == byHand < MaxByHand /\ byHand' = byHand + 1

\* create_document_holds: the document is promised its goods, beyond what is
\* there if an administrator has authorised it.
Hold(d, quantity, authorised) ==
    /\ hold[d].status = "none"
    /\ IF authorised THEN ByHand ELSE quantity <= FreeStock /\ UNCHANGED byHand
    /\ committed' = committed + quantity
    /\ hold' = [hold EXCEPT ![d] = [status |-> "active", quantity |-> quantity,
                                    authorised |-> authorised, missing |-> FALSE]]
    /\ UNCHANGED <<onHand, taken, counted>>

\* The promise ends.
Uncommitted(d) == AtLeastZero(committed - hold[d].quantity)

\* release_document_holds.
Release(d) ==
    IF Held(d)
    THEN /\ committed' = Uncommitted(d)
         /\ hold' = [hold EXCEPT ![d].status = "released"]
         /\ UNCHANGED <<onHand, manual>>
    ELSE UNCHANGED stock

\* finalize_document_inventory: the goods leave.  The promise ends before the
\* movement is recorded; if that is refused the hold stays, and what was changed
\* before is kept by the caller's next commit.
Finalize(d) ==
    IF Held(d)
    THEN /\ committed' = Uncommitted(d)
         /\ IF hold[d].authorised \/ onHand >= hold[d].quantity
            THEN /\ onHand' = onHand - hold[d].quantity
                 /\ hold' = [hold EXCEPT ![d].status = "converted"]
            ELSE /\ hold' = [hold EXCEPT ![d].missing = TRUE]
                 /\ UNCHANGED onHand
         /\ UNCHANGED manual
    ELSE UNCHANGED stock

\* Mutant: goods come back that never left.
ComeBack_Held(d) == hold[d].status \in {"active", "converted"}

ComeBack(d) == hold[d].status = "converted"

\* The reversal of a cancelled sale: what left comes back, unless there would
\* still be less than nothing.
Restore(d) ==
    /\ ComeBack(d) => onHand + hold[d].quantity >= 0
    /\ onHand' = IF ComeBack(d) THEN onHand + hold[d].quantity ELSE onHand
    /\ UNCHANGED <<committed, hold, manual>>

\* adjust_stock and transfer_stock take goods away whatever was promised; an
\* administrator may authorise less than nothing.
TakeStock(quantity) ==
    /\ ByHand
    /\ onHand' = onHand - quantity
    /\ taken' = taken + quantity
    /\ UNCHANGED <<committed, hold, counted>>

\* bulk_adjust_stock sets what was counted, never less than what was promised.
Countable(count) == count >= committed

CountStock(count) ==
    /\ ByHand
    /\ Countable(count)
    /\ onHand' = count
    /\ counted' = counted + count - onHand
    /\ UNCHANGED <<committed, hold, taken>>

-----------------------------------------------------------------------------
(* Safety *)

Quantity(D) == SumFunctionOnSet([d \in Doc |-> hold[d].quantity], D)

\* What is committed is what the open holds promise and nothing else, whatever
\* was retried, rejected, accepted or cancelled; and it is there, except what was
\* taken away by hand and what an administrator authorised beyond the stock.
PromisesStand ==
    /\ committed = Quantity({d \in Doc : Held(d) /\ ~hold[d].missing})
    /\ committed <= onHand + taken + Quantity({d \in Doc : hold[d].authorised})

=============================================================================
