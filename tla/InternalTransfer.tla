-------------------------- MODULE InternalTransfer --------------------------
(***************************************************************************)
(* Transfers of goods between two places of one company                    *)
(* (services/internal_transfer_service.py), with the dispatch guide (GRE   *)
(* 09) that a transfer between establishments needs and the stock both     *)
(* warehouses keep.                                                        *)
(*                                                                         *)
(* A transfer asks for a quantity of one good; dispatches reserve parts of *)
(* it, leave and are received in parts.  Every operation of the service    *)
(* locks the tenant's row, so each is one step, except the cancellation:   *)
(* the request that emits a guide (routers/guias.py) takes no lock and may *)
(* read or commit while a cancellation has read and not yet written, so    *)
(* both are two steps.  The queue's job for the guide is abstracted to     *)
(* where its call stands; EmissionQueue models the job itself.             *)
(***************************************************************************)
EXTENDS Integers, FiniteSets, FiniteSetsExt

CONSTANTS
    Transfer,     \* transfer orders
    Dispatch,     \* dispatches, each under its own idempotency key
    Quantity,     \* the quantities a request may name
    InitialStock, \* goods at the source at the start
    MaxAdjusted,  \* bound on what manual adjustments add or take at a warehouse
    Readers,      \* bound on emission requests of one guide under way at once
    None          \* no transfer

\* Dispatches are rows of a table: at any time there are finitely many, and their
\* quantities can be added.
ASSUME QuantityAssumption ==
    /\ IsFiniteSet(Dispatch)
    /\ Quantity \subseteq Nat \ {0}
    /\ InitialStock \in Nat
    /\ MaxAdjusted \in Nat
    /\ Readers \in Nat \ {0}
    /\ None \notin Transfer

VARIABLES
    transfer,   \* the transfer orders
    dispatch,   \* the dispatches with their line and their guide
    stock,      \* on hand at either warehouse
    committed,  \* goods at the source promised to reservations
    cancelling, \* the cancellation that holds the tenant's lock, and what it read
    readers,    \* emission requests that validated a guide and have not committed
    emission,   \* where the emission job of a dispatch's guide stands
    consult,    \* where the consultation job of a dispatch's guide stands
    verdict,    \* what SUNAT decided about a guide
    adjusted,   \* what manual adjustments added at either warehouse (bookkeeping)
    strayed     \* dispatches that left without a reservation (bookkeeping)

vars == <<transfer, dispatch, stock, committed, cancelling, readers, emission,
          consult, verdict, adjusted, strayed>>

TransferStatus == {"none", "draft", "pending", "in_transit", "partially_received",
                   "completed", "cancelled"}

DispatchStatus == {"none", "reserved", "guide_draft", "guide_pending", "guide_accepted",
                   "guide_rejected", "departed", "partially_received", "received",
                   "cancelled"}

Line == {"active", "covered", "released", "departed", "received"}

Guide == {"none", "pendiente", "pendiente_smartpse", "emitida", "rechazada", "cancelled"}

\* Mutant: goods that have left no longer count as assigned.
ACTIVE_ALLOCATION_STATES_Held == {"active", "covered"}

ACTIVE_ALLOCATION_STATES == {"active", "covered", "departed", "received"}

Reserving == {"active", "covered"}

BlockingStates == {"guide_pending", "guide_accepted", "departed", "partially_received",
                   "received"}

Idle == [t |-> None, closing |-> {}, drafts |-> {}]

-----------------------------------------------------------------------------
(* What the handlers compute. *)

OfTransfer(ds, t) == {d \in Dispatch : ds[d].status # "none" /\ ds[d].of = t}

Sum(ds, D, field) == SumFunctionOnSet([d \in Dispatch |-> ds[d][field]], D)

Allocated(ds, t) ==
    Sum(ds, {d \in OfTransfer(ds, t) : ds[d].line \in ACTIVE_ALLOCATION_STATES}, "quantity")

(***************************************************************************)
(* The status of transfer t, whose row is tr, when its dispatches are ds.  *)
(***************************************************************************)
Refreshed(tr, ds, t) ==
    LET requested == tr.quantity - tr.cancelled
        received  == Sum(ds, OfTransfer(ds, t), "received")
    IN  CASE requested # 0 /\ received >= requested -> "completed"
          [] received # 0 -> "partially_received"
          [] Sum(ds, OfTransfer(ds, t), "departed") # 0 -> "in_transit"
          [] Allocated(ds, t) # 0 -> "pending"
          [] requested # 0 -> "draft"
          [] OTHER -> "cancelled"

(***************************************************************************)
(* The step writes the dispatches ds and gives transfer t the row tr with  *)
(* its status computed anew.                                               *)
(***************************************************************************)
RefreshTransferStatus(tr, ds, t) ==
    /\ dispatch' = ds
    /\ transfer' = [transfer EXCEPT ![t] = [tr EXCEPT !.status = Refreshed(tr, ds, t)]]

\* Mutant: releasing may take more than is committed.
Uncommit_NoFloor(q) == committed - q

(***************************************************************************)
(* What is committed once q goods no longer are.                           *)
(***************************************************************************)
Uncommit(q) == IF committed > q THEN committed - q ELSE 0

Controlled(d) == transfer[dispatch[d].of].controlled

RequiresGre(d) == ~transfer[dispatch[d].of].sameSite

Unlocked == cancelling = Idle

Init ==
    /\ transfer = [t \in Transfer |-> [status |-> "none", quantity |-> 0, cancelled |-> 0,
                                       sameSite |-> FALSE, controlled |-> FALSE]]
    /\ dispatch = [d \in Dispatch |-> [status |-> "none", of |-> None, line |-> "active",
                                       quantity |-> 0, departed |-> 0, received |-> 0,
                                       left |-> FALSE, guide |-> "none"]]
    /\ stock = [source |-> InitialStock, destination |-> 0]
    /\ committed = 0
    /\ cancelling = Idle
    /\ readers = [d \in Dispatch |-> 0]
    /\ emission = [d \in Dispatch |-> "none"]
    /\ consult = [d \in Dispatch |-> "none"]
    /\ verdict = [d \in Dispatch |-> "none"]
    /\ adjusted = [source |-> 0, destination |-> 0]
    /\ strayed = {}

fiscal == <<readers, emission, consult, verdict>>

books == <<adjusted, strayed>>

-----------------------------------------------------------------------------
(* The order. *)

CreateTransfer(t, q, sameSite, controlled) ==
    /\ Unlocked
    /\ transfer[t].status = "none"
    /\ transfer' = [transfer EXCEPT ![t] = [status |-> "draft", quantity |-> q, cancelled |-> 0,
                                            sameSite |-> sameSite, controlled |-> controlled]]
    /\ UNCHANGED <<dispatch, stock, committed, cancelling, fiscal, books>>

(***************************************************************************)
(* An order without dispatches takes new goods and a new route, and keeps  *)
(* its status.                                                             *)
(***************************************************************************)
UpdateTransfer(t, q, sameSite, controlled) ==
    /\ Unlocked
    /\ transfer[t].status # "none"
    /\ OfTransfer(dispatch, t) = {}
    /\ transfer' = [transfer EXCEPT ![t] = [status |-> transfer[t].status, quantity |-> q,
                                            cancelled |-> 0, sameSite |-> sameSite,
                                            controlled |-> controlled]]
    /\ UNCHANGED <<dispatch, stock, committed, cancelling, fiscal, books>>

Remaining(t) == transfer[t].quantity - transfer[t].cancelled - Allocated(dispatch, t)

CreateDispatch(d, t, q) ==
    /\ Unlocked
    /\ dispatch[d].status = "none"
    /\ transfer[t].status \notin {"none", "cancelled", "completed"}
    /\ q <= Remaining(t)
    /\ transfer[t].controlled => q <= stock.source - committed
    /\ dispatch' = [dispatch EXCEPT ![d] = [@ EXCEPT !.status = "reserved", !.of = t,
                                                     !.line = "active", !.quantity = q]]
    /\ committed' = IF transfer[t].controlled THEN committed + q ELSE committed
    /\ transfer' = [transfer EXCEPT ![t].status = "pending"]
    /\ UNCHANGED <<stock, cancelling, fiscal, books>>

-----------------------------------------------------------------------------
(* The guide. *)

CreateGuide(d) ==
    /\ Unlocked
    /\ dispatch[d].status = "reserved"
    /\ RequiresGre(d)
    /\ dispatch[d].line = "active"
    /\ dispatch[d].guide \in {"none", "rechazada", "cancelled"}
    /\ dispatch' = [dispatch EXCEPT ![d].guide = "pendiente", ![d].status = "guide_draft"]
    /\ UNCHANGED <<transfer, stock, committed, cancelling, fiscal, books>>

ValidForEmission(d) ==
    /\ transfer[dispatch[d].of].status # "cancelled"
    /\ dispatch[d].status \notin {"cancelled", "guide_rejected"}
    /\ dispatch[d].line \in Reserving

(***************************************************************************)
(* A request to emit reads the guide and validates it, without any lock.   *)
(***************************************************************************)
ReadForEmission(d) ==
    /\ dispatch[d].guide = "pendiente"
    /\ ValidForEmission(d)
    /\ readers[d] < Readers
    /\ readers' = [readers EXCEPT ![d] = @ + 1]
    /\ UNCHANGED <<transfer, dispatch, stock, committed, cancelling, emission, consult,
                   verdict, books>>

(***************************************************************************)
(* It then marks guide and dispatch as pending and enqueues the job, or    *)
(* requeues the one that failed or whose worker was lost.                  *)
(***************************************************************************)
MarkGuidePending(d) ==
    /\ readers[d] > 0
    /\ readers' = [readers EXCEPT ![d] = @ - 1]
    /\ dispatch' = [dispatch EXCEPT ![d].guide = "pendiente_smartpse",
                                    ![d].status = "guide_pending"]
    /\ emission' \in {[emission EXCEPT ![d] = job] :
                         job \in CASE emission[d] \in {"none", "failed"} -> {"queued"}
                                  [] emission[d] = "doubt" -> {"doubt", "queued"}
                                  [] OTHER -> {emission[d]}}
    /\ UNCHANGED <<transfer, stock, committed, cancelling, consult, verdict, books>>

(***************************************************************************)
(* The worker validates the guide again and calls the provider.            *)
(***************************************************************************)
SubmitGuide(d) ==
    /\ emission[d] = "queued"
    /\ emission' = [emission EXCEPT ![d] = IF ValidForEmission(d) THEN "sent" ELSE "failed"]
    /\ UNCHANGED <<transfer, dispatch, stock, committed, cancelling, readers, consult,
                   verdict, books>>

Decide(d, decision) ==
    /\ emission[d] \in {"sent", "doubt"}
    /\ verdict[d] = "none"
    /\ verdict' = [verdict EXCEPT ![d] = decision]
    /\ UNCHANGED <<transfer, dispatch, stock, committed, cancelling, readers, emission,
                   consult, books>>

(***************************************************************************)
(* The guide is requested to be consulted: at most one job of it runs.     *)
(***************************************************************************)
Consult(d) ==
    /\ dispatch[d].guide = "pendiente_smartpse"
    /\ consult[d] = "none"
    /\ consult' = [consult EXCEPT ![d] = "out"]
    /\ UNCHANGED <<transfer, dispatch, stock, committed, cancelling, readers, emission,
                   verdict, books>>

\* Mutant: an acceptance covers the line whatever its state.
Accepted_Always(row) == [row EXCEPT !.guide = "emitida", !.status = "guide_accepted",
                                    !.line = "covered"]

(***************************************************************************)
(* What an answer makes of the dispatch's line and status.                 *)
(***************************************************************************)
Accepted(row) == [row EXCEPT !.guide = "emitida", !.status = "guide_accepted",
                             !.line = IF @ = "active" THEN "covered" ELSE @]

Rejected(row) == [row EXCEPT !.guide = "rechazada", !.status = "guide_rejected",
                             !.line = IF @ = "active" THEN "released" ELSE @]

(***************************************************************************)
(* A definitive answer is written under the tenant's lock.                 *)
(***************************************************************************)
ApplyGuideResult(d) ==
    LET t   == dispatch[d].of
        row == IF verdict[d] = "accepted" THEN Accepted(dispatch[d]) ELSE Rejected(dispatch[d])
    IN  /\ Unlocked
        /\ verdict[d] # "none"
        /\ RefreshTransferStatus(transfer[t], [dispatch EXCEPT ![d] = row], t)
        /\ committed' = IF /\ verdict[d] = "rejected"
                           /\ dispatch[d].line = "active"
                           /\ Controlled(d)
                        THEN Uncommit(dispatch[d].quantity)
                        ELSE committed

(***************************************************************************)
(* The answer to the submission.                                           *)
(***************************************************************************)
SubmissionAnswered(d) ==
    /\ emission[d] = "sent"
    /\ ApplyGuideResult(d)
    /\ emission' = [emission EXCEPT ![d] = IF verdict[d] = "accepted" THEN "done" ELSE "failed"]
    /\ UNCHANGED <<stock, cancelling, readers, consult, verdict, books>>

(***************************************************************************)
(* The answer is lost: a person must look.  If nothing was processed the   *)
(* job may also fail or be repeated.                                       *)
(***************************************************************************)
SubmissionUnanswered(d) ==
    /\ emission[d] = "sent"
    /\ \E end \in {"doubt"} \cup (IF verdict[d] = "none" THEN {"failed", "queued"} ELSE {}) :
           emission' = [emission EXCEPT ![d] = end]
    /\ UNCHANGED <<transfer, dispatch, stock, committed, cancelling, readers, consult,
                   verdict, books>>

(***************************************************************************)
(* An answer that is not definitive yet is stored too, over whatever the   *)
(* guide has become meanwhile.                                             *)
(***************************************************************************)
PendingStored(d) ==
    /\ Unlocked
    /\ dispatch' = [dispatch EXCEPT ![d].guide = "pendiente_smartpse"]
    /\ UNCHANGED <<transfer, stock, committed, cancelling, readers, verdict, books>>

SubmissionPending(d) ==
    /\ emission[d] = "sent"
    /\ emission' = [emission EXCEPT ![d] = "doubt"]
    /\ PendingStored(d)
    /\ UNCHANGED consult

ConsultPending(d) ==
    /\ consult[d] = "out"
    /\ consult' = [consult EXCEPT ![d] = "none"]
    /\ PendingStored(d)
    /\ UNCHANGED emission

ConsultAnswered(d) ==
    /\ consult[d] = "out"
    /\ ApplyGuideResult(d)
    /\ consult' = [consult EXCEPT ![d] = IF verdict[d] = "accepted" THEN "done" ELSE "none"]
    /\ UNCHANGED <<stock, cancelling, readers, emission, verdict, books>>

ConsultUnanswered(d) ==
    /\ consult[d] = "out"
    /\ consult' = [consult EXCEPT ![d] = "none"]
    /\ UNCHANGED <<transfer, dispatch, stock, committed, cancelling, readers, emission,
                   verdict, books>>

-----------------------------------------------------------------------------
(* The goods. *)

(***************************************************************************)
(* A movement of q goods at warehouse w, refused if it leaves less than    *)
(* nothing and nobody allowed that.                                        *)
(***************************************************************************)
RecordMovement(w, q, allowNegative) ==
    /\ stock[w] + q >= 0 \/ allowNegative
    /\ stock' = [stock EXCEPT ![w] = @ + q]

(***************************************************************************)
(* The goods leave.  Neither the status of the dispatch nor the state of   *)
(* its reservation is looked at, only the guide where the route needs one. *)
(***************************************************************************)
ConfirmDeparture(d) ==
    LET t == dispatch[d].of
        q == dispatch[d].quantity
        row == [dispatch[d] EXCEPT !.departed = q, !.line = "departed", !.left = TRUE,
                                   !.status = "departed"]
    IN  /\ Unlocked
        /\ dispatch[d].status # "none"
        /\ ~dispatch[d].left
        /\ RequiresGre(d) => dispatch[d].guide = "emitida"
        /\ IF Controlled(d)
           THEN /\ RecordMovement("source", -q, FALSE)
                /\ committed' = Uncommit(q)
           ELSE UNCHANGED <<stock, committed>>
        /\ RefreshTransferStatus(transfer[t], [dispatch EXCEPT ![d] = row], t)
        /\ strayed' = IF dispatch[d].line \in Reserving THEN strayed ELSE strayed \cup {d}
        /\ UNCHANGED <<cancelling, fiscal, adjusted>>

\* Mutant: earlier receipts are forgotten.
Pending_AllDeparted(d) == dispatch[d].departed

Pending(d) == dispatch[d].departed - dispatch[d].received

ReceiveDispatch(d, q) ==
    LET t == dispatch[d].of
        received == dispatch[d].received + q
        all == received >= dispatch[d].departed
        row == [dispatch[d] EXCEPT !.received = received,
                                   !.line = IF all THEN "received" ELSE @,
                                   !.status = IF all THEN "received" ELSE "partially_received"]
    IN  /\ Unlocked
        /\ dispatch[d].left
        /\ q <= Pending(d)
        /\ IF Controlled(d) THEN RecordMovement("destination", q, FALSE) ELSE UNCHANGED stock
        /\ RefreshTransferStatus(transfer[t], [dispatch EXCEPT ![d] = row], t)
        /\ UNCHANGED <<committed, cancelling, fiscal, books>>

(***************************************************************************)
(* Stock is adjusted by hand, by an administrator even below nothing.      *)
(***************************************************************************)
AdjustStock(w, q, allowNegative) ==
    /\ adjusted[w] + q \in -MaxAdjusted .. MaxAdjusted
    /\ RecordMovement(w, q, allowNegative)
    /\ adjusted' = [adjusted EXCEPT ![w] = @ + q]
    /\ UNCHANGED <<transfer, dispatch, committed, cancelling, fiscal, strayed>>

-----------------------------------------------------------------------------
(* The cancellation. *)

CancelRead(t) ==
    LET open == {d \in OfTransfer(dispatch, t) : dispatch[d].status \notin BlockingStates}
    IN  /\ Unlocked
        /\ transfer[t].status \notin {"none", "cancelled"}
        /\ cancelling' = [t |-> t, closing |-> open,
                          drafts |-> {d \in open : dispatch[d].guide = "pendiente"}]
        /\ UNCHANGED <<transfer, dispatch, stock, committed, fiscal, books>>

\* Mutant: what a rejection released is released again.
ReleasedQuantity_Again(D) == Sum(dispatch, {d \in D : Controlled(d)}, "quantity")

(***************************************************************************)
(* What the reservations of D release of the stock.                        *)
(***************************************************************************)
ReleasedQuantity(D) ==
    Sum(dispatch, {d \in D : dispatch[d].line = "active" /\ Controlled(d)}, "quantity")

CancelledQuantity(t, ds) ==
    LET free == transfer[t].quantity - Allocated(ds, t)
    IN  IF free > 0 THEN free ELSE 0

CancelCommit ==
    LET t == cancelling.t
        closed(d) == [dispatch[d] EXCEPT
                         !.line = IF @ = "active" THEN "released" ELSE @,
                         !.guide = IF d \in cancelling.drafts THEN "cancelled" ELSE @,
                         !.status = "cancelled"]
        ds == [d \in Dispatch |-> IF d \in cancelling.closing THEN closed(d) ELSE dispatch[d]]
    IN  /\ ~Unlocked
        /\ RefreshTransferStatus([transfer[t] EXCEPT !.cancelled = CancelledQuantity(t, ds)], ds, t)
        /\ committed' = Uncommit(ReleasedQuantity(cancelling.closing))
        /\ cancelling' = Idle
        /\ UNCHANGED <<stock, fiscal, books>>

-----------------------------------------------------------------------------
Orders ==
    \/ \E t \in Transfer, q \in Quantity, sameSite, controlled \in BOOLEAN :
           CreateTransfer(t, q, sameSite, controlled) \/ UpdateTransfer(t, q, sameSite, controlled)
    \/ \E d \in Dispatch, t \in Transfer, q \in Quantity : CreateDispatch(d, t, q)
    \/ \E t \in Transfer : CancelRead(t)
    \/ CancelCommit

Guides ==
    \E d \in Dispatch :
        \/ CreateGuide(d)
        \/ ReadForEmission(d)
        \/ MarkGuidePending(d)
        \/ SubmitGuide(d)
        \/ \E decision \in {"accepted", "rejected"} : Decide(d, decision)
        \/ SubmissionAnswered(d)
        \/ SubmissionUnanswered(d)
        \/ SubmissionPending(d)
        \/ Consult(d)
        \/ ConsultAnswered(d)
        \/ ConsultUnanswered(d)
        \/ ConsultPending(d)

Goods ==
    \/ \E d \in Dispatch : ConfirmDeparture(d)
    \/ \E d \in Dispatch, q \in Quantity : ReceiveDispatch(d, q)
    \/ \E w \in {"source", "destination"}, q \in {-1, 1}, allowNegative \in BOOLEAN :
           AdjustStock(w, q, allowNegative)

Next == Orders \/ Guides \/ Goods

Spec == Init /\ [][Next]_vars

-----------------------------------------------------------------------------
(* Properties. *)

(***************************************************************************)
(* Types: what is committed is never negative, whatever is released twice. *)
(***************************************************************************)
TypeOK ==
    /\ transfer \in [Transfer -> [status : TransferStatus, quantity : Nat, cancelled : Nat,
                                  sameSite : BOOLEAN, controlled : BOOLEAN]]
    /\ dispatch \in [Dispatch -> [status : DispatchStatus, of : Transfer \cup {None},
                                  line : Line, quantity : Nat, departed : Nat,
                                  received : Nat, left : BOOLEAN, guide : Guide]]
    /\ stock \in [source : Int, destination : Int]
    /\ committed \in Nat
    /\ cancelling \in [t : Transfer \cup {None}, closing : SUBSET Dispatch,
                       drafts : SUBSET Dispatch]
    /\ readers \in [Dispatch -> 0 .. Readers]
    /\ emission \in [Dispatch -> {"none", "queued", "sent", "doubt", "done", "failed"}]
    /\ consult \in [Dispatch -> {"none", "out", "done"}]
    /\ verdict \in [Dispatch -> {"none", "accepted", "rejected"}]
    /\ adjusted \in [source : Int, destination : Int]
    /\ strayed \subseteq Dispatch

Existing == {d \in Dispatch : dispatch[d].status # "none"}

(***************************************************************************)
(* Goods are neither made nor lost on the way: what both warehouses hold   *)
(* and what is in transit add up to what there was and was adjusted, and   *)
(* no dispatch delivers more than it carried.                              *)
(***************************************************************************)
GoodsConserved ==
    LET moving == {d \in Existing : Controlled(d)}
        inTransit == Sum(dispatch, moving, "departed") - Sum(dispatch, moving, "received")
    IN  /\ stock.source + stock.destination + inTransit =
               InitialStock + adjusted.source + adjusted.destination
        /\ \A d \in Existing : dispatch[d].received <= dispatch[d].departed

Reserved ==
    Sum(dispatch, {d \in Existing : Controlled(d) /\ dispatch[d].line \in Reserving}, "quantity")

(***************************************************************************)
(* Stock is committed for reservations and for nothing else: never more    *)
(* than the reservations that stand, and exactly that as long as no        *)
(* dispatch has left without one.                                          *)
(***************************************************************************)
CommittedIsReserved ==
    /\ committed <= Reserved
    /\ strayed = {} => committed = Reserved

(***************************************************************************)
(* No more goods ever leave for a transfer than it asks for, whatever was  *)
(* rejected, cancelled or reassigned in between; and as long as no         *)
(* dispatch has left without its reservation, what is assigned and what    *)
(* was cancelled fit in it, and a completed transfer has nothing reserved  *)
(* or on its way.                                                          *)
(***************************************************************************)
NeverSendsMore ==
    \A t \in Transfer :
        /\ Sum(dispatch, OfTransfer(dispatch, t), "departed") <= transfer[t].quantity
        /\ strayed = {} =>
               /\ Allocated(dispatch, t) + transfer[t].cancelled <= transfer[t].quantity
               /\ transfer[t].status = "completed" =>
                      \A d \in OfTransfer(dispatch, t) : dispatch[d].line \in {"received", "released"}

(***************************************************************************)
(* What has left is not undone: an answer about the guide that arrives     *)
(* late (the job and a consultation may both bring one) or a cancellation  *)
(* never turns goods on their way back into a reservation.                 *)
(***************************************************************************)
DepartureStands ==
    [][\A d \in Dispatch : dispatch[d].left =>
           /\ dispatch'[d].line \in {"departed", "received"}
           /\ dispatch'[d].departed = dispatch[d].departed
           /\ dispatch'[d].received >= dispatch[d].received]_vars

(***************************************************************************)
(* Goods leave only under a reservation that stands, as the validation of  *)
(* the guide words it: every quantity must keep a valid reservation.       *)
(***************************************************************************)
LeavesReserved == strayed = {}

=============================================================================
