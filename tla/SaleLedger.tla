----------------------------- MODULE SaleLedger -----------------------------
(***************************************************************************)
(* What is done with one accepted sale: its goods are dispatched under     *)
(* guides (services/sale_dispatch_service.py), its amount is corrected by  *)
(* credit and debit notes (services/note_adjustment_service.py and the     *)
(* older crud/_cotizaciones_notes.py), it is cancelled                     *)
(* (services/void_recovery_service.py, crud/_cotizaciones_fiscal.py), and  *)
(* the stock follows (services/inventory_service.py).                      *)
(*                                                                         *)
(* The sale is an invoice or boleta of one line of Invoiced goods at price *)
(* one, so that a quantity is also an amount.  Most handlers lock the      *)
(* sale's row and are one step; the request that emits a guide holds that  *)
(* lock from its validation to its commit and is two steps, because a      *)
(* cancelled dispatch does not take it.  So are the requests to delete a   *)
(* draft, which locks nothing, and to number it, which goes on with the    *)
(* draft that it read before it got the lock.  The calls of the jobs are   *)
(* split at the provider; EmissionQueue has the jobs themselves.           *)
(***************************************************************************)
EXTENDS Integers, FiniteSets, FiniteSetsExt

CONSTANTS
    Dispatch,     \* dispatches, each under its own idempotency key
    Note,         \* credit and debit notes of the sale
    Invoiced,     \* the quantity sold
    InitialStock, \* goods on hand at the start
    MaxMissing,   \* bound on what manual adjustments take away
    MaxBegun,     \* bound on the dispatches and notes that are begun, and on
                  \* what is taken away, together
    None          \* no dispatch

\* Dispatches and notes are rows of tables: there are finitely many.
ASSUME LedgerAssumption ==
    /\ IsFiniteSet(Dispatch)
    /\ IsFiniteSet(Note)
    /\ Invoiced \in Nat \ {0}
    /\ InitialStock \in Nat
    /\ MaxMissing \in Nat
    /\ MaxBegun \in Nat
    /\ None \notin Dispatch

VARIABLES
    document,  \* the sale: its state, what its fiscal error says, and whether
               \* its goods have left the stock
    void,      \* how far its cancellation has come
    dispatch,  \* the dispatches with their line, their guide and its jobs
    emitting,  \* the dispatch whose emission request holds the sale's lock
    note,      \* the notes with their job
    deleting,  \* notes that a request to delete has read as drafts
    onHand,    \* goods on hand
    adjusted   \* what manual adjustments changed (bookkeeping)

vars == <<document, void, dispatch, emitting, note, deleting, onHand, adjusted>>

stock == <<onHand, adjusted>>
notes == <<note, deleting>>

Quantities == 1 .. Invoiced

\* Amounts of notes: with debit notes a credit may exceed the sale.
Amounts == 1 .. Invoiced + 1

DispatchStatus == {"none", "provisional", "draft", "guide_pending", "guide_accepted",
                   "guide_rejected", "departed", "cancelled"}

Line == {"none", "provisional", "active", "covered", "released"}

Guide == {"none", "pendiente", "pendiente_smartpse", "emitida", "rechazada", "cancelled"}

Verdict == {"none", "accepted", "rejected"}

NoteState == {"none", "borrador", "pendiente", "facturada", "anulada", "deleted"}

\* A note of the current form, a full copy of the sale or a list of its own
\* items; the last two come from the older route.
Form == {"none", "v2", "clone", "items"}

Impact == {"none", "undelivered", "physical_return"}

NewDispatch == [status |-> "none", line |-> "none", quantity |-> 0, guide |-> "none",
                left |-> FALSE, job |-> "none", consult |-> "none", sunat |-> "none"]

\* seen is what requests to number the note have read: the credit that the draft
\* asks for, 0 of a debit; stale tells that it was not so any more.
NewNote == [state |-> "none", form |-> "none", debit |-> FALSE, amount |-> 0,
            impact |-> "none", error |-> FALSE, call |-> "idle", moved |-> 0,
            seen |-> None, stale |-> FALSE]

Init ==
    /\ document = [estado |-> "pendiente", error |-> "none", booked |-> FALSE]
    /\ void = "none"
    /\ dispatch = [d \in Dispatch |-> NewDispatch]
    /\ emitting = None
    /\ note = [n \in Note |-> NewNote]
    /\ deleting = {}
    /\ onHand = InitialStock
    /\ adjusted = 0

-----------------------------------------------------------------------------
(* What the handlers read. *)

Issued == document.estado = "facturada"

Unlocked == emitting = None

\* There is room for another dispatch, note or adjustment (the bound).
Room == Cardinality({d \in Dispatch : dispatch[d].status # "none"})
            + Cardinality({n \in Note : note[n].state # "none"}) - adjusted < MaxBegun

Quantity(D) == SumFunctionOnSet([d \in Dispatch |-> dispatch[d].quantity], D)
Amount(N)   == SumFunctionOnSet([n \in Note |-> note[n].amount], N)
Moved(N)    == SumFunctionOnSet([n \in Note |-> note[n].moved], N)

AtLeastZero(x) == IF x > 0 THEN x ELSE 0

\* ensure_note_source_available: no cancellation is under way, in doubt or done.
SourceAvailable == void \in {"none", "unsent", "rejected"}

\* An allocation that counts against the line.
Open(d) == dispatch[d].line \in {"active", "covered"} /\ dispatch[d].status # "cancelled"

\* Mutant: a note that is already accepted does not stand in the way.
Standing_PendingOnly(n) == note[n].state = "pendiente"

Standing(n) == note[n].state \in {"pendiente", "facturada"}

\* What a cancellation needs, when it is requested and before it is sent.
VoidClear == (\A n \in Note : ~Standing(n)) /\ (\A d \in Dispatch : ~Open(d))

\* A movement of the stock is refused if it leaves less than nothing.
\* Mutant: it is not.
Moves_Always(q) == TRUE
Moves(q) == onHand + q >= 0

\* Accepted notes for goods that were not delivered take them off the line.
Cancelled == {n \in Note : note[n].state = "facturada" /\ note[n].impact = "undelivered"}
Returned  == {n \in Note : note[n].state = "facturada" /\ note[n].impact # "none"}

Dispatched == Quantity({d \in Dispatch : Open(d)})

Allocated(d) == Quantity({e \in Dispatch \ {d} : Open(e)})

\* Mutant: what other dispatches hold is not taken off.
Unassigned_IgnoresOthers(d) == AtLeastZero(Invoiced - Amount(Cancelled))

\* What dispatch d may take of the line.
Unassigned(d) == AtLeastZero(Invoiced - Amount(Cancelled) - Allocated(d))

Accepted(debit) == {n \in Note : note[n].state = "facturada" /\ note[n].debit = debit}

\* Mutant: earlier credits are forgotten.
Net_IgnoresCredits == Invoiced + Amount(Accepted(TRUE))

Net == Invoiced - Amount(Accepted(FALSE)) + Amount(Accepted(TRUE))

\* Numbered credit notes of the current form without an error hold their amount.
Reserving == {n \in Note : /\ note[n].state = "pendiente" /\ ~note[n].debit
                           /\ note[n].form = "v2" /\ ~note[n].error}

\* Mutant: what other notes hold is not taken off.
Available_IgnoresReserved(n) == AtLeastZero(Net)

\* What credit note n may take of the sale.
Available(n) == AtLeastZero(AtLeastZero(Net) - Amount(Reserving \ {n}))

-----------------------------------------------------------------------------
(* The sale and its stock. *)

\* The constancy is stored with the goods' departure from stock.  If they are
\* not there the movement is refused, but what was flushed before it is found
\* by the job, which takes the sale for accepted and commits: the goods
\* are never booked.
SaleAccepted ==
    /\ document.estado = "pendiente" /\ document.error # "rejected"
    /\ document' = [estado |-> "facturada", error |-> "none", booked |-> Moves(-Invoiced)]
    /\ onHand' = IF Moves(-Invoiced) THEN onHand - Invoiced ELSE onHand
    /\ UNCHANGED <<void, dispatch, emitting, notes, adjusted>>

SaleUnaccepted ==
    /\ document.estado = "pendiente" /\ document.error # "rejected"
    /\ \E why \in {"doubt", "rejected"} : document' = [document EXCEPT !.error = why]
    /\ UNCHANGED <<void, dispatch, emitting, notes, stock>>

\* Manual adjustments take goods away; what they add is never refused.
AdjustStock(q) ==
    /\ Room /\ q - adjusted <= MaxMissing
    /\ Moves(-q)
    /\ onHand' = onHand - q
    /\ adjusted' = adjusted - q
    /\ UNCHANGED <<document, void, dispatch, emitting, notes>>

-----------------------------------------------------------------------------
(* Its cancellation. *)

\* enqueue_void_document_job, once in the life of the sale.
RequestVoid ==
    /\ Unlocked
    /\ void = "none" /\ Issued
    /\ VoidClear
    /\ void' = "requested"
    /\ UNCHANGED <<document, dispatch, emitting, notes, stock>>

\* The worker looks again, without the lock, before it sends the batch.
SendVoid ==
    /\ void = "requested"
    /\ VoidClear
    /\ void' = "sent"
    /\ UNCHANGED <<document, dispatch, emitting, notes, stock>>

\* The job fails with nothing sent, at that check or before.
FailVoid ==
    /\ void = "requested"
    /\ void' = "unsent"
    /\ UNCHANGED <<document, dispatch, emitting, notes, stock>>

VoidRejected ==
    /\ void = "sent"
    /\ void' = "rejected"
    /\ UNCHANGED <<document, dispatch, emitting, notes, stock>>

\* anular_cotizacion: the constancy of the batch reverses the sale, unless a
\* dispatch or a note that moves stock has come in.
VoidAccepted ==
    /\ Unlocked
    /\ void = "sent"
    /\ IF /\ \A d \in Dispatch : ~Open(d)
          /\ \A n \in Note : Standing(n) => note[n].impact = "none"
       THEN /\ void' = "accepted"
            /\ document' = [document EXCEPT !.estado = "anulada"]
            /\ onHand' = IF document.booked THEN onHand + Invoiced ELSE onHand
       ELSE /\ void' = "refused"
            /\ UNCHANGED <<document, onHand>>
    /\ UNCHANGED <<dispatch, emitting, notes, adjusted>>

-----------------------------------------------------------------------------
(* Dispatches and their guides. *)

Editable == {"provisional", "draft"}

\* document_eligibility: an accepted sale reserves, one that is pending or in
\* doubt only prepares.
CanPrepare ==
    /\ SourceAvailable
    /\ \/ Issued
       \/ document.estado = "pendiente" /\ document.error # "rejected"

CanReserve == SourceAvailable /\ Issued

\* A numbered credit note on the line stops further reservations.
PendingAdjustment ==
    \E n \in Note : note[n].state = "pendiente" /\ ~note[n].debit /\ note[n].form # "items"

New(d)     == dispatch[d].status = "none" /\ Room
Changes(d) == dispatch[d].status \in Editable /\ dispatch[d].guide = "pendiente"

\* create_from_document and update_dispatch read the line under the lock of the
\* sale and assign anew...
ReserveDispatch(d, q) ==
    /\ Unlocked
    /\ New(d) \/ Changes(d)
    /\ CanReserve /\ ~PendingAdjustment /\ q <= Unassigned(d)
    /\ dispatch' = [dispatch EXCEPT ![d] =
           [@ EXCEPT !.status = "draft", !.line = "active", !.quantity = q,
                     !.guide = "pendiente"]]
    /\ UNCHANGED <<document, void, emitting, notes, stock>>

\* ...or prepare only, if the sale is not accepted, or was not when a request to
\* change the dispatch read it.
PrepareDispatch(d, q) ==
    /\ Unlocked
    /\ \/ New(d) /\ CanPrepare /\ ~Issued
       \/ Changes(d) /\ SourceAvailable
    /\ dispatch' = [dispatch EXCEPT ![d] =
           [@ EXCEPT !.status = "provisional", !.line = "provisional", !.quantity = q,
                     !.guide = "pendiente"]]
    /\ UNCHANGED <<document, void, emitting, notes, stock>>

\* cancel_dispatch locks the company and the dispatch, not the sale.
CancelDispatch(d) ==
    /\ dispatch[d].status \in Editable
    /\ dispatch' = [dispatch EXCEPT ![d].status = "cancelled", ![d].line = "released",
                                    ![d].guide = IF @ = "pendiente" THEN "cancelled" ELSE @]
    /\ UNCHANGED <<document, void, emitting, notes, stock>>

\* Mutant: the reservation is not looked at.
ValidForEmission_IgnoresLine(d) == CanReserve /\ dispatch[d].status # "provisional"

ValidForEmission(d) ==
    CanReserve /\ dispatch[d].status # "provisional" /\ dispatch[d].line = "active"

\* A request to emit validates under the lock of the sale.  Requests overlap:
\* it may have read the guide before another one marked it.
BeginEmission(d) ==
    /\ Unlocked
    /\ dispatch[d].guide \in {"pendiente", "pendiente_smartpse"}
    /\ ValidForEmission(d)
    /\ emitting' = d
    /\ UNCHANGED <<document, void, dispatch, notes, stock>>

\* A job that failed or whose worker was lost is enqueued again.
Enqueued(job) ==
    CASE job \in {"none", "failed"} -> {"queued"}
      [] job = "doubt" -> {"doubt", "queued"}
      [] OTHER -> {job}

\* It commits the mark of guide and dispatch with the job, or dies.
CommitEmission(d) ==
    /\ emitting = d
    /\ \E job \in Enqueued(dispatch[d].job) :
           dispatch' = [dispatch EXCEPT ![d] =
               [@ EXCEPT !.status = "guide_pending", !.guide = "pendiente_smartpse",
                         !.job = job]]
    /\ emitting' = None
    /\ UNCHANGED <<document, void, notes, stock>>

AbortEmission ==
    /\ ~Unlocked
    /\ emitting' = None
    /\ UNCHANGED <<document, void, dispatch, notes, stock>>

\* The worker validates again, under the lock, and calls the provider; SUNAT
\* decides once, if the guide reaches it.
SubmitGuide(d) ==
    /\ Unlocked
    /\ dispatch[d].job = "queued"
    /\ IF ValidForEmission(d)
       THEN \E decision \in Verdict :
               dispatch' = [dispatch EXCEPT ![d].job = "sent",
                                            ![d].sunat = IF @ = "none" THEN decision ELSE @]
       ELSE dispatch' = [dispatch EXCEPT ![d].job = "failed"]
    /\ UNCHANGED <<document, void, emitting, notes, stock>>

\* apply_guide_result with guardar_respuesta_sunat_gre.
Answered(row) ==
    IF row.sunat = "accepted"
    THEN [row EXCEPT !.guide = "emitida", !.status = "guide_accepted",
                     !.line = IF @ = "active" THEN "covered" ELSE @]
    ELSE [row EXCEPT !.guide = "rechazada", !.status = "guide_rejected",
                     !.line = IF @ = "active" THEN "released" ELSE @]

GuideAnswered(d) ==
    /\ Unlocked
    /\ dispatch[d].job = "sent" /\ dispatch[d].sunat # "none"
    /\ dispatch' = [dispatch EXCEPT ![d] =
           [Answered(@) EXCEPT !.job = IF dispatch[d].sunat = "accepted" THEN "done"
                                       ELSE "failed"]]
    /\ UNCHANGED <<document, void, emitting, notes, stock>>

\* No answer: a person must look, and if SUNAT never had it the job may fail or
\* be repeated.
GuideUnanswered(d) ==
    /\ dispatch[d].job = "sent"
    /\ \E end \in {"doubt"} \cup (IF dispatch[d].sunat = "none" THEN {"failed", "queued"} ELSE {}) :
           dispatch' = [dispatch EXCEPT ![d].job = end]
    /\ UNCHANGED <<document, void, emitting, notes, stock>>

\* An answer that is not definitive yet is stored too, over whatever the guide
\* has become meanwhile.
GuidePending(d) ==
    /\ Unlocked
    /\ \/ dispatch[d].job = "sent"
          /\ dispatch' = [dispatch EXCEPT ![d] =
                 [@ EXCEPT !.job = "doubt", !.guide = "pendiente_smartpse"]]
       \/ dispatch[d].consult = "out"
          /\ dispatch' = [dispatch EXCEPT ![d] =
                 [@ EXCEPT !.consult = "none", !.guide = "pendiente_smartpse"]]
    /\ UNCHANGED <<document, void, emitting, notes, stock>>

\* A consultation of the guide, at most one at a time.
ConsultGuide(d) ==
    /\ dispatch[d].guide = "pendiente_smartpse"
    /\ dispatch[d].consult = "none"
    /\ dispatch' = [dispatch EXCEPT ![d].consult = "out"]
    /\ UNCHANGED <<document, void, emitting, notes, stock>>

ConsultAnswered(d) ==
    /\ Unlocked
    /\ dispatch[d].consult = "out" /\ dispatch[d].sunat # "none"
    /\ dispatch' = [dispatch EXCEPT ![d] =
           [Answered(@) EXCEPT !.consult = IF dispatch[d].sunat = "accepted" THEN "done"
                                           ELSE "none"]]
    /\ UNCHANGED <<document, void, emitting, notes, stock>>

ConsultUnanswered(d) ==
    /\ dispatch[d].consult = "out"
    /\ dispatch' = [dispatch EXCEPT ![d].consult = "none"]
    /\ UNCHANGED <<document, void, emitting, notes, stock>>

\* confirm_departure looks at the guide only.
ConfirmDeparture(d) ==
    /\ dispatch[d].guide = "emitida" /\ ~dispatch[d].left
    /\ dispatch' = [dispatch EXCEPT ![d].status = "departed", ![d].left = TRUE]
    /\ UNCHANGED <<document, void, emitting, notes, stock>>

-----------------------------------------------------------------------------
(* Credit and debit notes. *)

\* What calculate_adjustment admits for note n of amount a.  A credit note that
\* moves stock takes the whole sale (motives 01 and 06) or a quantity that was
\* not returned and, if it was not delivered, not dispatched either (07).
Adjusts(n, debit, a, impact) ==
    \/ debit /\ impact = "none"
    \/ /\ ~debit
       /\ a <= Available(n)
       /\ \/ impact = "none"
          \/ a = Invoiced
          \/ impact = "physical_return" /\ a <= Invoiced - Amount(Returned)
          \/ impact = "undelivered" /\ a <= Invoiced - Amount(Returned) - Dispatched

Content(n, state, form, debit, a, impact) ==
    [note[n] EXCEPT !.state = state, !.form = form, !.debit = debit, !.amount = a,
                    !.impact = impact]

\* create_draft and update_draft, under the lock of the sale.
WriteDraft(n, debit, a, impact) ==
    /\ Unlocked
    /\ note[n].state = "borrador" \/ (note[n].state = "none" /\ Room)
    /\ Issued /\ SourceAvailable
    /\ Adjusts(n, debit, a, impact)
    /\ note' = [note EXCEPT ![n] = Content(n, "borrador", "v2", debit, a, impact)]
    /\ UNCHANGED <<document, void, dispatch, emitting, deleting, stock>>

\* delete_draft reads the draft without a lock...
ReadDraft(n) ==
    /\ note[n].state = "borrador"
    /\ deleting' = deleting \cup {n}
    /\ UNCHANGED <<document, void, dispatch, emitting, note, stock>>

\* ...and deletes the note whatever has become of it, unless a return refers
\* to it or the request ends first.
DeleteNote(n) ==
    /\ n \in deleting
    /\ deleting' = deleting \ {n}
    /\ IF note[n].state = "facturada" /\ note[n].impact = "physical_return"
       THEN UNCHANGED note
       ELSE note' = [note EXCEPT ![n].state = "deleted"]
    /\ UNCHANGED <<document, void, dispatch, emitting, stock>>

WithinBalance(n) == note[n].debit \/ note[n].amount <= Available(n)

\* A request to number the draft reads it, and keeps to what it has read.
ReadForNumber(n) ==
    /\ note[n].state = "borrador"
    /\ note' = [note EXCEPT ![n].seen = IF note[n].debit THEN 0 ELSE note[n].amount]
    /\ UNCHANGED <<document, void, dispatch, emitting, deleting, stock>>

Reading(n) == note[n].seen # None /\ note[n].state # "deleted"

\* Mutant: a cancellation may have been requested since the draft was written.
Numberable_AnySource(n) == Reading(n) /\ note[n].seen <= Available(n)

\* assign_number_for_emission looks at the sale and at the amount again, not at
\* the goods, and not at the note.
Numberable(n) ==
    /\ Reading(n)
    /\ Issued /\ SourceAvailable
    /\ note[n].seen <= Available(n)

\* The note is no draft any more, or the credit that it asks for is another.
Outdated(n) ==
    \/ note[n].state # "borrador"
    \/ ~note[n].debit /\ note[n].amount # note[n].seen

\* The note gets a number, whatever it has become; the request then enqueues its
\* job, or dies first.  Other requests may have read the same.
NumberNote(n) ==
    /\ Unlocked
    /\ Numberable(n)
    /\ \E call \in {note[n].call} \cup (IF note[n].call = "idle" THEN {"queued"} ELSE {}) :
           note' = [note EXCEPT ![n].state = "pendiente", ![n].call = call,
                                ![n].stale = @ \/ Outdated(n)]
    /\ UNCHANGED <<document, void, dispatch, emitting, deleting, stock>>

\* The older route creates a numbered note at once: a copy of the sale, or
\* items of its own, which move no stock.
IssueNote(n, form, debit, a, impact) ==
    /\ Unlocked
    /\ note[n].state = "none" /\ Room
    /\ Issued /\ SourceAvailable
    /\ form = "clone" => a = Invoiced
    /\ form = "items" \/ debit => impact = "none"
    /\ debit \/ a <= AtLeastZero(Net)
    /\ \E call \in {"idle", "queued"} :
           note' = [note EXCEPT ![n] =
                       [Content(n, "pendiente", form, debit, a, impact) EXCEPT !.call = call]]
    /\ UNCHANGED <<document, void, dispatch, emitting, deleting, stock>>

\* A note of the current form whose job ended is enqueued again; its error and
\* its number stay.
RetryNote(n) ==
    /\ Unlocked
    /\ note[n].state = "pendiente" /\ note[n].form = "v2" /\ note[n].call = "idle"
    /\ Issued /\ SourceAvailable
    /\ note' = [note EXCEPT ![n].call = "queued"]
    /\ UNCHANGED <<document, void, dispatch, emitting, deleting, stock>>

\* The worker looks at the source and the balance again, under the lock of the
\* sale, and calls the provider.
SubmitNote(n) ==
    /\ Unlocked
    /\ note[n].state = "pendiente" /\ note[n].call = "queued"
    /\ IF SourceAvailable /\ (~note[n].debit => Issued) /\ WithinBalance(n)
       THEN note' = [note EXCEPT ![n].call = "called"]
       ELSE note' = [note EXCEPT ![n] = [@ EXCEPT !.error = TRUE, !.call = "idle"]]
    /\ UNCHANGED <<document, void, dispatch, emitting, deleting, stock>>

Undelivered == {n \in Note : note[n].impact = "undelivered"}

\* The note brings back goods that were taken for the sale.
Restocks(n) == note[n].impact = "undelivered" /\ document.booked

\* They are more than what was taken and has not come back.  Goods that came
\* back physically carry another line and are not counted.
ExceedsSale(n) == Restocks(n) /\ Moved(Undelivered) + note[n].amount > Invoiced

\* guardar_respuesta_sunat: the balance is looked at once more, and goods that
\* were not delivered return to stock.
NoteAccepted(n) ==
    /\ note[n].state = "pendiente" /\ note[n].call = "called"
    /\ note[n].debit \/ Unlocked
    /\ WithinBalance(n) /\ ~ExceedsSale(n)
    /\ LET goods == IF Restocks(n) THEN note[n].amount ELSE 0
       IN  /\ note' = [note EXCEPT ![n] = [@ EXCEPT !.state = "facturada", !.error = FALSE,
                                                    !.call = "done", !.moved = goods]]
           /\ onHand' = onHand + goods
    /\ UNCHANGED <<document, void, dispatch, emitting, deleting, adjusted>>

\* Too many goods: the movement is refused and the job fails, but its commit
\* keeps the acceptance.
NoteExceeds(n) ==
    /\ note[n].state = "pendiente" /\ note[n].call = "called"
    /\ Unlocked
    /\ WithinBalance(n) /\ ExceedsSale(n)
    /\ note' = [note EXCEPT ![n] = [@ EXCEPT !.state = "facturada", !.error = FALSE,
                                             !.call = "idle"]]
    /\ UNCHANGED <<document, void, dispatch, emitting, deleting, stock>>

\* The answer is an acceptance without a verified constancy, or one that no
\* longer fits in the balance: the note stays pending with an error.
NoteDoubtful(n) ==
    /\ note[n].state = "pendiente" /\ note[n].call = "called"
    /\ note' = [note EXCEPT ![n] = [@ EXCEPT !.error = TRUE, !.call = "idle"]]
    /\ UNCHANGED <<document, void, dispatch, emitting, deleting, stock>>

\* No answer, a rejection, or a synchronous request whose store was undone: the
\* job fails or is repeated, and the note is as it was.  A job that waits for a
\* person is one that stays as it is.
NoteUnanswered(n) ==
    /\ note[n].state = "pendiente" /\ note[n].call = "called"
    /\ \E end \in {"idle", "queued"} : note' = [note EXCEPT ![n].call = end]
    /\ UNCHANGED <<document, void, dispatch, emitting, deleting, stock>>

\* The cancellation of an accepted note, possible if it moved no stock; only
\* its end is seen from here.
VoidNote(n) ==
    /\ note[n].state = "facturada" /\ note[n].impact = "none"
    /\ note' = [note EXCEPT ![n].state = "anulada"]
    /\ UNCHANGED <<document, void, dispatch, emitting, deleting, stock>>

\* Goods come back under an accepted note; neither sale nor dispatch is read.
ReceiveReturn(n, q) ==
    /\ note[n].state = "facturada" /\ note[n].impact = "physical_return"
    /\ note[n].moved + q <= note[n].amount
    /\ note' = [note EXCEPT ![n].moved = @ + q]
    /\ onHand' = onHand + q
    /\ UNCHANGED <<document, void, dispatch, emitting, deleting, adjusted>>

-----------------------------------------------------------------------------
Sale == SaleAccepted \/ SaleUnaccepted \/ \E q \in Quantities : AdjustStock(q)

Void == RequestVoid \/ SendVoid \/ FailVoid \/ VoidRejected \/ VoidAccepted

Dispatches ==
    \/ \E d \in Dispatch, q \in Quantities : ReserveDispatch(d, q) \/ PrepareDispatch(d, q)
    \/ \E d \in Dispatch :
           \/ CancelDispatch(d) \/ ConfirmDeparture(d)
           \/ BeginEmission(d) \/ CommitEmission(d)
           \/ SubmitGuide(d) \/ GuideAnswered(d) \/ GuideUnanswered(d) \/ GuidePending(d)
           \/ ConsultGuide(d) \/ ConsultAnswered(d) \/ ConsultUnanswered(d)
    \/ AbortEmission

Notes ==
    \/ \E n \in Note, debit \in BOOLEAN, a \in Amounts, impact \in Impact :
           \/ WriteDraft(n, debit, a, impact)
           \/ \E form \in {"clone", "items"} : IssueNote(n, form, debit, a, impact)
    \/ \E n \in Note :
           \/ ReadDraft(n) \/ DeleteNote(n)
           \/ ReadForNumber(n) \/ NumberNote(n) \/ RetryNote(n) \/ SubmitNote(n)
           \/ NoteAccepted(n) \/ NoteExceeds(n) \/ NoteDoubtful(n) \/ NoteUnanswered(n)
           \/ VoidNote(n)
    \/ \E n \in Note, q \in Quantities : ReceiveReturn(n, q)

Next == Sale \/ Void \/ Dispatches \/ Notes

Spec == Init /\ [][Next]_vars

-----------------------------------------------------------------------------
(* Safety *)

TypeOK ==
    /\ document \in [estado : {"pendiente", "facturada", "anulada"},
                     error : {"none", "doubt", "rejected"}, booked : BOOLEAN]
    /\ void \in {"none", "requested", "sent", "unsent", "rejected", "accepted", "refused"}
    /\ dispatch \in [Dispatch -> [status : DispatchStatus, line : Line, quantity : Nat,
                                  guide : Guide, left : BOOLEAN,
                                  job : {"none", "queued", "sent", "doubt", "failed", "done"},
                                  consult : {"none", "out", "done"}, sunat : Verdict]]
    /\ emitting \in Dispatch \cup {None}
    /\ note \in [Note -> [state : NoteState, form : Form, debit : BOOLEAN, amount : Nat,
                          impact : Impact, error : BOOLEAN,
                          call : {"idle", "queued", "called", "done"}, moved : Nat,
                          seen : Nat \cup {None}, stale : BOOLEAN]]
    /\ deleting \subseteq Note
    /\ onHand \in Nat
    /\ adjusted \in Int

\* From the sending of its batch on, a sale that is being cancelled or is
\* cancelled has no note that counts and no goods assigned or on their way, so
\* that the reversal that SUNAT confirmed is never refused here.
VoidStaysClean ==
    /\ void \in {"sent", "accepted"} => VoidClear
    /\ void # "refused"

\* Goods leave under a reservation that a guide has covered, of a sale that is
\* accepted and stays so: a late rejection, a cancelled dispatch or a
\* cancellation of the sale never takes the ground from under them.
GoodsLeaveCovered ==
    \A d \in Dispatch : dispatch[d].left =>
        dispatch[d].line = "covered" /\ Issued /\ void \notin {"sent", "accepted"}

\* An accepted debit note may be cancelled, deleted, or numbered again by a
\* request that read it as a draft; the sale then has less than what credit
\* notes were given.
Withdrawn == {n \in Note : note[n].debit /\ note[n].call = "done" /\ note[n].state # "facturada"}

\* The credit that is accepted here never exceeds the sale and its debits, with
\* notes of both routes, with errors and retries, in whatever order their
\* answers are stored.  A credit note that is deleted after it was numbered is
\* lost to every sum.
CreditWithinSale ==
    Amount(Accepted(FALSE)) <= Invoiced + Amount(Accepted(TRUE)) + Amount(Withdrawn)

\* What numbered credit notes hold is there when their answers come, unless a
\* debit note was withdrawn or a draft was numbered as it was before: none of
\* them is refused because of another one.
ReservedIsAvailable ==
    Withdrawn = {} /\ (\A n \in Note : ~note[n].stale)
        => Amount(Reserving) <= AtLeastZero(Net)

\* The cancellation of the sale restores the stock exactly: no note has brought
\* goods back that the reversal brings back again, unless that note is deleted.
VoidRestoresStock ==
    (/\ document.estado = "anulada"
     /\ \A n \in Note : note[n].state = "deleted" => note[n].moved = 0)
        => onHand = InitialStock + adjusted

-----------------------------------------------------------------------------
(* The dispatches implement the allotment of the line *)

held    == [d \in Dispatch |-> IF Open(d) THEN dispatch[d].quantity ELSE 0]
shipped == {d \in Dispatch : dispatch[d].left}
closed  == ~SourceAvailable

Allotment == INSTANCE LineAllotment WITH Holder <- Dispatch, Capacity <- Invoiced

\* Every step of requests, workers and provider assigns, frees or ships a part
\* of the line, starts or ends a cancellation of the sale, or changes none of
\* this.
ImplementsAllotment == Allotment!Spec

-----------------------------------------------------------------------------
(* What the repository says, and the code does not do *)

\* "La nota ya fue aceptada por SUNAT y es inmutable." (routers/notas.py:135): a
\* note that is accepted does not become a pending one under another number.
AcceptedNoteStands ==
    [][\A n \in Note : note[n].state = "facturada" => note'[n].state # "pendiente"]_vars

=============================================================================
