--------------------------- MODULE SaleLedgerProofs ---------------------------
(***************************************************************************)
(* Theorems about SaleLedger for every finite set of dispatches and notes, *)
(* every quantity sold, every stock and every bound: its types, that a     *)
(* cancellation stays clean and goods leave covered, that credit stays     *)
(* within the sale and stock follows it, and that the dispatches implement *)
(* LineAllotment.                                                          *)
(***************************************************************************)
EXTENDS SaleLedger, SumTheorems, TLAPS

-----------------------------------------------------------------------------
(* Types *)

JobState == {"none", "queued", "sent", "doubt", "failed", "done"}

DispatchRow == [status : DispatchStatus, line : Line, quantity : Nat, guide : Guide,
                left : BOOLEAN, job : JobState, consult : {"none", "out", "done"},
                sunat : Verdict]

NoteRow == [state : NoteState, form : Form, debit : BOOLEAN, amount : Nat, impact : Impact,
            error : BOOLEAN, call : {"idle", "queued", "called", "done"}, moved : Nat,
            seen : Nat \cup {None}, stale : BOOLEAN]

\* The type invariant, with a name for the rows.
LEMMA TypeParts ==
    TypeOK <=> /\ document \in [estado : {"pendiente", "facturada", "anulada"},
                                error : {"none", "doubt", "rejected"},
                                booked : BOOLEAN]
               /\ void \in {"none", "requested", "sent", "unsent", "rejected",
                            "accepted", "refused"}
               /\ dispatch \in [Dispatch -> DispatchRow]
               /\ emitting \in Dispatch \cup {None}
               /\ note \in [Note -> NoteRow]
               /\ deleting \subseteq Note
               /\ onHand \in Nat
               /\ adjusted \in Int
BY DEF TypeOK, DispatchRow, NoteRow, JobState

LEMMA TypeInit == Init => TypeOK
<1>. SUFFICES ASSUME Init PROVE TypeOK
  OBVIOUS
<1>1. NewDispatch \in DispatchRow
  BY DEF NewDispatch, DispatchRow, DispatchStatus, Line, Guide, JobState, Verdict
<1>2. NewNote \in NoteRow
  BY DEF NewNote, NoteRow, NoteState, Form, Impact
<1>. QED
  BY <1>1, <1>2, TypeParts, LedgerAssumption DEF Init

LEMMA SaleType ==
    ASSUME TypeOK, Sale PROVE TypeOK'
<1>1. CASE SaleAccepted
  <2>1. onHand' \in Nat /\ Moves(-Invoiced) \in BOOLEAN
    BY <1>1, LedgerAssumption DEF SaleAccepted, Moves, TypeOK
  <2>. QED BY <1>1, <2>1 DEF SaleAccepted, TypeOK, notes
<1>2. CASE SaleUnaccepted
  BY <1>2 DEF SaleUnaccepted, TypeOK, notes, stock
<1>3. ASSUME NEW q \in Quantities, AdjustStock(q) PROVE TypeOK'
  BY <1>3, LedgerAssumption DEF AdjustStock, Moves, Quantities, TypeOK, notes
<1>. QED
  BY <1>1, <1>2, <1>3 DEF Sale

LEMMA VoidType ==
    ASSUME TypeOK, Void PROVE TypeOK'
<1>1. CASE RequestVoid \/ SendVoid \/ FailVoid \/ VoidRejected
  BY <1>1 DEF RequestVoid, SendVoid, FailVoid, VoidRejected, TypeOK, notes, stock
<1>2. CASE VoidAccepted
  <2>1. onHand' \in Nat /\ document' \in [estado : {"pendiente", "facturada", "anulada"},
                                          error : {"none", "doubt", "rejected"},
                                          booked : BOOLEAN]
    BY <1>2, LedgerAssumption DEF VoidAccepted, TypeOK
  <2>. QED BY <1>2, <2>1 DEF VoidAccepted, TypeOK, notes
<1>. QED
  BY <1>1, <1>2 DEF Void

\* A step that gives one dispatch another row and leaves the rest alone.
LEMMA OneDispatchType ==
    ASSUME TypeOK, NEW d \in Dispatch, NEW row \in DispatchRow,
           dispatch' = [dispatch EXCEPT ![d] = row],
           emitting' \in Dispatch \cup {None},
           UNCHANGED <<document, void, notes, stock>>
    PROVE  TypeOK'
<1>1. dispatch' \in [Dispatch -> DispatchRow]
  BY TypeParts
<1>. QED
  BY <1>1, TypeParts DEF TypeOK, notes, stock, DispatchRow, JobState

LEMMA AnsweredType ==
    ASSUME NEW row \in DispatchRow PROVE Answered(row) \in DispatchRow
BY DEF Answered, DispatchRow, DispatchStatus, Line, Guide

LEMMA EnqueuedType ==
    ASSUME NEW job \in JobState
    PROVE  Enqueued(job) \subseteq JobState \ {"none"}
BY DEF Enqueued, JobState

LEMMA DispatchesType ==
    ASSUME TypeOK, Dispatches PROVE TypeOK'
<1>1. ASSUME NEW d \in Dispatch, NEW q \in Quantities,
             ReserveDispatch(d, q) \/ PrepareDispatch(d, q)
      PROVE  TypeOK'
  <2>. q \in Nat
    BY LedgerAssumption DEF Quantities
  <2>. dispatch[d] \in DispatchRow
    BY TypeParts
  <2>1. CASE ReserveDispatch(d, q)
    <3>. DEFINE row == [dispatch[d] EXCEPT !.status = "draft", !.line = "active",
                                           !.quantity = q, !.guide = "pendiente"]
    <3>1. row \in DispatchRow
      BY DEF DispatchRow, DispatchStatus, Line, Guide
    <3>. QED
      BY <2>1, <3>1, OneDispatchType DEF ReserveDispatch, TypeOK
  <2>2. CASE PrepareDispatch(d, q)
    <3>. DEFINE row == [dispatch[d] EXCEPT !.status = "provisional", !.line = "provisional",
                                           !.quantity = q, !.guide = "pendiente"]
    <3>1. row \in DispatchRow
      BY DEF DispatchRow, DispatchStatus, Line, Guide
    <3>. QED
      BY <2>2, <3>1, OneDispatchType DEF PrepareDispatch, TypeOK
  <2>. QED
    BY <1>1, <2>1, <2>2
<1>2. ASSUME NEW d \in Dispatch,
             \/ CancelDispatch(d) \/ ConfirmDeparture(d)
             \/ BeginEmission(d) \/ CommitEmission(d)
             \/ SubmitGuide(d) \/ GuideAnswered(d) \/ GuideUnanswered(d) \/ GuidePending(d)
             \/ ConsultGuide(d) \/ ConsultAnswered(d) \/ ConsultUnanswered(d)
      PROVE  TypeOK'
  <2>. dispatch[d] \in DispatchRow /\ dispatch \in [Dispatch -> DispatchRow]
    BY TypeParts
  <2>1. CASE BeginEmission(d)
    BY <2>1 DEF BeginEmission, TypeOK, notes, stock
  <2>2. CASE CommitEmission(d)
    <3>1. PICK job \in Enqueued(dispatch[d].job) :
              dispatch' = [dispatch EXCEPT ![d] =
                  [@ EXCEPT !.status = "guide_pending", !.guide = "pendiente_smartpse",
                            !.job = job]]
      BY <2>2 DEF CommitEmission
    <3>2. job \in JobState
      BY EnqueuedType DEF DispatchRow
    <3>3. [dispatch[d] EXCEPT !.status = "guide_pending", !.guide = "pendiente_smartpse",
                              !.job = job] \in DispatchRow
      BY <3>2 DEF DispatchRow, DispatchStatus, Guide
    <3>. QED
      BY <2>2, <3>1, <3>3, OneDispatchType DEF CommitEmission
  <2>3. CASE CancelDispatch(d) \/ ConfirmDeparture(d)
    <3>1. PICK row \in DispatchRow : dispatch' = [dispatch EXCEPT ![d] = row]
      BY <2>3 DEF CancelDispatch, ConfirmDeparture, DispatchRow, DispatchStatus, Line, Guide
    <3>. QED
      BY <2>3, <3>1, OneDispatchType DEF CancelDispatch, ConfirmDeparture, TypeOK
  <2>4. CASE SubmitGuide(d)
    <3>1. PICK row \in DispatchRow : dispatch' = [dispatch EXCEPT ![d] = row]
      BY <2>4 DEF SubmitGuide, DispatchRow, JobState, Verdict
    <3>. QED
      BY <2>4, <3>1, OneDispatchType DEF SubmitGuide, TypeOK
  <2>5. CASE GuideAnswered(d)
    <3>. DEFINE row == [Answered(dispatch[d]) EXCEPT
                          !.job = IF dispatch[d].sunat = "accepted" THEN "done" ELSE "failed"]
    <3>1. row \in DispatchRow
      BY AnsweredType DEF DispatchRow, JobState
    <3>. QED
      BY <2>5, <3>1, OneDispatchType DEF GuideAnswered, TypeOK
  <2>6. CASE ConsultAnswered(d)
    <3>. DEFINE row == [Answered(dispatch[d]) EXCEPT
                          !.consult = IF dispatch[d].sunat = "accepted" THEN "done"
                                      ELSE "none"]
    <3>1. row \in DispatchRow
      BY AnsweredType DEF DispatchRow
    <3>. QED
      BY <2>6, <3>1, OneDispatchType DEF ConsultAnswered, TypeOK
  <2>7. CASE GuideUnanswered(d)
    <3>1. PICK end \in JobState : dispatch' = [dispatch EXCEPT ![d].job = end]
      BY <2>7 DEF GuideUnanswered, JobState
    <3>2. [dispatch[d] EXCEPT !.job = end] \in DispatchRow
      BY DEF DispatchRow
    <3>. QED
      BY <2>7, <3>1, <3>2, OneDispatchType DEF GuideUnanswered, TypeOK
  <2>8. CASE GuidePending(d) \/ ConsultGuide(d) \/ ConsultUnanswered(d)
    <3>1. PICK row \in DispatchRow : dispatch' = [dispatch EXCEPT ![d] = row]
      BY <2>8 DEF GuidePending, ConsultGuide, ConsultUnanswered, DispatchRow, JobState, Guide
    <3>. QED
      BY <2>8, <3>1, OneDispatchType DEF GuidePending, ConsultGuide, ConsultUnanswered, TypeOK
  <2>. QED
    BY <1>2, <2>1, <2>2, <2>3, <2>4, <2>5, <2>6, <2>7, <2>8
<1>3. CASE AbortEmission
  BY <1>3 DEF AbortEmission, TypeOK, notes, stock
<1>. QED
  BY <1>1, <1>2, <1>3 DEF Dispatches

\* A step that gives one note another row and leaves the sale alone.
LEMMA OneNoteType ==
    ASSUME TypeOK, NEW n \in Note, NEW row \in NoteRow,
           note' = [note EXCEPT ![n] = row], deleting' \subseteq Note, onHand' \in Nat,
           UNCHANGED <<document, void, dispatch, emitting, adjusted>>
    PROVE  TypeOK'
<1>1. note' \in [Note -> NoteRow]
  BY TypeParts
<1>. QED
  BY <1>1, TypeParts DEF TypeOK, NoteRow

LEMMA ContentType ==
    ASSUME TypeOK, NEW n \in Note, NEW state \in NoteState, NEW form \in Form,
           NEW debit \in BOOLEAN, NEW a \in Nat, NEW impact \in Impact
    PROVE  Content(n, state, form, debit, a, impact) \in NoteRow
<1>1. note[n] \in NoteRow
  BY TypeParts
<1>. QED
  BY <1>1 DEF Content, NoteRow

LEMMA NotesType ==
    ASSUME TypeOK, Notes PROVE TypeOK'
<1>1. ASSUME NEW n \in Note, NEW debit \in BOOLEAN, NEW a \in Amounts, NEW impact \in Impact,
             \/ WriteDraft(n, debit, a, impact)
             \/ \E form \in {"clone", "items"} : IssueNote(n, form, debit, a, impact)
      PROVE  TypeOK'
  <2>. a \in Nat
    BY LedgerAssumption DEF Amounts
  <2>1. CASE WriteDraft(n, debit, a, impact)
    <3>1. Content(n, "borrador", "v2", debit, a, impact) \in NoteRow
      BY ContentType DEF NoteState, Form
    <3>. QED
      BY <2>1, <3>1, OneNoteType DEF WriteDraft, TypeOK, stock
  <2>2. ASSUME NEW form \in {"clone", "items"}, IssueNote(n, form, debit, a, impact)
        PROVE  TypeOK'
    <3>1. PICK call \in {"idle", "queued"} :
              note' = [note EXCEPT ![n] =
                  [Content(n, "pendiente", form, debit, a, impact) EXCEPT !.call = call]]
      BY <2>2 DEF IssueNote
    <3>2. Content(n, "pendiente", form, debit, a, impact) \in NoteRow
      BY ContentType DEF NoteState, Form
    <3>3. [Content(n, "pendiente", form, debit, a, impact) EXCEPT !.call = call] \in NoteRow
      BY <3>2 DEF NoteRow
    <3>. QED
      BY <2>2, <3>1, <3>3, OneNoteType DEF IssueNote, TypeOK, stock
  <2>. QED
    BY <1>1, <2>1, <2>2
<1>2. ASSUME NEW n \in Note,
             \/ ReadDraft(n) \/ DeleteNote(n)
             \/ ReadForNumber(n) \/ NumberNote(n) \/ RetryNote(n) \/ SubmitNote(n)
             \/ NoteAccepted(n) \/ NoteExceeds(n) \/ NoteDoubtful(n) \/ NoteUnanswered(n)
             \/ VoidNote(n)
      PROVE  TypeOK'
  <2>. note[n] \in NoteRow /\ note \in [Note -> NoteRow]
    BY TypeParts
  <2>1. CASE ReadDraft(n) \/ DeleteNote(n)
    <3>1. note' \in [Note -> NoteRow]
      BY <2>1 DEF ReadDraft, DeleteNote, NoteRow, NoteState
    <3>2. deleting' \subseteq Note
      BY <2>1 DEF ReadDraft, DeleteNote, TypeOK
    <3>. QED
      BY <2>1, <3>1, <3>2, TypeParts DEF ReadDraft, DeleteNote, TypeOK, NoteRow, stock
  <2>2. CASE ReadForNumber(n) \/ RetryNote(n) \/ VoidNote(n)
    <3>1. PICK row \in NoteRow : note' = [note EXCEPT ![n] = row]
      BY <2>2 DEF ReadForNumber, RetryNote, VoidNote, NoteRow, NoteState
    <3>. QED
      BY <2>2, <3>1, OneNoteType DEF ReadForNumber, RetryNote, VoidNote, TypeOK, stock
  <2>3. CASE SubmitNote(n) \/ NoteExceeds(n) \/ NoteDoubtful(n) \/ NoteUnanswered(n)
    <3>1. PICK row \in NoteRow : note' = [note EXCEPT ![n] = row]
      BY <2>3 DEF SubmitNote, NoteExceeds, NoteDoubtful, NoteUnanswered, NoteRow, NoteState
    <3>. QED
      BY <2>3, <3>1, OneNoteType
         DEF SubmitNote, NoteExceeds, NoteDoubtful, NoteUnanswered, TypeOK, stock
  <2>4. CASE NumberNote(n)
    <3>1. PICK call \in {note[n].call, "queued"} :
              note' = [note EXCEPT ![n].state = "pendiente", ![n].call = call,
                                   ![n].stale = @ \/ Outdated(n)]
      BY <2>4 DEF NumberNote
    <3>2. note[n].call \in {"idle", "queued", "called", "done"} /\ note[n].stale \in BOOLEAN
      BY DEF NoteRow
    <3>3. (note[n].stale \/ Outdated(n)) \in BOOLEAN
      OBVIOUS
    <3>4. note' \in [Note -> NoteRow]
      BY <3>1, <3>2, <3>3 DEF NoteRow, NoteState
    <3>. QED
      BY <2>4, <3>4, TypeParts DEF NumberNote, TypeOK, NoteRow, stock
  <2>5. CASE NoteAccepted(n)
    <3>. DEFINE goods == IF Restocks(n) THEN note[n].amount ELSE 0
    <3>1. goods \in Nat
      BY DEF NoteRow
    <3>2. [note[n] EXCEPT !.state = "facturada", !.error = FALSE, !.call = "done",
                          !.moved = goods] \in NoteRow
      BY <3>1 DEF NoteRow, NoteState
    <3>3. onHand' \in Nat
      BY <2>5, <3>1 DEF NoteAccepted, TypeOK
    <3>. QED
      BY <2>5, <3>2, <3>3, OneNoteType DEF NoteAccepted, TypeOK
  <2>. QED
    BY <1>2, <2>1, <2>2, <2>3, <2>4, <2>5
<1>3. ASSUME NEW n \in Note, NEW q \in Quantities, ReceiveReturn(n, q)
      PROVE  TypeOK'
  <2>. q \in Nat
    BY LedgerAssumption DEF Quantities
  <2>1. note[n] \in NoteRow
    BY TypeParts
  <2>2. [note[n] EXCEPT !.moved = @ + q] \in NoteRow
    BY <2>1 DEF NoteRow
  <2>3. onHand' \in Nat
    BY <1>3 DEF ReceiveReturn, TypeOK
  <2>. QED
    BY <1>3, <2>2, <2>3, OneNoteType DEF ReceiveReturn, TypeOK
<1>. QED
  BY <1>1, <1>2, <1>3 DEF Notes

LEMMA TypeNext == TypeOK /\ [Next]_vars => TypeOK'
<1>. SUFFICES ASSUME TypeOK, [Next]_vars PROVE TypeOK'
  OBVIOUS
<1>1. CASE Next
  BY <1>1, SaleType, VoidType, DispatchesType, NotesType DEF Next
<1>2. CASE UNCHANGED vars
  BY <1>2 DEF vars, TypeOK
<1>. QED
  BY <1>1, <1>2

\* The rows of the sale, its cancellation, its dispatches and its notes keep
\* their shape, and no step of any handler leaves less than no goods on hand.
THEOREM TypeCorrect == Spec => []TypeOK
BY TypeInit, TypeNext, PTL DEF Spec

-----------------------------------------------------------------------------
(* A cancellation that was sent meets nothing, and goods leave covered *)

\* Where a dispatch is from the commit of its emission on.
Marked == {"guide_pending", "guide_accepted", "guide_rejected", "departed"}

\* What ties a dispatch to its guide, its job and SUNAT's decision: a decision
\* needs a job, a job a mark, and nothing that is marked or cancelled becomes a
\* draft again; the reservation outlives the acceptance; goods leave after it.
InOrder(d) ==
    /\ dispatch[d].job # "none" => dispatch[d].status \in Marked
    /\ dispatch[d].sunat # "none" => dispatch[d].job # "none"
    /\ dispatch[d].sunat = "accepted" => dispatch[d].line \in {"active", "covered"} /\ Issued
    /\ dispatch[d].guide = "emitida" =>
           dispatch[d].sunat = "accepted" /\ dispatch[d].line = "covered"
    /\ dispatch[d].left => dispatch[d].sunat = "accepted" /\ dispatch[d].line = "covered"
    /\ dispatch[d].status = "cancelled" => dispatch[d].line = "released"

LedgerInv == TypeOK /\ (\A d \in Dispatch : InOrder(d)) /\ VoidStaysClean

LEMMA LedgerInit == Init => LedgerInv
<1>. SUFFICES ASSUME Init PROVE LedgerInv
  OBVIOUS
<1>1. TypeOK
  BY TypeInit
<1>2. \A d \in Dispatch : InOrder(d)
  BY DEF Init, NewDispatch, InOrder, Marked
<1>3. VoidStaysClean
  BY DEF Init, VoidStaysClean
<1>. QED
  BY <1>1, <1>2, <1>3 DEF LedgerInv

\* SUNAT's acceptance of a guide keeps its part of the line assigned.
LEMMA AcceptedIsOpen ==
    ASSUME NEW d \in Dispatch, InOrder(d), dispatch[d].sunat = "accepted"
    PROVE  Open(d) /\ Issued
BY DEF InOrder, Open, Marked

\* A step that leaves the sale's state and this dispatch alone.
LEMMA SameInOrder ==
    ASSUME NEW d \in Dispatch, InOrder(d), dispatch'[d] = dispatch[d], Issued => Issued'
    PROVE  InOrder(d)'
BY DEF InOrder

\* While a cancellation is under way or done, notes and dispatches that do not
\* count now will not count.
LEMMA StaysClean ==
    ASSUME VoidStaysClean, void' = void \/ void' \notin {"sent", "accepted", "refused"},
           \A n \in Note : void \in {"sent", "accepted"} /\ Standing(n)' => Standing(n),
           \A d \in Dispatch : void \in {"sent", "accepted"} /\ Open(d)' => Open(d)
    PROVE  VoidStaysClean'
BY DEF VoidStaysClean, VoidClear

LEMMA SaleSteps ==
    ASSUME LedgerInv, Sale PROVE LedgerInv'
<1>1. UNCHANGED <<void, dispatch, note>> /\ (Issued => Issued')
  BY DEF Sale, SaleAccepted, SaleUnaccepted, AdjustStock, Issued, notes
<1>2. \A d \in Dispatch : InOrder(d)'
  BY <1>1, SameInOrder DEF LedgerInv
<1>3. VoidStaysClean'
  BY <1>1 DEF LedgerInv, VoidStaysClean, VoidClear, Standing, Open
<1>. QED
  BY <1>2, <1>3, SaleType DEF LedgerInv

LEMMA VoidSteps ==
    ASSUME LedgerInv, Void PROVE LedgerInv'
<1>. USE DEF LedgerInv
<1>1. UNCHANGED <<dispatch, note>>
  BY DEF Void, RequestVoid, SendVoid, FailVoid, VoidRejected, VoidAccepted, notes
<1>2. UNCHANGED VoidClear
  BY <1>1 DEF VoidClear, Standing, Open
<1>3. CASE RequestVoid \/ SendVoid \/ FailVoid \/ VoidRejected
  <2>1. Issued => Issued'
    BY <1>3 DEF RequestVoid, SendVoid, FailVoid, VoidRejected, Issued
  <2>2. \A d \in Dispatch : InOrder(d)'
    BY <1>1, <2>1, SameInOrder
  <2>3. VoidStaysClean'
    BY <1>2, <1>3 DEF RequestVoid, SendVoid, FailVoid, VoidRejected, VoidStaysClean
  <2>. QED
    BY <2>2, <2>3, VoidType
<1>4. CASE VoidAccepted
  <2>1. VoidClear /\ void = "sent"
    BY <1>4 DEF VoidAccepted, VoidStaysClean
  <2>2. void' = "accepted"
    BY <1>4, <2>1 DEF VoidAccepted, VoidClear
  <2>3. VoidStaysClean'
    BY <1>2, <2>1, <2>2 DEF VoidStaysClean
  <2>4. ASSUME NEW d \in Dispatch PROVE InOrder(d)'
    <3>1. dispatch[d].sunat # "accepted"
      BY <2>1, AcceptedIsOpen DEF VoidClear
    <3>. QED
      BY <1>1, <3>1 DEF InOrder
  <2>. QED
    BY <2>3, <2>4, VoidType
<1>. QED
  BY <1>3, <1>4 DEF Void

\* A step on one dispatch that keeps it in order and counts it against the line
\* only if no cancellation was sent, or if it counted already.
LEMMA DispatchStep ==
    ASSUME LedgerInv, NEW d \in Dispatch, Dispatches,
           \A e \in Dispatch \ {d} : dispatch'[e] = dispatch[e],
           UNCHANGED <<document, void, note>>,
           InOrder(d)',
           void \in {"sent", "accepted"} /\ Open(d)' => Open(d)
    PROVE  LedgerInv'
<1>. USE DEF LedgerInv
<1>1. \A e \in Dispatch : InOrder(e)'
  <2>1. ASSUME NEW e \in Dispatch, e # d PROVE InOrder(e)'
    BY <2>1, SameInOrder DEF Issued
  <2>. QED
    BY <2>1
<1>2. VoidStaysClean'
  <2>1. \A e \in Dispatch : void \in {"sent", "accepted"} /\ Open(e)' => Open(e)
    BY DEF Open
  <2>. QED
    BY <2>1, StaysClean DEF Standing
<1>. QED
  BY <1>1, <1>2, DispatchesType

\* What an answer does to a row.
LEMMA AnsweredFacts ==
    ASSUME NEW row \in DispatchRow
    PROVE  LET a == Answered(row) IN
           /\ a \in DispatchRow
           /\ a.status \in Marked
           /\ a.sunat = row.sunat /\ a.left = row.left /\ a.job = row.job
           /\ a.line = "covered" => row.line \in {"active", "covered"}
           /\ row.sunat = "accepted" /\ row.line \in {"active", "covered"} => a.line = "covered"
           /\ row.sunat # "accepted" =>
                  /\ a.guide = "rechazada" /\ a.line # "active"
                  /\ a.line = "covered" => row.line = "covered"
<1>1. CASE row.sunat = "accepted"
  BY <1>1, AnsweredType DEF Answered, DispatchRow, Marked
<1>2. CASE row.sunat # "accepted"
  BY <1>2, AnsweredType DEF Answered, DispatchRow, Marked
<1>. QED
  BY <1>1, <1>2

LEMMA DispatchSteps ==
    ASSUME LedgerInv, Dispatches PROVE LedgerInv'
<1>. dispatch \in [Dispatch -> DispatchRow]
  BY TypeParts DEF LedgerInv
<1>1. ASSUME NEW d \in Dispatch, NEW q \in Quantities,
             ReserveDispatch(d, q) \/ PrepareDispatch(d, q)
      PROVE  LedgerInv'
  <2>. InOrder(d) /\ dispatch[d] \in DispatchRow
    BY DEF LedgerInv
  <2>1. dispatch[d].status \in {"none", "provisional", "draft"}
    BY <1>1 DEF ReserveDispatch, PrepareDispatch, New, Changes, Editable
  <2>2. dispatch[d].sunat = "none" /\ ~dispatch[d].left /\ dispatch[d].job = "none"
    BY <2>1 DEF InOrder, Marked, DispatchRow
  <2>3. CASE ReserveDispatch(d, q)
    <3>1. void \notin {"sent", "accepted"}
      BY <2>3 DEF ReserveDispatch, CanReserve, SourceAvailable
    <3>2. InOrder(d)'
      BY <2>2, <2>3 DEF ReserveDispatch, InOrder, DispatchRow
    <3>. QED
      BY <2>3, <3>1, <3>2, DispatchStep DEF ReserveDispatch, notes
  <2>4. CASE PrepareDispatch(d, q)
    <3>1. InOrder(d)' /\ ~Open(d)'
      BY <2>2, <2>4 DEF PrepareDispatch, InOrder, DispatchRow, Open
    <3>. QED
      BY <2>4, <3>1, DispatchStep DEF PrepareDispatch, notes
  <2>. QED
    BY <1>1, <2>3, <2>4
<1>2. ASSUME NEW d \in Dispatch, CancelDispatch(d) PROVE LedgerInv'
  <2>. InOrder(d) /\ dispatch[d] \in DispatchRow
    BY DEF LedgerInv
  <2>1. dispatch[d].sunat = "none" /\ ~dispatch[d].left /\ dispatch[d].job = "none"
    BY <1>2 DEF CancelDispatch, Editable, InOrder, Marked, DispatchRow
  <2>2. InOrder(d)' /\ ~Open(d)'
    BY <1>2, <2>1 DEF CancelDispatch, InOrder, DispatchRow, Open
  <2>. QED
    BY <1>2, <2>2, DispatchStep DEF CancelDispatch, notes
<1>3. ASSUME NEW d \in Dispatch, CommitEmission(d) PROVE LedgerInv'
  <2>. InOrder(d) /\ dispatch[d] \in DispatchRow
    BY DEF LedgerInv
  <2>1. PICK job \in Enqueued(dispatch[d].job) :
            dispatch' = [dispatch EXCEPT ![d] =
                [@ EXCEPT !.status = "guide_pending", !.guide = "pendiente_smartpse",
                          !.job = job]]
    BY <1>3 DEF CommitEmission
  <2>2. job # "none"
    BY EnqueuedType DEF DispatchRow
  <2>3. InOrder(d)'
    BY <1>3, <2>1, <2>2 DEF CommitEmission, InOrder, Marked, DispatchRow, Issued
  <2>4. Open(d)' => Open(d)
    BY <2>1 DEF Open, InOrder, DispatchRow
  <2>. QED
    BY <1>3, <2>1, <2>3, <2>4, DispatchStep DEF CommitEmission, notes
<1>4. ASSUME NEW d \in Dispatch, SubmitGuide(d) PROVE LedgerInv'
  <2>. InOrder(d) /\ dispatch[d] \in DispatchRow
    BY DEF LedgerInv
  <2>1. dispatch[d].status \in Marked /\ dispatch[d].job = "queued"
    BY <1>4 DEF SubmitGuide, InOrder
  <2>2. CASE ValidForEmission(d)
    <3>1. PICK decision \in Verdict :
              dispatch' = [dispatch EXCEPT ![d].job = "sent",
                              ![d].sunat = IF @ = "none" THEN decision ELSE @]
      BY <1>4, <2>2 DEF SubmitGuide
    <3>2. InOrder(d)' /\ (Open(d)' => Open(d))
      BY <1>4, <2>1, <2>2, <3>1
         DEF SubmitGuide, ValidForEmission, CanReserve, InOrder, DispatchRow, Open, Issued
    <3>. QED
      BY <1>4, <3>1, <3>2, DispatchStep DEF SubmitGuide, notes
  <2>3. CASE ~ValidForEmission(d)
    <3>1. InOrder(d)' /\ (Open(d)' => Open(d))
      BY <1>4, <2>1, <2>3 DEF SubmitGuide, InOrder, DispatchRow, Open, Issued
    <3>. QED
      BY <1>4, <2>3, <3>1, DispatchStep DEF SubmitGuide, notes
  <2>. QED
    BY <2>2, <2>3
<1>5. ASSUME NEW d \in Dispatch, GuideAnswered(d) \/ ConsultAnswered(d) PROVE LedgerInv'
  <2>. DEFINE a == Answered(dispatch[d])
  <2>. InOrder(d) /\ dispatch[d] \in DispatchRow
    BY DEF LedgerInv
  <2>1. /\ a \in DispatchRow
        /\ a.status \in Marked
        /\ a.sunat = dispatch[d].sunat /\ a.left = dispatch[d].left /\ a.job = dispatch[d].job
        /\ dispatch[d].sunat = "accepted" => a.line = "covered"
        /\ dispatch[d].sunat # "accepted" =>
               /\ a.guide = "rechazada" /\ a.line # "active"
               /\ a.line = "covered" => dispatch[d].line = "covered"
    BY AnsweredFacts DEF InOrder
  <2>2. PICK job \in JobState \ {"none"}, consult \in {"none", "out", "done"} :
            dispatch' = [dispatch EXCEPT ![d] = [a EXCEPT !.job = job, !.consult = consult]]
    <3>. HIDE DEF a
    <3>1. CASE GuideAnswered(d)
      <4>. DEFINE end == IF dispatch[d].sunat = "accepted" THEN "done" ELSE "failed"
      <4>1. dispatch' = [dispatch EXCEPT ![d] = [a EXCEPT !.job = end]]
        BY <3>1 DEF GuideAnswered, a
      <4>2. end \in JobState \ {"none"} /\ a.consult \in {"none", "out", "done"}
        BY <2>1 DEF JobState, DispatchRow
      <4>3. [a EXCEPT !.job = end] = [a EXCEPT !.job = end, !.consult = a.consult]
        BY <2>1 DEF DispatchRow
      <4>. HIDE DEF end
      <4>. QED
        BY <4>1, <4>2, <4>3
    <3>2. CASE ConsultAnswered(d)
      <4>. DEFINE end == IF dispatch[d].sunat = "accepted" THEN "done" ELSE "none"
      <4>1. dispatch' = [dispatch EXCEPT ![d] = [a EXCEPT !.consult = end]]
        BY <3>2 DEF ConsultAnswered, a
      <4>2. a.job \in JobState \ {"none"} /\ end \in {"none", "out", "done"}
        BY <2>1, <3>2 DEF JobState, DispatchRow, InOrder, ConsultAnswered
      <4>3. [a EXCEPT !.consult = end] = [a EXCEPT !.job = a.job, !.consult = end]
        BY <2>1 DEF DispatchRow
      <4>. HIDE DEF end
      <4>. QED
        BY <4>1, <4>2, <4>3
    <3>. QED
      BY <1>5, <3>1, <3>2
  <2>. HIDE DEF a
  <2>3. dispatch'[d] = [a EXCEPT !.job = job, !.consult = consult]
    BY <2>2
  <2>4. dispatch[d].sunat # "none" /\ UNCHANGED <<document, void, note, Issued>>
    BY <1>5 DEF GuideAnswered, ConsultAnswered, notes, Issued
  <2>5. CASE dispatch[d].sunat = "accepted"
    <3>1. InOrder(d)'
      BY <2>1, <2>3, <2>4, <2>5 DEF InOrder, Marked, DispatchRow
    <3>. QED
      BY <2>2, <2>4, <2>5, <3>1, AcceptedIsOpen, DispatchStep
  <2>6. CASE dispatch[d].sunat # "accepted"
    <3>1. InOrder(d)'
      BY <2>1, <2>3, <2>4, <2>6 DEF InOrder, Marked, DispatchRow
    <3>2. Open(d)' => Open(d)
      BY <2>1, <2>3, <2>4, <2>6 DEF InOrder, Marked, DispatchRow, Open
    <3>. QED
      BY <2>2, <2>4, <3>1, <3>2, DispatchStep
  <2>. QED
    BY <2>5, <2>6
<1>6. ASSUME NEW d \in Dispatch,
             \/ GuideUnanswered(d) \/ GuidePending(d)
             \/ ConsultGuide(d) \/ ConsultUnanswered(d) \/ ConfirmDeparture(d)
      PROVE  LedgerInv'
  <2>. InOrder(d) /\ dispatch[d] \in DispatchRow
    BY DEF LedgerInv
  <2>1. InOrder(d)'
    <3>1. CASE GuideUnanswered(d)
      <4>1. PICK end \in JobState \ {"none"} : dispatch' = [dispatch EXCEPT ![d].job = end]
        BY <3>1 DEF GuideUnanswered, JobState
      <4>. QED
        BY <3>1, <4>1 DEF GuideUnanswered, InOrder, DispatchRow, Issued
    <3>2. CASE GuidePending(d)
      BY <3>2 DEF GuidePending, InOrder, DispatchRow, Issued
    <3>3. CASE ConsultGuide(d) \/ ConsultUnanswered(d)
      BY <3>3 DEF ConsultGuide, ConsultUnanswered, InOrder, DispatchRow, Issued
    <3>4. CASE ConfirmDeparture(d)
      BY <3>4 DEF ConfirmDeparture, InOrder, Marked, DispatchRow, Issued
    <3>. QED
      BY <1>6, <3>1, <3>2, <3>3, <3>4
  <2>2. Open(d)' => Open(d)
    BY <1>6 DEF GuideUnanswered, GuidePending, ConsultGuide, ConsultUnanswered,
                ConfirmDeparture, InOrder, Marked, DispatchRow, Open
  <2>. QED
    BY <1>6, <2>1, <2>2, DispatchStep
       DEF GuideUnanswered, GuidePending, ConsultGuide, ConsultUnanswered,
           ConfirmDeparture, notes
<1>7. ASSUME UNCHANGED <<document, void, dispatch, note>> PROVE LedgerInv'
  <2>1. \A d \in Dispatch : InOrder(d)'
    BY <1>7, SameInOrder DEF LedgerInv, Issued
  <2>2. VoidStaysClean'
    BY <1>7 DEF LedgerInv, VoidStaysClean, VoidClear, Standing, Open
  <2>. QED
    BY <2>1, <2>2, DispatchesType DEF LedgerInv
<1>8. ASSUME NEW d \in Dispatch, BeginEmission(d) PROVE LedgerInv'
  BY <1>7, <1>8 DEF BeginEmission, notes
<1>9. CASE AbortEmission
  BY <1>7, <1>9 DEF AbortEmission, notes
<1>. QED
  BY <1>1, <1>2, <1>3, <1>4, <1>5, <1>6, <1>8, <1>9 DEF Dispatches

\* Notes change nothing of a dispatch, and none comes to count while the source
\* is not available.
LEMMA NoteSteps ==
    ASSUME LedgerInv, Notes PROVE LedgerInv'
<1>. note \in [Note -> NoteRow]
  BY TypeParts DEF LedgerInv
<1>1. UNCHANGED <<document, void, dispatch>>
  BY DEF Notes, WriteDraft, IssueNote, ReadDraft, DeleteNote, ReadForNumber, NumberNote,
         RetryNote, SubmitNote, NoteAccepted, NoteExceeds, NoteDoubtful, NoteUnanswered, VoidNote,
         ReceiveReturn
<1>2. \A d \in Dispatch : InOrder(d)'
  BY <1>1, SameInOrder DEF LedgerInv, Issued
<1>3. ASSUME void \in {"sent", "accepted"}, NEW m \in Note, Standing(m)' PROVE Standing(m)
  <2>1. ~SourceAvailable
    BY <1>3 DEF SourceAvailable
  <2>2. ASSUME NEW n \in Note,
               \/ ReadDraft(n) \/ DeleteNote(n) \/ VoidNote(n) \/ ReadForNumber(n)
               \/ SubmitNote(n) \/ NoteDoubtful(n) \/ NoteUnanswered(n)
               \/ NoteAccepted(n) \/ NoteExceeds(n)
        PROVE  Standing(m)
    BY <1>3, <2>2 DEF ReadDraft, DeleteNote, VoidNote, ReadForNumber, SubmitNote,
         NoteDoubtful, NoteUnanswered, NoteAccepted, NoteExceeds, Standing, NoteRow
  <2>3. ASSUME NEW n \in Note, NEW q \in Quantities, ReceiveReturn(n, q)
        PROVE  Standing(m)
    BY <1>3, <2>3 DEF ReceiveReturn, Standing, NoteRow
  <2>. QED
    BY <2>1, <2>2, <2>3 DEF Notes, WriteDraft, IssueNote, NumberNote, Numberable, RetryNote
<1>4. VoidStaysClean'
  BY <1>1, <1>3, StaysClean DEF LedgerInv, Open
<1>. QED
  BY <1>2, <1>4, NotesType DEF LedgerInv

LEMMA LedgerNext == LedgerInv /\ [Next]_vars => LedgerInv'
<1>. SUFFICES ASSUME LedgerInv, [Next]_vars PROVE LedgerInv'
  OBVIOUS
<1>1. CASE Next
  BY <1>1, SaleSteps, VoidSteps, DispatchSteps, NoteSteps DEF Next
<1>2. CASE UNCHANGED vars
  <2>1. \A d \in Dispatch : InOrder(d)'
    BY <1>2, SameInOrder DEF LedgerInv, vars, Issued
  <2>2. VoidStaysClean'
    BY <1>2 DEF LedgerInv, vars, VoidStaysClean, VoidClear, Standing, Open
  <2>3. TypeOK'
    BY <1>2 DEF LedgerInv, vars, TypeOK
  <2>. QED
    BY <2>1, <2>2, <2>3 DEF LedgerInv
<1>. QED
  BY <1>1, <1>2

LEMMA LedgerAlways == Spec => []LedgerInv
BY LedgerInit, LedgerNext, PTL DEF Spec

\* From the sending of its batch on, a cancelled sale has no note that counts
\* and no goods assigned, and the reversal is never refused: two checks, one
\* when the cancellation is requested and one without the lock before it is
\* sent, are enough because everything that comes in between looks at the job.
THEOREM VoidStaysCleanHolds == Spec => []VoidStaysClean
<1>1. LedgerInv => VoidStaysClean
  BY DEF LedgerInv
<1>. QED
  BY <1>1, LedgerAlways, PTL

\* Goods that have left are covered by an accepted guide, of a sale that is in
\* force and whose cancellation was not sent.
THEOREM GoodsLeaveCoveredHolds == Spec => []GoodsLeaveCovered
<1>1. LedgerInv => GoodsLeaveCovered
  <2>. SUFFICES ASSUME LedgerInv, NEW d \in Dispatch, dispatch[d].left
                PROVE  /\ dispatch[d].line = "covered" /\ Issued
                       /\ void \notin {"sent", "accepted"}
    BY DEF GoodsLeaveCovered
  <2>1. InOrder(d) /\ dispatch[d].sunat = "accepted" /\ dispatch[d].line = "covered"
    BY DEF LedgerInv, InOrder
  <2>2. Open(d) /\ Issued
    BY <2>1, AcceptedIsOpen
  <2>. QED
    BY <2>1, <2>2 DEF LedgerInv, VoidStaysClean, VoidClear
<1>. QED
  BY <1>1, LedgerAlways, PTL

-----------------------------------------------------------------------------
(* Sums over the notes, when one of them changes *)

\* What a note adds to the accepted credit, to the accepted debit, to the debit
\* that was withdrawn, and to the credit that is promised.
Credited(row) == IF row.state = "facturada" /\ ~row.debit THEN row.amount ELSE 0
Debited(row)  == IF row.state = "facturada" /\ row.debit THEN row.amount ELSE 0
Gone(row)     == row.debit /\ row.call = "done" /\ row.state # "facturada"
Lost(row)     == IF Gone(row) THEN row.amount ELSE 0
Holding(row)  == row.state = "pendiente" /\ ~row.debit /\ row.form = "v2" /\ ~row.error
Promised(row) == IF Holding(row) THEN row.amount ELSE 0

LEMMA AmountChange ==
    ASSUME TypeOK, TypeOK', NEW n \in Note, \A m \in Note \ {n} : note'[m] = note[m],
           NEW P \in SUBSET Note, NEW Q \in SUBSET Note, P \ {n} = Q \ {n}
    PROVE  /\ Amount(P) \in Nat
           /\ SumFunctionOnSet([m \in Note |-> note'[m].amount], Q) =
                  Amount(P) - (IF n \in P THEN note[n].amount ELSE 0)
                            + (IF n \in Q THEN note'[n].amount ELSE 0)
<1>. DEFINE f == [m \in Note |-> note[m].amount]
            g == [m \in Note |-> note'[m].amount]
<1>1. \A m \in Note : f[m] \in Nat /\ g[m] \in Nat
  BY DEF NoteRow, TypeOK
<1>2. \A m \in P \ {n} : f[m] = g[m]
  OBVIOUS
<1>3. f[n] = note[n].amount /\ g[n] = note'[n].amount
  OBVIOUS
<1>4. IsFiniteSet(Note) /\ IsFiniteSet(P)
  BY LedgerAssumption, FS_Subset
<1>. HIDE DEF f, g
<1>5. SumFunctionOnSet(f, P) \in Nat
  BY <1>1, <1>4, SumNat
<1>6. SumFunctionOnSet(g, Q) = SumFunctionOnSet(f, P) - Share(f, P, n) + Share(g, Q, n)
  BY <1>1, <1>2, <1>4, SumChange
<1>. QED
  BY <1>3, <1>5, <1>6 DEF Amount, Share, f, g

\* A note's state decides to which sums it counts.
LEMMA BalanceChange ==
    ASSUME TypeOK, TypeOK', NEW n \in Note, \A m \in Note \ {n} : note'[m] = note[m]
    PROVE  /\ Amount(Accepted(FALSE))' =
                  Amount(Accepted(FALSE)) - Credited(note[n]) + Credited(note'[n])
           /\ Amount(Accepted(TRUE))' =
                  Amount(Accepted(TRUE)) - Debited(note[n]) + Debited(note'[n])
           /\ Amount(Withdrawn)' = Amount(Withdrawn) - Lost(note[n]) + Lost(note'[n])
           /\ Amount(Reserving)' = Amount(Reserving) - Promised(note[n]) + Promised(note'[n])
           /\ Amount(Accepted(FALSE)) \in Nat /\ Amount(Accepted(TRUE)) \in Nat
           /\ Amount(Withdrawn) \in Nat /\ Amount(Reserving) \in Nat
<1>. DEFINE g == [m \in Note |-> note'[m].amount]
<1>0. note \in [Note -> NoteRow] /\ note' \in [Note -> NoteRow]
  BY DEF TypeOK, NoteRow
<1>1. /\ Amount(Accepted(FALSE)) \in Nat
      /\ Amount(Accepted(FALSE))' =
             Amount(Accepted(FALSE)) - Credited(note[n]) + Credited(note'[n])
  <2>. DEFINE P == Accepted(FALSE)
              Q == {m \in Note : note'[m].state = "facturada" /\ note'[m].debit = FALSE}
  <2>1. P \in SUBSET Note /\ Q \in SUBSET Note /\ P \ {n} = Q \ {n}
    BY DEF Accepted
  <2>2. /\ (IF n \in P THEN note[n].amount ELSE 0) = Credited(note[n])
        /\ (IF n \in Q THEN note'[n].amount ELSE 0) = Credited(note'[n])
    BY <1>0 DEF Accepted, Credited, NoteRow
  <2>3. Amount(P)' = SumFunctionOnSet(g, Q)
    BY DEF Amount, Accepted
  <2>. HIDE DEF P, Q
  <2>4. Amount(P) \in Nat /\ Amount(P)' = Amount(P) - Credited(note[n]) + Credited(note'[n])
    BY <2>1, <2>2, <2>3, AmountChange
  <2>. QED
    BY <2>4 DEF P
<1>2. /\ Amount(Accepted(TRUE)) \in Nat
      /\ Amount(Accepted(TRUE))' =
             Amount(Accepted(TRUE)) - Debited(note[n]) + Debited(note'[n])
  <2>. DEFINE P == Accepted(TRUE)
              Q == {m \in Note : note'[m].state = "facturada" /\ note'[m].debit = TRUE}
  <2>1. P \in SUBSET Note /\ Q \in SUBSET Note /\ P \ {n} = Q \ {n}
    BY DEF Accepted
  <2>2. /\ (IF n \in P THEN note[n].amount ELSE 0) = Debited(note[n])
        /\ (IF n \in Q THEN note'[n].amount ELSE 0) = Debited(note'[n])
    BY <1>0 DEF Accepted, Debited, NoteRow
  <2>3. Amount(P)' = SumFunctionOnSet(g, Q)
    BY DEF Amount, Accepted
  <2>. HIDE DEF P, Q
  <2>4. Amount(P) \in Nat /\ Amount(P)' = Amount(P) - Debited(note[n]) + Debited(note'[n])
    BY <2>1, <2>2, <2>3, AmountChange
  <2>. QED
    BY <2>4 DEF P
<1>3. /\ Amount(Withdrawn) \in Nat
      /\ Amount(Withdrawn)' = Amount(Withdrawn) - Lost(note[n]) + Lost(note'[n])
  <2>. DEFINE Q == {m \in Note : note'[m].debit /\ note'[m].call = "done"
                                                /\ note'[m].state # "facturada"}
  <2>1. /\ Withdrawn \in SUBSET Note /\ Q \in SUBSET Note
        /\ Withdrawn \ {n} = Q \ {n}
    BY DEF Withdrawn
  <2>2. /\ (IF n \in Withdrawn THEN note[n].amount ELSE 0) = Lost(note[n])
        /\ (IF n \in Q THEN note'[n].amount ELSE 0) = Lost(note'[n])
    BY <1>0 DEF Withdrawn, Lost, Gone, NoteRow
  <2>3. Amount(Withdrawn)' = SumFunctionOnSet(g, Q)
    BY DEF Amount, Withdrawn
  <2>. HIDE DEF Q
  <2>. QED
    BY <2>1, <2>2, <2>3, AmountChange
<1>4. /\ Amount(Reserving) \in Nat
      /\ Amount(Reserving)' = Amount(Reserving) - Promised(note[n]) + Promised(note'[n])
  <2>. DEFINE Q == {m \in Note : /\ note'[m].state = "pendiente" /\ ~note'[m].debit
                                 /\ note'[m].form = "v2" /\ ~note'[m].error}
  <2>1. /\ Reserving \in SUBSET Note /\ Q \in SUBSET Note
        /\ Reserving \ {n} = Q \ {n}
    BY DEF Reserving
  <2>2. /\ (IF n \in Reserving THEN note[n].amount ELSE 0) = Promised(note[n])
        /\ (IF n \in Q THEN note'[n].amount ELSE 0) = Promised(note'[n])
    BY <1>0 DEF Reserving, Promised, Holding, NoteRow
  <2>3. Amount(Reserving)' = SumFunctionOnSet(g, Q)
    BY DEF Amount, Reserving
  <2>. HIDE DEF Q
  <2>. QED
    BY <2>1, <2>2, <2>3, AmountChange
<1>. QED
  BY <1>1, <1>2, <1>3, <1>4

LEMMA MovedChange ==
    ASSUME TypeOK, TypeOK', NEW n \in Note, \A m \in Note \ {n} : note'[m] = note[m]
    PROVE  /\ Moved(Note) \in Nat
           /\ Moved(Note)' = Moved(Note) - note[n].moved + note'[n].moved
<1>. DEFINE f == [m \in Note |-> note[m].moved]
            g == [m \in Note |-> note'[m].moved]
<1>1. \A m \in Note : f[m] \in Nat /\ g[m] \in Nat
  BY DEF NoteRow, TypeOK
<1>2. \A m \in Note \ {n} : f[m] = g[m]
  OBVIOUS
<1>3. f[n] = note[n].moved /\ g[n] = note'[n].moved
  OBVIOUS
<1>4. Moved(Note) = SumFunctionOnSet(f, Note) /\ Moved(Note)' = SumFunctionOnSet(g, Note)
  BY DEF Moved
<1>. HIDE DEF f, g
<1>5. SumFunctionOnSet(f, Note) \in Nat
  BY <1>1, LedgerAssumption, SumNat
<1>6. SumFunctionOnSet(g, Note) = SumFunctionOnSet(f, Note) - Share(f, Note, n)
                                      + Share(g, Note, n)
  BY <1>1, <1>2, LedgerAssumption, SumChange
<1>. QED
  BY <1>3, <1>4, <1>5, <1>6 DEF Share

\* What a note holds is a part of what is held.
LEMMA BalanceTypes ==
    ASSUME TypeOK, NEW n \in Note
    PROVE  /\ Amount(Reserving) = Amount(Reserving \ {n}) + Promised(note[n])
           /\ Amount(Reserving \ {n}) \in Nat /\ Promised(note[n]) \in Nat
           /\ Amount(Reserving) \in Nat /\ Promised(note[n]) <= Amount(Reserving)
           /\ Net \in Int
<1>. DEFINE f == [m \in Note |-> note[m].amount]
            R == Reserving
            A == Accepted(FALSE)
            D == Accepted(TRUE)
<1>0. note \in [Note -> NoteRow]
  BY DEF TypeOK, NoteRow
<1>1. /\ \A m \in Note : f[m] \in Nat
      /\ R \in SUBSET Note /\ R \ {n} \in SUBSET Note
      /\ A \in SUBSET Note /\ D \in SUBSET Note
  BY <1>0 DEF NoteRow, Reserving, Accepted
<1>2. /\ IsFiniteSet(R) /\ IsFiniteSet(R \ {n}) /\ IsFiniteSet(A) /\ IsFiniteSet(D)
  BY <1>1, LedgerAssumption, FS_Subset
<1>3. /\ Amount(R) = SumFunctionOnSet(f, R) /\ Amount(R \ {n}) = SumFunctionOnSet(f, R \ {n})
      /\ Net = Invoiced - SumFunctionOnSet(f, A) + SumFunctionOnSet(f, D)
  BY DEF Amount, Net
<1>4. f[n] = note[n].amount
  OBVIOUS
<1>5. (n \in R <=> Holding(note[n])) /\ note[n].amount \in Nat
  BY <1>0 DEF Reserving, Holding, NoteRow
<1>. HIDE DEF f, R, A, D
<1>6. /\ SumFunctionOnSet(f, R \ {n}) \in Nat /\ SumFunctionOnSet(f, R) \in Nat
      /\ SumFunctionOnSet(f, A) \in Nat /\ SumFunctionOnSet(f, D) \in Nat
  BY <1>1, <1>2, SumNat
<1>7. Promised(note[n]) \in Nat
  BY <1>5 DEF Promised
<1>8. Net \in Int
  BY <1>3, <1>6, LedgerAssumption
<1>9. Amount(R) = Amount(R \ {n}) + Promised(note[n])
  <2>1. CASE n \in R
    <3>1. SumFunctionOnSet(f, R) = f[n] + SumFunctionOnSet(f, R \ {n})
      BY <1>1, <1>2, <2>1, SumRemove
    <3>2. Promised(note[n]) = note[n].amount
      BY <1>5, <2>1 DEF Promised
    <3>. QED
      BY <1>3, <1>4, <1>5, <1>6, <3>1, <3>2
  <2>2. CASE n \notin R
    <3>1. R \ {n} = R
      BY <2>2
    <3>2. Promised(note[n]) = 0
      BY <1>5, <2>2 DEF Promised
    <3>3. Amount(R \ {n}) = Amount(R)
      BY <3>1
    <3>. QED
      BY <1>3, <1>6, <3>2, <3>3
  <2>. QED
    BY <2>1, <2>2
<1>. QED
  BY <1>3, <1>6, <1>7, <1>8, <1>9 DEF R

\* A credit that is available leaves the other promises within the balance.
LEMMA AvailableRoom ==
    ASSUME TypeOK, NEW n \in Note, NEW a \in Nat, a <= Available(n)
    PROVE  a = 0 \/ a + Amount(Reserving) - Promised(note[n]) <= Net
BY BalanceTypes DEF Available, AtLeastZero

-----------------------------------------------------------------------------
(* Money and stock follow the notes *)

\* What ties a note's goods to its job: an answer that is stored ends the job for
\* good, unless its goods are refused, and goods move with such an answer.
NoteInOrder(n) ==
    /\ note[n].debit => note[n].impact = "none"
    /\ note[n].state \in {"none", "borrador"} => note[n].call = "idle"
    /\ note[n].state = "facturada" =>
           note[n].call = "done" \/ (note[n].call = "idle" /\ note[n].impact = "undelivered")
    /\ note[n].moved # 0 =>
           note[n].call = "done" /\ note[n].impact # "none" /\ note[n].state # "anulada"

\* The stock is what was there, with adjustments, without what the sale took, and
\* with what notes brought back.
Stocked ==
    /\ document.estado = "pendiente" => ~document.booked
    /\ document.estado = "anulada" => void = "accepted"
    /\ onHand = InitialStock + adjusted + Moved(Note)
                    - (IF document.booked /\ document.estado = "facturada" THEN Invoiced ELSE 0)

MoneyInv ==
    /\ LedgerInv
    /\ \A n \in Note : NoteInOrder(n)
    /\ Stocked
    /\ CreditWithinSale
    /\ ReservedIsAvailable

\* A change of one note leaves the credit within the sale if it adds to the
\* accepted credit no more than there is, and takes no debit away.
LEMMA CreditKept ==
    ASSUME TypeOK, TypeOK', CreditWithinSale,
           NEW n \in Note, \A m \in Note \ {n} : note'[m] = note[m],
           Debited(note[n]) + Lost(note[n]) <= Debited(note'[n]) + Lost(note'[n]),
           \/ Credited(note'[n]) <= Credited(note[n])
           \/ /\ Credited(note[n]) = 0
              /\ Debited(note[n]) = 0
              /\ Lost(note[n]) = 0
              /\ Credited(note'[n]) <= Net
    PROVE  CreditWithinSale'
<1>. DEFINE A == Amount(Accepted(FALSE))
            D == Amount(Accepted(TRUE))
            W == Amount(Withdrawn)
<1>0. note[n] \in NoteRow /\ note'[n] \in NoteRow
  BY DEF TypeOK, NoteRow
<1>1. /\ Credited(note[n]) \in Nat /\ Credited(note'[n]) \in Nat
      /\ Debited(note[n]) \in Nat /\ Debited(note'[n]) \in Nat
      /\ Lost(note[n]) \in Nat /\ Lost(note'[n]) \in Nat
  BY <1>0 DEF Credited, Debited, Lost, NoteRow
<1>2. /\ A \in Nat /\ D \in Nat /\ W \in Nat
      /\ A' = A - Credited(note[n]) + Credited(note'[n])
      /\ D' = D - Debited(note[n]) + Debited(note'[n])
      /\ W' = W - Lost(note[n]) + Lost(note'[n])
  BY BalanceChange
<1>3. A <= Invoiced + D + W /\ Net = Invoiced - A + D
  BY DEF CreditWithinSale, Net
<1>4. CreditWithinSale' <=> A' <= Invoiced + D' + W'
  BY DEF CreditWithinSale
<1>. HIDE DEF A, D, W
<1>. QED
  BY <1>1, <1>2, <1>3, <1>4, LedgerAssumption

\* It leaves what is promised within the balance if it promises no more, or no
\* more than there is.
LEMMA ReservedKept ==
    ASSUME TypeOK, TypeOK', ReservedIsAvailable,
           NEW n \in Note, \A m \in Note \ {n} : note'[m] = note[m],
           Gone(note[n]) => Gone(note'[n]),
           note[n].stale => note'[n].stale,
           \/ Gone(note'[n])
           \/ note'[n].stale
           \/ /\ Debited(note[n]) <= Debited(note'[n])
              /\ Credited(note'[n]) <= Credited(note[n])
              /\ Promised(note'[n]) <= Promised(note[n])
           \/ /\ Debited(note[n]) = Debited(note'[n])
              /\ Credited(note[n]) <= Credited(note'[n])
              /\ Credited(note'[n]) - Credited(note[n])
                     = Promised(note[n]) - Promised(note'[n])
           \/ /\ Debited(note[n]) = Debited(note'[n])
              /\ Amount(Reserving) - Promised(note[n]) + Promised(note'[n])
                     <= Net + Credited(note[n]) - Credited(note'[n])
    PROVE  ReservedIsAvailable'
<1>. DEFINE A == Amount(Accepted(FALSE))
            D == Amount(Accepted(TRUE))
            R == Amount(Reserving)
<1>. SUFFICES ASSUME Withdrawn' = {}, \A m \in Note : ~note'[m].stale
              PROVE  R' <= AtLeastZero(Net')
  BY DEF ReservedIsAvailable, AtLeastZero
<1>0. note[n] \in NoteRow /\ note'[n] \in NoteRow
  BY DEF TypeOK, NoteRow
<1>1. /\ Credited(note[n]) \in Nat /\ Credited(note'[n]) \in Nat
      /\ Debited(note[n]) \in Nat /\ Debited(note'[n]) \in Nat
      /\ Promised(note[n]) \in Nat /\ Promised(note'[n]) \in Nat
  BY <1>0 DEF Credited, Debited, Promised, NoteRow
<1>2. /\ A \in Nat /\ D \in Nat /\ R \in Nat
      /\ A' = A - Credited(note[n]) + Credited(note'[n])
      /\ D' = D - Debited(note[n]) + Debited(note'[n])
      /\ R' = R - Promised(note[n]) + Promised(note'[n])
  BY BalanceChange
<1>3. \A m \in Note : ~Gone(note'[m]) /\ ~note'[m].stale
  BY DEF Withdrawn, Gone
<1>4. \A m \in Note : ~Gone(note[m]) /\ ~note[m].stale
  BY <1>3
<1>5. Withdrawn = {}
  BY <1>4 DEF Withdrawn, Gone
<1>6. R <= AtLeastZero(Net)
  BY <1>4, <1>5 DEF ReservedIsAvailable
<1>7. Net = Invoiced - A + D /\ Net' = Invoiced - A' + D'
  BY DEF Net
<1>8. ~Gone(note'[n]) /\ ~note'[n].stale
  BY <1>3
<1>. HIDE DEF A, D, R
<1>9. CASE /\ Debited(note[n]) <= Debited(note'[n])
           /\ Credited(note'[n]) <= Credited(note[n])
           /\ Promised(note'[n]) <= Promised(note[n])
  BY <1>1, <1>2, <1>6, <1>7, <1>9, LedgerAssumption DEF AtLeastZero
<1>10. CASE /\ Debited(note[n]) = Debited(note'[n])
            /\ Credited(note[n]) <= Credited(note'[n])
            /\ Credited(note'[n]) - Credited(note[n])
                   = Promised(note[n]) - Promised(note'[n])
  BY <1>1, <1>2, <1>6, <1>7, <1>10, LedgerAssumption DEF AtLeastZero
<1>11. CASE /\ Debited(note[n]) = Debited(note'[n])
            /\ Amount(Reserving) - Promised(note[n]) + Promised(note'[n])
                   <= Net + Credited(note[n]) - Credited(note'[n])
  BY <1>1, <1>2, <1>6, <1>7, <1>11, LedgerAssumption DEF AtLeastZero, R
<1>. QED
  BY <1>8, <1>9, <1>10, <1>11

\* A change of one note that takes nothing from anybody.
Quiet(old, new) ==
    /\ Debited(old) + Lost(old) <= Debited(new) + Lost(new)
    /\ Credited(new) <= Credited(old)
    /\ Gone(old) => Gone(new)
    /\ old.stale => new.stale
    /\ Gone(new) \/ new.stale \/ (Debited(old) <= Debited(new) /\ Promised(new) <= Promised(old))

\* A note whose content stays, that does not become an accepted one, and whose job
\* has ended if it was an accepted debit.
LEMMA QuietRows ==
    ASSUME NEW old \in NoteRow, NEW new \in NoteRow,
           new.debit = old.debit, new.amount = old.amount, new.form = old.form,
           old.stale => new.stale,
           old.debit /\ old.call = "done" => new.call = "done",
           new.state = "facturada" => old.state = "facturada",
           old.state = "facturada" /\ old.debit => new.call = "done",
           \/ new.stale
           \/ old.debit
           \/ /\ new.state = "pendiente" => old.state = "pendiente"
              /\ old.error => new.error
    PROVE  Quiet(old, new)
<1>. USE DEF NoteRow
<1>0. old.amount \in Nat
  OBVIOUS
<1>1. CASE old.debit
  <2>1. Credited(old) = 0 /\ Credited(new) = 0 /\ Promised(old) = 0 /\ Promised(new) = 0
    BY <1>1 DEF Credited, Promised, Holding
  <2>2. Gone(old) => Gone(new)
    BY <1>1 DEF Gone
  <2>3. CASE old.state = "facturada"
    <3>1. Debited(old) = old.amount /\ Lost(old) = 0
      BY <1>1, <2>3 DEF Debited, Lost, Gone
    <3>2. CASE new.state = "facturada"
      <4>1. Debited(new) = old.amount /\ Lost(new) = 0
        BY <1>1, <3>2 DEF Debited, Lost, Gone
      <4>. QED
        BY <1>0, <2>1, <2>2, <3>1, <4>1 DEF Quiet
    <3>3. CASE new.state # "facturada"
      <4>1. Debited(new) = 0 /\ Lost(new) = old.amount /\ Gone(new)
        BY <1>1, <2>3, <3>3 DEF Debited, Lost, Gone
      <4>. QED
        BY <1>0, <2>1, <2>2, <3>1, <4>1 DEF Quiet
    <3>. QED
      BY <3>2, <3>3
  <2>4. CASE old.state # "facturada"
    <3>1. Debited(old) = 0 /\ Debited(new) = 0
      BY <1>1, <2>4 DEF Debited
    <3>2. Lost(old) \in Nat /\ Lost(new) \in Nat /\ Lost(old) <= Lost(new)
      BY <1>0, <2>2 DEF Lost
    <3>. QED
      BY <2>1, <2>2, <3>1, <3>2 DEF Quiet
  <2>. QED
    BY <2>3, <2>4
<1>2. CASE ~old.debit
  <2>1. /\ ~Gone(old) /\ ~Gone(new) /\ Debited(old) = 0 /\ Debited(new) = 0
        /\ Lost(old) = 0 /\ Lost(new) = 0
    BY <1>2 DEF Gone, Debited, Lost
  <2>2. Credited(new) <= Credited(old)
    BY <1>0, <1>2 DEF Credited
  <2>3. new.stale \/ Promised(new) <= Promised(old)
    <3>1. Holding(new) => Holding(old) \/ new.stale
      BY <1>2 DEF Holding
    <3>. QED
      BY <1>0, <3>1 DEF Promised
  <2>. QED
    BY <2>1, <2>2, <2>3 DEF Quiet
<1>. QED
  BY <1>1, <1>2

LEMMA QuietKeeps ==
    ASSUME TypeOK, TypeOK', CreditWithinSale, ReservedIsAvailable,
           NEW n \in Note, \A m \in Note \ {n} : note'[m] = note[m], Quiet(note[n], note'[n])
    PROVE  CreditWithinSale' /\ ReservedIsAvailable'
<1>1. CreditWithinSale'
  BY CreditKept DEF Quiet
<1>2. ReservedIsAvailable'
  BY ReservedKept DEF Quiet
<1>. QED
  BY <1>1, <1>2

LEMMA OneNoteMoney ==
    ASSUME MoneyInv, LedgerInv', NEW n \in Note, \A m \in Note \ {n} : note'[m] = note[m],
           UNCHANGED <<document, void, adjusted>>,
           onHand' = onHand + note'[n].moved - note[n].moved,
           NoteInOrder(n)', CreditWithinSale', ReservedIsAvailable'
    PROVE  MoneyInv'
<1>0. TypeOK /\ TypeOK'
  BY DEF MoneyInv, LedgerInv
<1>1. \A m \in Note : NoteInOrder(m)'
  BY DEF MoneyInv, NoteInOrder
<1>2. Moved(Note) \in Nat /\ Moved(Note)' = Moved(Note) - note[n].moved + note'[n].moved
  BY <1>0, MovedChange
<1>3. /\ note[n].moved \in Nat /\ note'[n].moved \in Nat /\ onHand \in Nat
      /\ adjusted \in Int
  BY <1>0 DEF TypeOK
<1>4. Stocked'
  BY <1>2, <1>3, LedgerAssumption DEF MoneyInv, Stocked
<1>. QED
  BY <1>1, <1>4 DEF MoneyInv

\* What writes, numbers, enqueues, submits, deletes or cancels a note, and what
\* brings its goods back, but for the numbering of a draft as it was read.
LEMMA QuietNotes ==
    ASSUME MoneyInv, TypeOK', NEW n \in Note,
           \/ \E debit \in BOOLEAN, a \in Amounts, impact \in Impact :
                  \/ WriteDraft(n, debit, a, impact)
                  \/ \E form \in {"clone", "items"} : IssueNote(n, form, debit, a, impact)
           \/ DeleteNote(n) \/ ReadForNumber(n) \/ RetryNote(n) \/ SubmitNote(n)
           \/ NoteDoubtful(n) \/ NoteUnanswered(n) \/ VoidNote(n)
           \/ NumberNote(n) /\ (note[n].debit \/ note'[n].stale)
           \/ \E q \in Quantities : ReceiveReturn(n, q)
    PROVE  /\ Quiet(note[n], note'[n])
           /\ NoteInOrder(n)'
           /\ \A m \in Note \ {n} : note'[m] = note[m]
           /\ UNCHANGED <<document, void, adjusted>>
           /\ onHand' = onHand + note'[n].moved - note[n].moved
<1>0. /\ note \in [Note -> NoteRow] /\ note[n] \in NoteRow /\ NoteInOrder(n)
      /\ onHand \in Nat /\ note'[n] \in NoteRow
  BY DEF MoneyInv, LedgerInv, TypeOK, NoteRow
<1>1. /\ \A m \in Note \ {n} : note'[m] = note[m]
      /\ UNCHANGED <<document, void, adjusted>>
  BY <1>0 DEF WriteDraft, IssueNote, DeleteNote, ReadForNumber, RetryNote, SubmitNote,
              NoteDoubtful, NoteUnanswered, VoidNote, NumberNote, ReceiveReturn, stock
<1>2. ASSUME NEW debit \in BOOLEAN, NEW a \in Amounts, NEW impact \in Impact,
             WriteDraft(n, debit, a, impact)
      PROVE  /\ Quiet(note[n], note'[n])
             /\ NoteInOrder(n)'
             /\ onHand' = onHand + note'[n].moved - note[n].moved
  <2>1. debit => impact = "none"
    BY <1>2 DEF WriteDraft, Adjusts
  <2>2. note'[n] = Content(n, "borrador", "v2", debit, a, impact)
    BY <1>0, <1>2 DEF WriteDraft
  <2>3. /\ note'[n].state = "borrador" /\ note'[n].debit = debit /\ note'[n].impact = impact
        /\ note'[n].call = note[n].call /\ note'[n].moved = note[n].moved
        /\ note'[n].stale = note[n].stale
    BY <1>0, <2>2 DEF Content, NoteRow
  <2>4. note[n].state \in {"none", "borrador"} /\ note[n].call = "idle" /\ note[n].moved = 0
        /\ onHand' = onHand
    BY <1>0, <1>2 DEF WriteDraft, NoteInOrder, stock
  <2>5. Quiet(note[n], note'[n])
    <3>1. /\ Credited(note[n]) = 0 /\ Credited(note'[n]) = 0
          /\ Debited(note[n]) = 0 /\ Debited(note'[n]) = 0
      BY <2>3, <2>4 DEF Credited, Debited
    <3>2. ~Gone(note[n]) /\ ~Gone(note'[n]) /\ Lost(note[n]) = 0 /\ Lost(note'[n]) = 0
      BY <2>3, <2>4 DEF Gone, Lost
    <3>3. Promised(note[n]) = 0 /\ Promised(note'[n]) = 0
      BY <2>3, <2>4 DEF Promised, Holding
    <3>. QED
      BY <2>3, <3>1, <3>2, <3>3 DEF Quiet
  <2>. QED
    BY <1>0, <2>1, <2>3, <2>4, <2>5 DEF NoteInOrder
<1>3. ASSUME NEW debit \in BOOLEAN, NEW a \in Amounts, NEW impact \in Impact,
             NEW form \in {"clone", "items"}, IssueNote(n, form, debit, a, impact)
      PROVE  /\ Quiet(note[n], note'[n])
             /\ NoteInOrder(n)'
             /\ onHand' = onHand + note'[n].moved - note[n].moved
  <2>1. debit => impact = "none"
    BY <1>3 DEF IssueNote
  <2>2. PICK call \in {"idle", "queued"} :
            note'[n] = [Content(n, "pendiente", form, debit, a, impact) EXCEPT !.call = call]
    BY <1>0, <1>3 DEF IssueNote
  <2>3. /\ note'[n].state = "pendiente" /\ note'[n].debit = debit /\ note'[n].impact = impact
        /\ note'[n].call = call /\ note'[n].moved = note[n].moved
        /\ note'[n].stale = note[n].stale /\ note'[n].form = form
    BY <1>0, <2>2 DEF Content, NoteRow
  <2>4. note[n].state = "none" /\ note[n].call = "idle" /\ note[n].moved = 0 /\ onHand' = onHand
    BY <1>0, <1>3 DEF IssueNote, NoteInOrder, stock
  <2>5. Quiet(note[n], note'[n])
    <3>1. /\ Credited(note[n]) = 0 /\ Credited(note'[n]) = 0
          /\ Debited(note[n]) = 0 /\ Debited(note'[n]) = 0
      BY <2>3, <2>4 DEF Credited, Debited
    <3>2. ~Gone(note[n]) /\ ~Gone(note'[n]) /\ Lost(note[n]) = 0 /\ Lost(note'[n]) = 0
      BY <2>3, <2>4 DEF Gone, Lost
    <3>3. Promised(note[n]) = 0 /\ Promised(note'[n]) = 0
      BY <2>3, <2>4 DEF Promised, Holding
    <3>. QED
      BY <2>3, <3>1, <3>2, <3>3 DEF Quiet
  <2>. QED
    BY <1>0, <2>1, <2>3, <2>4, <2>5 DEF NoteInOrder
<1>4. CASE \/ ReadForNumber(n) \/ RetryNote(n) \/ SubmitNote(n)
           \/ NoteDoubtful(n) \/ NoteUnanswered(n)
  <2>1. /\ note'[n].state = note[n].state /\ note'[n].debit = note[n].debit
        /\ note'[n].amount = note[n].amount /\ note'[n].impact = note[n].impact
        /\ note'[n].form = note[n].form /\ note'[n].moved = note[n].moved
        /\ note'[n].stale = note[n].stale
        /\ note'[n].error = note[n].error \/ note'[n].error
        /\ \/ note'[n].call = note[n].call
           \/ note[n].state = "pendiente" /\ note[n].call # "done" /\ note'[n].call # "done"
        /\ onHand' = onHand
    <3>1. CASE ReadForNumber(n)
      BY <1>0, <3>1 DEF ReadForNumber, NoteRow, stock
    <3>2. CASE RetryNote(n)
      BY <1>0, <3>2 DEF RetryNote, NoteRow, stock
    <3>3. CASE SubmitNote(n)
      <4>1. CASE note' = [note EXCEPT ![n].call = "called"]
        BY <1>0, <3>3, <4>1 DEF SubmitNote, NoteRow, stock
      <4>2. CASE note' = [note EXCEPT ![n] = [@ EXCEPT !.error = TRUE, !.call = "idle"]]
        BY <1>0, <3>3, <4>2 DEF SubmitNote, NoteRow, stock
      <4>. QED
        BY <3>3, <4>1, <4>2 DEF SubmitNote
    <3>4. CASE NoteDoubtful(n)
      BY <1>0, <3>4 DEF NoteDoubtful, NoteRow, stock
    <3>5. CASE NoteUnanswered(n)
      BY <1>0, <3>5 DEF NoteUnanswered, NoteRow, stock
    <3>. QED
      BY <1>4, <3>1, <3>2, <3>3, <3>4, <3>5
  <2>2. NoteInOrder(n)' /\ onHand' = onHand + note'[n].moved - note[n].moved
    BY <1>0, <2>1 DEF NoteInOrder, NoteRow
  <2>3. Quiet(note[n], note'[n])
    <3>1. /\ note'[n].debit = note[n].debit /\ note'[n].amount = note[n].amount
          /\ note'[n].form = note[n].form
          /\ note[n].stale => note'[n].stale
          /\ note[n].debit /\ note[n].call = "done" => note'[n].call = "done"
          /\ note'[n].state = "facturada" => note[n].state = "facturada"
          /\ note[n].state = "facturada" /\ note[n].debit => note'[n].call = "done"
          /\ \/ note'[n].stale
             \/ note[n].debit
             \/ /\ note'[n].state = "pendiente" => note[n].state = "pendiente"
                /\ note[n].error => note'[n].error
      BY <1>0, <2>1 DEF NoteInOrder
    <3>. QED
      BY <1>0, <3>1, QuietRows
  <2>. QED
    BY <1>1, <2>2, <2>3
<1>5. CASE DeleteNote(n) \/ VoidNote(n)
  <2>1. /\ note'[n].debit = note[n].debit
        /\ note'[n].amount = note[n].amount /\ note'[n].impact = note[n].impact
        /\ note'[n].form = note[n].form /\ note'[n].moved = note[n].moved
        /\ note'[n].stale = note[n].stale /\ note'[n].error = note[n].error
        /\ note'[n].call = note[n].call
        /\ \/ note'[n].state = note[n].state
           \/ note'[n].state = "deleted"
           \/ note'[n].state = "anulada" /\ note[n].impact = "none"
        /\ onHand' = onHand
    BY <1>0, <1>5 DEF DeleteNote, VoidNote, NoteRow, stock
  <2>2. NoteInOrder(n)' /\ onHand' = onHand + note'[n].moved - note[n].moved
    BY <1>0, <2>1 DEF NoteInOrder, NoteRow
  <2>3. Quiet(note[n], note'[n])
    <3>1. /\ note'[n].debit = note[n].debit /\ note'[n].amount = note[n].amount
          /\ note'[n].form = note[n].form
          /\ note[n].stale => note'[n].stale
          /\ note[n].debit /\ note[n].call = "done" => note'[n].call = "done"
          /\ note'[n].state = "facturada" => note[n].state = "facturada"
          /\ note[n].state = "facturada" /\ note[n].debit => note'[n].call = "done"
          /\ \/ note'[n].stale
             \/ note[n].debit
             \/ /\ note'[n].state = "pendiente" => note[n].state = "pendiente"
                /\ note[n].error => note'[n].error
      BY <1>0, <2>1 DEF NoteInOrder
    <3>. QED
      BY <1>0, <3>1, QuietRows
  <2>. QED
    BY <1>1, <2>2, <2>3
<1>6. CASE NumberNote(n) /\ (note[n].debit \/ note'[n].stale)
  <2>1. PICK call \in {note[n].call} \cup (IF note[n].call = "idle" THEN {"queued"} ELSE {}) :
            note' = [note EXCEPT ![n].state = "pendiente", ![n].call = call,
                                 ![n].stale = @ \/ Outdated(n)]
    BY <1>6 DEF NumberNote
  <2>2. /\ note'[n].debit = note[n].debit
        /\ note'[n].amount = note[n].amount /\ note'[n].impact = note[n].impact
        /\ note'[n].form = note[n].form /\ note'[n].moved = note[n].moved
        /\ note'[n].error = note[n].error
        /\ note'[n].state = "pendiente" /\ note'[n].call = call
        /\ note'[n].stale = (note[n].stale \/ Outdated(n))
        /\ onHand' = onHand
    BY <1>0, <1>6, <2>1 DEF NumberNote, NoteRow, stock
  <2>3. call = note[n].call \/ (note[n].call = "idle" /\ call = "queued")
    BY <2>1
  <2>4. note[n].state # "borrador" => note'[n].stale
    BY <2>2 DEF Outdated
  <2>5. NoteInOrder(n)' /\ onHand' = onHand + note'[n].moved - note[n].moved
    BY <1>0, <2>2, <2>3 DEF NoteInOrder, NoteRow
  <2>6. Quiet(note[n], note'[n])
    <3>1. /\ note'[n].debit = note[n].debit /\ note'[n].amount = note[n].amount
          /\ note'[n].form = note[n].form
          /\ note[n].stale => note'[n].stale
          /\ note[n].debit /\ note[n].call = "done" => note'[n].call = "done"
          /\ note'[n].state = "facturada" => note[n].state = "facturada"
          /\ note[n].state = "facturada" /\ note[n].debit => note'[n].call = "done"
          /\ \/ note'[n].stale
             \/ note[n].debit
             \/ /\ note'[n].state = "pendiente" => note[n].state = "pendiente"
                /\ note[n].error => note'[n].error
      BY <1>0, <1>6, <2>2, <2>3, <2>4 DEF NoteInOrder
    <3>. QED
      BY <1>0, <3>1, QuietRows
  <2>. QED
    BY <1>1, <2>5, <2>6
<1>7. ASSUME NEW q \in Quantities, ReceiveReturn(n, q)
      PROVE  /\ Quiet(note[n], note'[n])
             /\ NoteInOrder(n)'
             /\ onHand' = onHand + note'[n].moved - note[n].moved
  <2>0. q \in Nat
    BY LedgerAssumption DEF Quantities
  <2>1. /\ note'[n].state = note[n].state /\ note'[n].debit = note[n].debit
        /\ note'[n].amount = note[n].amount /\ note'[n].impact = note[n].impact
        /\ note'[n].form = note[n].form /\ note'[n].error = note[n].error
        /\ note'[n].call = note[n].call /\ note'[n].stale = note[n].stale
        /\ note'[n].moved = note[n].moved + q
        /\ note[n].state = "facturada" /\ note[n].impact = "physical_return"
        /\ onHand' = onHand + q
    BY <1>0, <1>7 DEF ReceiveReturn, NoteRow
  <2>2. NoteInOrder(n)' /\ onHand' = onHand + note'[n].moved - note[n].moved
    BY <1>0, <2>0, <2>1 DEF NoteInOrder, NoteRow
  <2>3. Quiet(note[n], note'[n])
    <3>1. /\ note'[n].debit = note[n].debit /\ note'[n].amount = note[n].amount
          /\ note'[n].form = note[n].form
          /\ note[n].stale => note'[n].stale
          /\ note[n].debit /\ note[n].call = "done" => note'[n].call = "done"
          /\ note'[n].state = "facturada" => note[n].state = "facturada"
          /\ note[n].state = "facturada" /\ note[n].debit => note'[n].call = "done"
          /\ \/ note'[n].stale
             \/ note[n].debit
             \/ /\ note'[n].state = "pendiente" => note[n].state = "pendiente"
                /\ note[n].error => note'[n].error
      BY <1>0, <2>1 DEF NoteInOrder
    <3>. QED
      BY <1>0, <3>1, QuietRows
  <2>. QED
    BY <1>1, <2>2, <2>3
<1>. QED
  BY <1>1, <1>2, <1>3, <1>4, <1>5, <1>6, <1>7

\* A draft that is numbered as it was read finds its amount available.
LEMMA NumberedNote ==
    ASSUME MoneyInv, TypeOK', NEW n \in Note, NumberNote(n), ~note[n].debit, ~note'[n].stale
    PROVE  /\ CreditWithinSale' /\ ReservedIsAvailable'
           /\ NoteInOrder(n)'
           /\ \A m \in Note \ {n} : note'[m] = note[m]
           /\ UNCHANGED <<document, void, adjusted>>
           /\ onHand' = onHand + note'[n].moved - note[n].moved
<1>0. /\ note \in [Note -> NoteRow] /\ note[n] \in NoteRow /\ NoteInOrder(n)
      /\ onHand \in Nat /\ note'[n] \in NoteRow
      /\ TypeOK /\ CreditWithinSale /\ ReservedIsAvailable
  BY DEF MoneyInv, LedgerInv, TypeOK, NoteRow
<1>1. PICK call \in {note[n].call} \cup (IF note[n].call = "idle" THEN {"queued"} ELSE {}) :
          note' = [note EXCEPT ![n].state = "pendiente", ![n].call = call,
                               ![n].stale = @ \/ Outdated(n)]
  BY DEF NumberNote
<1>2. /\ note'[n].debit = note[n].debit
      /\ note'[n].amount = note[n].amount /\ note'[n].impact = note[n].impact
      /\ note'[n].form = note[n].form /\ note'[n].moved = note[n].moved
      /\ note'[n].state = "pendiente" /\ note'[n].call = call
      /\ note'[n].stale = (note[n].stale \/ Outdated(n))
      /\ onHand' = onHand
      /\ \A m \in Note \ {n} : note'[m] = note[m]
      /\ UNCHANGED <<document, void, adjusted>>
  BY <1>0, <1>1 DEF NumberNote, NoteRow, stock
<1>3. /\ note[n].state = "borrador" /\ note[n].amount = note[n].seen
      /\ note[n].amount \in Nat /\ note[n].amount <= Available(n)
  BY <1>0, <1>2 DEF Outdated, NumberNote, Numberable, NoteRow
<1>4. call \in {"idle", "queued"} /\ note[n].moved = 0
  BY <1>0, <1>3 DEF NoteInOrder
<1>5. NoteInOrder(n)' /\ onHand' = onHand + note'[n].moved - note[n].moved
  BY <1>0, <1>2, <1>4 DEF NoteInOrder, NoteRow
<1>6. /\ Credited(note[n]) = 0 /\ Credited(note'[n]) = 0
      /\ Debited(note[n]) = 0 /\ Debited(note'[n]) = 0
  BY <1>2, <1>3 DEF Credited, Debited
<1>7. ~Gone(note[n]) /\ ~Gone(note'[n]) /\ Lost(note[n]) = 0 /\ Lost(note'[n]) = 0
  BY <1>2 DEF Gone, Lost
<1>8. /\ Promised(note[n]) = 0
      /\ Promised(note'[n]) = 0 \/ Promised(note'[n]) = note[n].amount
  BY <1>2, <1>3 DEF Promised, Holding
<1>9. CreditWithinSale'
  BY <1>0, <1>2, <1>6, <1>7, CreditKept
<1>10. \/ Promised(note'[n]) <= Promised(note[n])
       \/ Amount(Reserving) - Promised(note[n]) + Promised(note'[n])
              <= Net + Credited(note[n]) - Credited(note'[n])
  <2>1. note[n].amount = 0 \/ note[n].amount + Amount(Reserving) - Promised(note[n]) <= Net
    BY <1>0, <1>3, AvailableRoom
  <2>2. Amount(Reserving) \in Nat /\ Net \in Int
    BY <1>0, BalanceTypes
  <2>. QED
    BY <1>3, <1>6, <1>8, <2>1, <2>2
<1>11. note[n].stale => note'[n].stale
  BY <1>2
<1>12. ReservedIsAvailable'
  BY <1>0, <1>2, <1>6, <1>7, <1>10, <1>11, ReservedKept
<1>. QED
  BY <1>2, <1>5, <1>9, <1>12

\* The answer to a note is stored as an acceptance only within the balance that is
\* left without what other notes hold.
LEMMA AcceptedNote ==
    ASSUME MoneyInv, TypeOK', NEW n \in Note, NoteAccepted(n) \/ NoteExceeds(n)
    PROVE  /\ CreditWithinSale' /\ ReservedIsAvailable'
           /\ NoteInOrder(n)'
           /\ \A m \in Note \ {n} : note'[m] = note[m]
           /\ UNCHANGED <<document, void, adjusted>>
           /\ onHand' = onHand + note'[n].moved - note[n].moved
<1>0. /\ note \in [Note -> NoteRow] /\ note[n] \in NoteRow /\ NoteInOrder(n)
      /\ onHand \in Nat /\ note'[n] \in NoteRow
      /\ TypeOK /\ CreditWithinSale /\ ReservedIsAvailable
  BY DEF MoneyInv, LedgerInv, TypeOK, NoteRow
<1>1. /\ note[n].state = "pendiente" /\ note[n].call = "called" /\ note[n].moved = 0
      /\ WithinBalance(n)
  BY <1>0 DEF NoteAccepted, NoteExceeds, NoteInOrder
<1>2. /\ note'[n].debit = note[n].debit
      /\ note'[n].amount = note[n].amount /\ note'[n].impact = note[n].impact
      /\ note'[n].form = note[n].form /\ note'[n].stale = note[n].stale
      /\ note'[n].state = "facturada"
      /\ \A m \in Note \ {n} : note'[m] = note[m]
      /\ UNCHANGED <<document, void, adjusted>>
  <2>1. CASE NoteAccepted(n)
    BY <1>0, <2>1 DEF NoteAccepted, NoteRow
  <2>2. CASE NoteExceeds(n)
    BY <1>0, <2>2 DEF NoteExceeds, NoteRow, stock
  <2>. QED
    BY <2>1, <2>2
<1>3. /\ NoteInOrder(n)'
      /\ onHand' = onHand + note'[n].moved - note[n].moved
      /\ note[n].debit => note'[n].call = "done"
  <2>1. CASE NoteAccepted(n)
    <3>. DEFINE goods == IF Restocks(n) THEN note[n].amount ELSE 0
    <3>1. /\ note'[n].call = "done" /\ note'[n].moved = goods
          /\ onHand' = onHand + goods
      BY <1>0, <2>1 DEF NoteAccepted, NoteRow
    <3>2. goods \in Nat /\ (goods # 0 => note[n].impact # "none")
      BY <1>0 DEF Restocks, NoteRow
    <3>. HIDE DEF goods
    <3>. QED
      BY <1>0, <1>1, <1>2, <3>1, <3>2 DEF NoteInOrder
  <2>2. CASE NoteExceeds(n)
    <3>1. note'[n].call = "idle" /\ note'[n].moved = note[n].moved /\ onHand' = onHand
      BY <1>0, <2>2 DEF NoteExceeds, NoteRow, stock
    <3>2. note[n].impact = "undelivered"
      BY <2>2 DEF NoteExceeds, ExceedsSale, Restocks
    <3>. QED
      BY <1>0, <1>1, <1>2, <3>1, <3>2 DEF NoteInOrder
  <2>. QED
    BY <2>1, <2>2
<1>4. ~Gone(note[n]) /\ ~Gone(note'[n]) /\ Lost(note[n]) = 0 /\ Lost(note'[n]) = 0
  BY <1>1, <1>2 DEF Gone, Lost
<1>5. /\ Credited(note[n]) = 0 /\ Debited(note[n]) = 0 /\ Promised(note'[n]) = 0
      /\ note[n].amount \in Nat
      /\ Promised(note[n]) = 0 \/ Promised(note[n]) = note[n].amount
  BY <1>0, <1>1, <1>2 DEF Credited, Debited, Promised, Holding, NoteRow
<1>6. CASE note[n].debit
  <2>1. Credited(note'[n]) = 0 /\ Debited(note'[n]) = note[n].amount
    BY <1>2, <1>6 DEF Credited, Debited
  <2>2. CreditWithinSale'
    BY <1>0, <1>2, <1>4, <1>5, <2>1, CreditKept
  <2>3. /\ Debited(note[n]) <= Debited(note'[n]) /\ Credited(note'[n]) <= Credited(note[n])
        /\ Promised(note'[n]) <= Promised(note[n])
    BY <1>5, <2>1
  <2>4. ReservedIsAvailable'
    BY <1>0, <1>2, <1>4, <2>3, ReservedKept
  <2>. QED
    BY <1>2, <1>3, <2>2, <2>4
<1>7. CASE ~note[n].debit
  <2>1. Credited(note'[n]) = note[n].amount /\ Debited(note'[n]) = 0
    BY <1>2, <1>7 DEF Credited, Debited
  <2>2. note[n].amount <= Available(n)
    BY <1>1, <1>7 DEF WithinBalance
  <2>3. note[n].amount = 0 \/ note[n].amount + Amount(Reserving) - Promised(note[n]) <= Net
    BY <1>0, <1>5, <2>2, AvailableRoom
  <2>4. /\ Amount(Reserving) \in Nat /\ Net \in Int
        /\ Promised(note[n]) <= Amount(Reserving)
    BY <1>0, BalanceTypes
  <2>5. CreditWithinSale'
    <3>1. Credited(note'[n]) <= Credited(note[n]) \/ Credited(note'[n]) <= Net
      BY <1>5, <2>1, <2>3, <2>4
    <3>. QED
      BY <1>0, <1>2, <1>4, <1>5, <2>1, <3>1, CreditKept
  <2>6. ReservedIsAvailable'
    <3>1. \/ /\ Credited(note[n]) <= Credited(note'[n])
             /\ Credited(note'[n]) - Credited(note[n]) = Promised(note[n]) - Promised(note'[n])
          \/ Amount(Reserving) - Promised(note[n]) + Promised(note'[n])
                 <= Net + Credited(note[n]) - Credited(note'[n])
      BY <1>5, <2>1, <2>3, <2>4
    <3>. QED
      BY <1>0, <1>2, <1>4, <1>5, <2>1, <3>1, ReservedKept
  <2>. QED
    BY <1>2, <1>3, <2>5, <2>6
<1>. QED
  BY <1>6, <1>7

\* What is said of notes stays while they do.
LEMMA SameNotes ==
    ASSUME UNCHANGED note, \A n \in Note : NoteInOrder(n), CreditWithinSale,
           ReservedIsAvailable
    PROVE  (\A n \in Note : NoteInOrder(n)') /\ CreditWithinSale' /\ ReservedIsAvailable'
<1>1. \A n \in Note : NoteInOrder(n)'
  BY DEF NoteInOrder
<1>2. CreditWithinSale'
  BY DEF CreditWithinSale, Amount, Accepted, Withdrawn
<1>3. ReservedIsAvailable'
  BY DEF ReservedIsAvailable, Amount, Reserving, Net, Accepted, Withdrawn
<1>. QED
  BY <1>1, <1>2, <1>3

LEMMA SameStock ==
    ASSUME Stocked, UNCHANGED <<document, void, note, onHand, adjusted>>
    PROVE  Stocked'
BY DEF Stocked, Moved

LEMMA MovedType ==
    ASSUME TypeOK PROVE Moved(Note) \in Nat
<1>. DEFINE f == [m \in Note |-> note[m].moved]
<1>1. \A m \in Note : f[m] \in Nat
  BY DEF TypeOK
<1>. HIDE DEF f
<1>2. SumFunctionOnSet(f, Note) \in Nat
  BY <1>1, LedgerAssumption, SumNat
<1>. QED
  BY <1>2 DEF Moved, f

LEMMA NoteMoney ==
    ASSUME MoneyInv, LedgerInv', Notes PROVE MoneyInv'
<1>0. TypeOK /\ TypeOK' /\ CreditWithinSale /\ ReservedIsAvailable
  BY DEF MoneyInv, LedgerInv
<1>1. ASSUME NEW n \in Note, NEW debit \in BOOLEAN, NEW a \in Amounts, NEW impact \in Impact,
             \/ WriteDraft(n, debit, a, impact)
             \/ \E form \in {"clone", "items"} : IssueNote(n, form, debit, a, impact)
      PROVE  MoneyInv'
  BY <1>0, <1>1, QuietNotes, QuietKeeps, OneNoteMoney
<1>2. ASSUME NEW n \in Note,
             \/ DeleteNote(n) \/ ReadForNumber(n) \/ RetryNote(n) \/ SubmitNote(n)
             \/ NoteDoubtful(n) \/ NoteUnanswered(n) \/ VoidNote(n)
      PROVE  MoneyInv'
  BY <1>0, <1>2, QuietNotes, QuietKeeps, OneNoteMoney
<1>3. ASSUME NEW n \in Note, NumberNote(n) PROVE MoneyInv'
  <2>1. CASE note[n].debit \/ note'[n].stale
    BY <1>0, <1>3, <2>1, QuietNotes, QuietKeeps, OneNoteMoney
  <2>2. CASE ~note[n].debit /\ ~note'[n].stale
    BY <1>0, <1>3, <2>2, NumberedNote, OneNoteMoney
  <2>. QED
    BY <2>1, <2>2
<1>4. ASSUME NEW n \in Note, NoteAccepted(n) \/ NoteExceeds(n) PROVE MoneyInv'
  BY <1>0, <1>4, AcceptedNote, OneNoteMoney
<1>5. ASSUME NEW n \in Note, NEW q \in Quantities, ReceiveReturn(n, q) PROVE MoneyInv'
  BY <1>0, <1>5, QuietNotes, QuietKeeps, OneNoteMoney
<1>6. ASSUME NEW n \in Note, ReadDraft(n) PROVE MoneyInv'
  BY <1>6, SameNotes, SameStock DEF ReadDraft, stock, MoneyInv
<1>. QED
  BY <1>1, <1>2, <1>3, <1>4, <1>5, <1>6 DEF Notes

\* Everything else leaves the notes alone.
LEMMA MoneyNext == MoneyInv /\ [Next]_vars => MoneyInv'
<1>. SUFFICES ASSUME MoneyInv, [Next]_vars PROVE MoneyInv'
  OBVIOUS
<1>1. LedgerInv'
  BY LedgerNext DEF MoneyInv
<1>2. CASE Notes
  BY <1>1, <1>2, NoteMoney
<1>3. ASSUME UNCHANGED note, Stocked' PROVE MoneyInv'
  BY <1>1, <1>3, SameNotes DEF MoneyInv
<1>4. LedgerInv /\ Stocked /\ onHand \in Nat /\ adjusted \in Int
  BY DEF MoneyInv, LedgerInv, TypeOK
<1>5. UNCHANGED note => UNCHANGED Moved(Note)
  BY DEF Moved
<1>6. Moved(Note) \in Int
  BY MovedType DEF MoneyInv, LedgerInv
<1>7. CASE Sale
  <2>1. UNCHANGED note
    BY <1>7 DEF Sale, SaleAccepted, SaleUnaccepted, AdjustStock, notes
  <2>2. Stocked'
    <3>1. CASE SaleAccepted
      <4>1. document.estado = "pendiente" /\ ~document.booked
            /\ UNCHANGED <<void, adjusted>> /\ Moves(-Invoiced) \in BOOLEAN
        BY <1>4, <3>1 DEF SaleAccepted, Stocked, Moves
      <4>2. /\ document'.estado = "facturada" /\ document'.booked = Moves(-Invoiced)
            /\ onHand' = IF Moves(-Invoiced) THEN onHand - Invoiced ELSE onHand
        BY <3>1 DEF SaleAccepted
      <4>. QED
        BY <1>4, <1>5, <1>6, <2>1, <4>1, <4>2, LedgerAssumption DEF Stocked
    <3>2. CASE SaleUnaccepted
      <4>1. /\ document'.estado = document.estado /\ document'.booked = document.booked
            /\ UNCHANGED <<void, onHand, adjusted>>
        BY <1>4, <3>2 DEF SaleUnaccepted, stock, LedgerInv, TypeOK
      <4>. QED
        BY <1>4, <1>5, <2>1, <4>1 DEF Stocked
    <3>3. ASSUME NEW q \in Quantities, AdjustStock(q) PROVE Stocked'
      <4>1. q \in Nat
        BY LedgerAssumption DEF Quantities
      <4>2. /\ UNCHANGED <<document, void>> /\ onHand' = onHand - q /\ adjusted' = adjusted - q
        BY <3>3 DEF AdjustStock
      <4>. QED
        BY <1>4, <1>5, <1>6, <2>1, <4>1, <4>2, LedgerAssumption DEF Stocked
    <3>. QED
      BY <1>7, <3>1, <3>2, <3>3 DEF Sale
  <2>. QED
    BY <1>3, <2>1, <2>2
<1>8. CASE Void
  <2>1. UNCHANGED <<note, adjusted>>
    BY <1>8 DEF Void, RequestVoid, SendVoid, FailVoid, VoidRejected, VoidAccepted, notes, stock
  <2>2. Stocked'
    <3>1. CASE RequestVoid \/ SendVoid \/ FailVoid \/ VoidRejected
      <4>1. UNCHANGED <<document, onHand>> /\ void # "accepted"
        BY <3>1 DEF RequestVoid, SendVoid, FailVoid, VoidRejected, stock
      <4>2. document.estado # "anulada"
        BY <1>4, <4>1 DEF Stocked
      <4>. QED
        BY <1>4, <1>5, <2>1, <4>1, <4>2 DEF Stocked
    <3>2. CASE VoidAccepted
      <4>1. VoidClear
        BY <1>4, <3>2 DEF VoidAccepted, LedgerInv, VoidStaysClean
      <4>2. /\ void = "sent" /\ void' = "accepted" /\ document'.estado = "anulada"
            /\ onHand' = IF document.booked THEN onHand + Invoiced ELSE onHand
        BY <1>4, <3>2, <4>1 DEF VoidAccepted, VoidClear, LedgerInv, TypeOK
      <4>3. document.estado # "anulada"
        BY <1>4, <4>2 DEF Stocked
      <4>4. document.estado = "facturada" \/ ~document.booked
        BY <1>4, <4>3 DEF Stocked, LedgerInv, TypeOK
      <4>. QED
        BY <1>4, <1>5, <1>6, <2>1, <4>2, <4>3, <4>4, LedgerAssumption DEF Stocked
    <3>. QED
      BY <1>8, <3>1, <3>2 DEF Void
  <2>. QED
    BY <1>3, <2>1, <2>2
<1>9. CASE Dispatches \/ UNCHANGED vars
  <2>1. UNCHANGED <<document, void, note, onHand, adjusted>>
    <3>1. CASE Dispatches
      BY <3>1 DEF Dispatches, ReserveDispatch, PrepareDispatch, CancelDispatch,
           ConfirmDeparture, BeginEmission, CommitEmission, AbortEmission, SubmitGuide,
           GuideAnswered, GuideUnanswered, GuidePending, ConsultGuide, ConsultAnswered,
           ConsultUnanswered, notes, stock
    <3>2. CASE UNCHANGED vars
      BY <3>2 DEF vars
    <3>. QED
      BY <1>9, <3>1, <3>2
  <2>. QED
    BY <1>3, <1>4, <1>5, <2>1 DEF Stocked
<1>. QED
  BY <1>2, <1>7, <1>8, <1>9 DEF Next

LEMMA MoneyInit == Init => MoneyInv
<1>. SUFFICES ASSUME Init PROVE MoneyInv
  OBVIOUS
<1>1. LedgerInv
  BY LedgerInit
<1>2. \A n \in Note : note[n] = NewNote
  BY DEF Init
<1>3. \A n \in Note : NoteInOrder(n)
  BY <1>2 DEF NewNote, NoteInOrder
<1>4. Moved(Note) = 0
  <2>. DEFINE f == [m \in Note |-> note[m].moved]
  <2>1. \A m \in Note : f[m] = 0
    BY <1>2 DEF NewNote
  <2>. HIDE DEF f
  <2>2. SumFunctionOnSet(f, Note) = 0
    BY <2>1, LedgerAssumption, SumZero
  <2>. QED
    BY <2>2 DEF Moved, f
<1>5. Stocked
  BY <1>4, LedgerAssumption DEF Init, Stocked
<1>. DEFINE A == Amount(Accepted(FALSE))
            D == Amount(Accepted(TRUE))
<1>6. Amount({}) = 0
  BY SumEmpty DEF Amount
<1>7. A = 0 /\ D = 0 /\ Amount(Withdrawn) = 0 /\ Amount(Reserving) = 0
  <2>1. Accepted(FALSE) = {}
    BY <1>2 DEF NewNote, Accepted
  <2>2. Accepted(TRUE) = {}
    BY <1>2 DEF NewNote, Accepted
  <2>3. Withdrawn = {}
    BY <1>2 DEF NewNote, Withdrawn
  <2>4. Reserving = {}
    BY <1>2 DEF NewNote, Reserving
  <2>. QED
    BY <1>6, <2>1, <2>2, <2>3, <2>4, Zenon
<1>8. /\ CreditWithinSale <=> A <= Invoiced + D + Amount(Withdrawn)
      /\ Net = Invoiced - A + D
  BY DEF CreditWithinSale, Net
<1>. HIDE DEF A, D
<1>9. CreditWithinSale
  BY <1>7, <1>8, LedgerAssumption
<1>10. ReservedIsAvailable
  BY <1>7, <1>8, LedgerAssumption DEF ReservedIsAvailable, AtLeastZero
<1>. QED
  BY <1>1, <1>3, <1>5, <1>9, <1>10 DEF MoneyInv

LEMMA MoneyAlways == Spec => []MoneyInv
BY MoneyInit, MoneyNext, PTL DEF Spec

\* Accepted credit never exceeds the sale and its debits, for any number of notes of
\* both routes and any order of their answers.
THEOREM CreditWithinSaleHolds == Spec => []CreditWithinSale
<1>1. MoneyInv => CreditWithinSale
  BY DEF MoneyInv
<1>. QED
  BY <1>1, MoneyAlways, PTL

\* What numbered credit notes hold is there when their answers come, unless a debit
\* was withdrawn or a draft was numbered as it was before.
THEOREM ReservedIsAvailableHolds == Spec => []ReservedIsAvailable
<1>1. MoneyInv => ReservedIsAvailable
  BY DEF MoneyInv
<1>. QED
  BY <1>1, MoneyAlways, PTL

\* A cancelled sale has given back exactly the goods that it took: a note that
\* brought goods back stands in the way of the cancellation, unless it was deleted.
THEOREM VoidRestoresStockHolds == Spec => []VoidRestoresStock
<1>1. MoneyInv => VoidRestoresStock
  <2>. SUFFICES ASSUME MoneyInv, document.estado = "anulada",
                       \A n \in Note : note[n].state = "deleted" => note[n].moved = 0
                PROVE  onHand = InitialStock + adjusted
    BY DEF VoidRestoresStock
  <2>1. VoidClear
    BY DEF MoneyInv, Stocked, LedgerInv, VoidStaysClean
  <2>2. \A n \in Note : note[n].moved = 0
    <3>. SUFFICES ASSUME NEW n \in Note, note[n].moved # 0 PROVE FALSE
      OBVIOUS
    <3>1. /\ note[n].state \notin {"none", "borrador", "anulada"} /\ ~Standing(n)
          /\ note[n].state \in NoteState
      BY <2>1 DEF MoneyInv, NoteInOrder, VoidClear, LedgerInv, TypeOK
    <3>2. note[n].state = "deleted"
      BY <3>1 DEF Standing, NoteState
    <3>. QED
      BY <3>2
  <2>3. Moved(Note) = 0
    <3>. DEFINE f == [m \in Note |-> note[m].moved]
    <3>1. \A m \in Note : f[m] = 0
      BY <2>2
    <3>. HIDE DEF f
    <3>2. SumFunctionOnSet(f, Note) = 0
      BY <3>1, LedgerAssumption, SumZero
    <3>. QED
      BY <3>2 DEF Moved, f
  <2>. QED
    BY <2>3, LedgerAssumption DEF MoneyInv, Stocked, LedgerInv, TypeOK
<1>. QED
  BY <1>1, MoneyAlways, PTL

-----------------------------------------------------------------------------
(* The dispatches implement the allotment of the line *)

\* A part that is assigned is a part of something.
AllotInv ==
    /\ LedgerInv
    /\ \A d \in Dispatch : dispatch[d].line \in {"active", "covered"} =>
           dispatch[d].quantity \in Quantities

\* A change of one dispatch assigns or frees a part of the line, ships it, or does
\* nothing that the allotment sees.
LEMMA OneHeld ==
    ASSUME TypeOK, NEW d \in Dispatch, \A e \in Dispatch \ {d} : dispatch'[e] = dispatch[e]
    PROVE  /\ held' = [held EXCEPT ![d] = IF Open(d)' THEN dispatch'[d].quantity ELSE 0]
           /\ held[d] = IF Open(d) THEN dispatch[d].quantity ELSE 0
           /\ dispatch'[d].left = dispatch[d].left => shipped' = shipped
           /\ dispatch'[d].left => shipped' = shipped \cup {d}
           /\ d \in shipped <=> dispatch[d].left
<1>1. \A e \in Dispatch \ {d} : held'[e] = held[e]
  BY DEF held, Open
<1>2. held'[d] = IF Open(d)' THEN dispatch'[d].quantity ELSE 0
  BY DEF held
<1>3. held = [e \in Dispatch |-> held[e]] /\ held' = [e \in Dispatch |-> held'[e]]
  BY DEF held
<1>4. held' = [held EXCEPT ![d] = IF Open(d)' THEN dispatch'[d].quantity ELSE 0]
  BY <1>1, <1>2, <1>3
<1>. QED
  BY <1>4 DEF held, shipped

\* The sum of the allotment is the one that the handlers compute.
LEMMA AssignedIsSum ==
    ASSUME NEW f PROVE Allotment!Assigned(f) = SumFunctionOnSet(f, Dispatch)
BY DEF Allotment!Assigned,
       SumFunctionOnSet, FoldFunctionOnSet, MapThenFoldSet,
       Allotment!SumFunctionOnSet, Allotment!FoldFunctionOnSet, Allotment!MapThenFoldSet

\* What a dispatch may take beside the others never makes more than what was sold.
LEMMA AssignedFits ==
    ASSUME AllotInv, NEW d \in Dispatch, NEW q \in Quantities, q <= Unassigned(d),
           \A e \in Dispatch \ {d} : dispatch'[e] = dispatch[e],
           held' = [held EXCEPT ![d] = q]
    PROVE  Allotment!Assigned(held') <= Invoiced
<1>. DEFINE O == {e \in Dispatch \ {d} : Open(e)}
            D == Dispatch \ {d}
            f == [e \in Dispatch |-> dispatch[e].quantity]
            C == Cancelled
            g == [n \in Note |-> note[n].amount]
            h == held'
<1>0. /\ dispatch \in [Dispatch -> DispatchRow] /\ note \in [Note -> NoteRow]
      /\ q \in Nat \ {0}
  BY LedgerAssumption DEF AllotInv, LedgerInv, TypeOK, NoteRow, DispatchRow, JobState, Quantities
<1>1. /\ \A e \in D : h[e] = IF e \in O THEN f[e] ELSE 0
      /\ h[d] = q
      /\ \A e \in O : f[e] \in Nat
  BY <1>0 DEF held, DispatchRow
<1>2. /\ IsFiniteSet(D) /\ IsFiniteSet(O) /\ O \in SUBSET D
      /\ IsFiniteSet(D \ O) /\ IsFiniteSet(C) /\ \A n \in C : g[n] \in Nat
  <2>1. O \in SUBSET D /\ C \in SUBSET Note
    BY DEF Cancelled
  <2>2. \A n \in C : g[n] \in Nat
    BY <1>0, <2>1 DEF NoteRow
  <2>. QED
    BY <2>1, <2>2, LedgerAssumption, FS_Subset
<1>3. Allocated(d) = SumFunctionOnSet(f, O) /\ Amount(Cancelled) = SumFunctionOnSet(g, C)
  BY DEF Allocated, Quantity, Amount
<1>4. Allotment!Assigned(h) = SumFunctionOnSet(h, Dispatch)
  BY AssignedIsSum
<1>. HIDE DEF O, f, C, g, h
<1>5. SumFunctionOnSet(f, O) \in Nat /\ SumFunctionOnSet(g, C) \in Nat
  BY <1>1, <1>2, SumNat
<1>6. \A e \in D : h[e] \in Int
  BY <1>1
<1>7. SumFunctionOnSet(h, Dispatch) = h[d] + SumFunctionOnSet(h, D)
  <2>1. \A e \in Dispatch : h[e] \in Int
    BY <1>0, <1>1, <1>6
  <2>. QED
    BY <2>1, LedgerAssumption, SumRemove
<1>8. SumFunctionOnSet(h, D) = SumFunctionOnSet(h, O) + SumFunctionOnSet(h, D \ O)
  BY <1>2, <1>6, SumSplit
<1>9. SumFunctionOnSet(h, D \ O) = 0
  <2>1. \A e \in D \ O : h[e] = 0
    BY <1>1
  <2>. QED
    BY <1>2, <2>1, SumZero
<1>10. SumFunctionOnSet(h, O) = SumFunctionOnSet(f, O)
  <2>1. \A e \in O : h[e] = f[e]
    BY <1>1, <1>2
  <2>. QED
    BY <1>2, <2>1, SumSame
<1>11. q <= Invoiced - SumFunctionOnSet(g, C) - SumFunctionOnSet(f, O)
  BY <1>0, <1>3, <1>5, LedgerAssumption DEF Unassigned, AtLeastZero
<1>12. Allotment!Assigned(h) <= Invoiced
  BY <1>0, <1>1, <1>4, <1>5, <1>7, <1>8, <1>9, <1>10, <1>11, LedgerAssumption
<1>. QED
  BY <1>12 DEF h

LEMMA SameClosed == ASSUME UNCHANGED void PROVE UNCHANGED closed
BY DEF closed, SourceAvailable

\* A dispatch that counts against the line as it did.
LEMMA KeptPart ==
    ASSUME TypeOK, NEW d \in Dispatch, \A e \in Dispatch \ {d} : dispatch'[e] = dispatch[e],
           UNCHANGED void, Open(d)' <=> Open(d),
           dispatch'[d].quantity = dispatch[d].quantity, dispatch'[d].left = dispatch[d].left
    PROVE  UNCHANGED Allotment!vars
<1>1. held' = [held EXCEPT ![d] = held[d]] /\ shipped' = shipped
  BY OneHeld
<1>2. held' = held
  BY <1>1 DEF held
<1>. QED
  BY <1>1, <1>2, SameClosed DEF Allotment!vars

\* A dispatch that has not left and does not count any more.
LEMMA FreedPart ==
    ASSUME TypeOK, NEW d \in Dispatch, \A e \in Dispatch \ {d} : dispatch'[e] = dispatch[e],
           UNCHANGED void, ~Open(d)', ~dispatch[d].left, ~dispatch'[d].left
    PROVE  Allotment!Next
<1>1. /\ held' = [held EXCEPT ![d] = 0] /\ d \notin shipped
      /\ dispatch'[d].left = dispatch[d].left => shipped' = shipped
  BY OneHeld
<1>2. dispatch'[d].left = dispatch[d].left => Allotment!Free(d)
  BY <1>1, SameClosed DEF Allotment!Free
<1>3. shipped' = shipped
  BY DEF shipped
<1>. QED
  BY <1>1, <1>3, SameClosed DEF Allotment!Free, Allotment!Next

\* What the handlers of dispatches do to the line.
LEMMA DispatchAllots ==
    ASSUME AllotInv, LedgerInv', Dispatches
    PROVE  AllotInv' /\ [Allotment!Next]_(Allotment!vars)
<1>0. /\ TypeOK /\ dispatch \in [Dispatch -> DispatchRow]
      /\ \A d \in Dispatch : InOrder(d) /\ InOrder(d)'
  BY DEF AllotInv, LedgerInv, TypeOK, DispatchRow, JobState
<1>1. ASSUME NEW d \in Dispatch, \A e \in Dispatch \ {d} : dispatch'[e] = dispatch[e],
             dispatch'[d].line \in {"active", "covered"} => dispatch'[d].quantity \in Quantities
      PROVE  AllotInv'
  BY <1>1 DEF AllotInv, Quantities
<1>2. ASSUME NEW d \in Dispatch, NEW q \in Quantities, ReserveDispatch(d, q)
      PROVE  AllotInv' /\ [Allotment!Next]_(Allotment!vars)
  <2>1. /\ \A e \in Dispatch \ {d} : dispatch'[e] = dispatch[e]
        /\ dispatch'[d].line = "active" /\ dispatch'[d].status = "draft"
        /\ dispatch'[d].quantity = q /\ dispatch'[d].left = dispatch[d].left
        /\ UNCHANGED void /\ SourceAvailable /\ q <= Unassigned(d)
        /\ dispatch[d].status \in {"none", "provisional", "draft"}
    BY <1>0, <1>2 DEF ReserveDispatch, CanReserve, New, Changes, Editable, DispatchRow
  <2>2. ~dispatch[d].left
    BY <1>0, <2>1 DEF InOrder, Marked
  <2>3. Open(d)'
    BY <2>1 DEF Open
  <2>4. held' = [held EXCEPT ![d] = q] /\ d \notin shipped /\ shipped' = shipped
    BY <1>0, <2>1, <2>2, <2>3, OneHeld
  <2>5. Allotment!Assigned(held') <= Invoiced
    BY <2>1, <2>4, AssignedFits
  <2>6. Allotment!Allot(d, q)
    BY <2>1, <2>4, <2>5, SameClosed DEF Allotment!Allot, closed
  <2>7. q \in 1 .. Invoiced
    BY DEF Quantities
  <2>. QED
    BY <1>1, <2>1, <2>6, <2>7 DEF Allotment!Next
<1>3. ASSUME NEW d \in Dispatch, NEW q \in Quantities, PrepareDispatch(d, q)
      PROVE  AllotInv' /\ [Allotment!Next]_(Allotment!vars)
  <2>1. /\ \A e \in Dispatch \ {d} : dispatch'[e] = dispatch[e]
        /\ dispatch'[d].line = "provisional" /\ dispatch'[d].left = dispatch[d].left
        /\ UNCHANGED void
        /\ dispatch[d].status \in {"none", "provisional", "draft"}
    BY <1>0, <1>3 DEF PrepareDispatch, New, Changes, Editable, DispatchRow
  <2>2. ~dispatch[d].left /\ ~Open(d)'
    BY <1>0, <2>1 DEF InOrder, Marked, Open
  <2>. QED
    BY <1>0, <1>1, <2>1, <2>2, FreedPart
<1>4. ASSUME NEW d \in Dispatch, CancelDispatch(d)
      PROVE  AllotInv' /\ [Allotment!Next]_(Allotment!vars)
  <2>1. /\ \A e \in Dispatch \ {d} : dispatch'[e] = dispatch[e]
        /\ dispatch'[d].line = "released" /\ dispatch'[d].left = dispatch[d].left
        /\ UNCHANGED void
        /\ dispatch[d].status \in {"provisional", "draft"}
    BY <1>0, <1>4 DEF CancelDispatch, Editable, DispatchRow
  <2>2. ~dispatch[d].left /\ ~Open(d)'
    BY <1>0, <2>1 DEF InOrder, Marked, Open
  <2>. QED
    BY <1>0, <1>1, <2>1, <2>2, FreedPart
<1>5. ASSUME NEW d \in Dispatch,
             \/ CommitEmission(d) \/ SubmitGuide(d) \/ GuideUnanswered(d) \/ GuidePending(d)
             \/ ConsultGuide(d) \/ ConsultUnanswered(d)
      PROVE  AllotInv' /\ [Allotment!Next]_(Allotment!vars)
  <2>1. /\ \A e \in Dispatch \ {d} : dispatch'[e] = dispatch[e]
        /\ dispatch'[d].line = dispatch[d].line /\ dispatch'[d].left = dispatch[d].left
        /\ dispatch'[d].quantity = dispatch[d].quantity
        /\ UNCHANGED void
    <3>1. CASE CommitEmission(d)
      <4>1. PICK job \in Enqueued(dispatch[d].job) :
                dispatch' = [dispatch EXCEPT ![d] =
                    [@ EXCEPT !.status = "guide_pending", !.guide = "pendiente_smartpse",
                              !.job = job]]
        BY <3>1 DEF CommitEmission
      <4>. QED
        BY <1>0, <3>1, <4>1 DEF CommitEmission, DispatchRow
    <3>2. CASE SubmitGuide(d)
      <4>1. CASE ValidForEmission(d)
        BY <1>0, <3>2, <4>1 DEF SubmitGuide, DispatchRow
      <4>2. CASE ~ValidForEmission(d)
        BY <1>0, <3>2, <4>2 DEF SubmitGuide, DispatchRow
      <4>. QED
        BY <4>1, <4>2
    <3>3. CASE GuideUnanswered(d)
      BY <1>0, <3>3 DEF GuideUnanswered, DispatchRow
    <3>4. CASE GuidePending(d)
      BY <1>0, <3>4 DEF GuidePending, DispatchRow
    <3>5. CASE ConsultGuide(d) \/ ConsultUnanswered(d)
      BY <1>0, <3>5 DEF ConsultGuide, ConsultUnanswered, DispatchRow
    <3>. QED
      BY <1>5, <3>1, <3>2, <3>3, <3>4, <3>5
  <2>2. Open(d)' <=> Open(d)
    BY <1>0, <2>1 DEF Open, InOrder
  <2>3. UNCHANGED Allotment!vars
    BY <1>0, <2>1, <2>2, KeptPart
  <2>4. dispatch'[d].line \in {"active", "covered"} => dispatch'[d].quantity \in Quantities
    BY <2>1 DEF AllotInv
  <2>. QED
    BY <1>1, <2>1, <2>3, <2>4
<1>6. ASSUME NEW d \in Dispatch, GuideAnswered(d) \/ ConsultAnswered(d)
      PROVE  AllotInv' /\ [Allotment!Next]_(Allotment!vars)
  <2>. DEFINE a == Answered(dispatch[d])
  <2>1. /\ a.line = "covered" => dispatch[d].line \in {"active", "covered"}
        /\ dispatch[d].sunat = "accepted" => a.line = "covered"
        /\ dispatch[d].sunat # "accepted" =>
               /\ a.line # "active"
               /\ a.line = "covered" => dispatch[d].line = "covered"
        /\ a.left = dispatch[d].left /\ a.sunat = dispatch[d].sunat
    BY <1>0, AnsweredFacts DEF InOrder
  <2>2. a.quantity = dispatch[d].quantity /\ a \in DispatchRow
    BY <1>0, AnsweredType DEF Answered, DispatchRow
  <2>. HIDE DEF a
  <2>3. /\ \A e \in Dispatch \ {d} : dispatch'[e] = dispatch[e]
        /\ dispatch'[d].line = a.line /\ dispatch'[d].left = a.left
        /\ dispatch'[d].quantity = a.quantity /\ dispatch'[d].sunat = a.sunat
        /\ UNCHANGED void
    BY <1>0, <1>6, <2>2 DEF GuideAnswered, ConsultAnswered, DispatchRow, a
  <2>4. a.line \in {"active", "covered"} => dispatch[d].line \in {"active", "covered"}
    BY <2>1
  <2>5. AllotInv'
    BY <1>1, <2>2, <2>3, <2>4 DEF AllotInv
  <2>6. CASE Open(d)'
    <3>1. Open(d)
      BY <1>0, <2>3, <2>4, <2>6 DEF Open, InOrder
    <3>. QED
      BY <1>0, <2>1, <2>2, <2>3, <2>5, <2>6, <3>1, KeptPart
  <2>7. CASE ~Open(d)'
    <3>1. dispatch[d].sunat # "accepted"
      BY <1>0, <2>1, <2>3, <2>7, AcceptedIsOpen DEF Open, InOrder
    <3>2. ~dispatch[d].left /\ ~dispatch'[d].left
      BY <1>0, <2>1, <2>3, <3>1 DEF InOrder
    <3>. QED
      BY <1>0, <2>3, <2>5, <2>7, <3>2, FreedPart
  <2>. QED
    BY <2>6, <2>7
<1>7. ASSUME NEW d \in Dispatch, ConfirmDeparture(d)
      PROVE  AllotInv' /\ [Allotment!Next]_(Allotment!vars)
  <2>1. /\ \A e \in Dispatch \ {d} : dispatch'[e] = dispatch[e]
        /\ dispatch'[d].line = dispatch[d].line /\ dispatch'[d].left
        /\ dispatch'[d].quantity = dispatch[d].quantity
        /\ dispatch'[d].status = "departed"
        /\ UNCHANGED void /\ dispatch[d].guide = "emitida"
    BY <1>0, <1>7 DEF ConfirmDeparture, DispatchRow
  <2>2. dispatch[d].line = "covered" /\ Open(d) /\ Open(d)'
    BY <1>0, <2>1 DEF InOrder, Open
  <2>3. dispatch[d].quantity \in Nat \ {0}
    BY <2>2, LedgerAssumption DEF AllotInv, Quantities
  <2>4. /\ held' = [held EXCEPT ![d] = dispatch[d].quantity] /\ held[d] = dispatch[d].quantity
        /\ shipped' = shipped \cup {d}
    BY <1>0, <2>1, <2>2, OneHeld
  <2>5. held' = held
    BY <2>4 DEF held
  <2>6. Allotment!Ship(d)
    BY <2>1, <2>3, <2>4, <2>5, SameClosed DEF Allotment!Ship
  <2>7. dispatch'[d].quantity \in Quantities
    BY <2>1, <2>2 DEF AllotInv
  <2>. QED
    BY <1>1, <2>1, <2>6, <2>7 DEF Allotment!Next
<1>8. ASSUME UNCHANGED <<void, dispatch>>
      PROVE  AllotInv' /\ [Allotment!Next]_(Allotment!vars)
  BY <1>8, SameClosed DEF AllotInv, Allotment!vars, held, shipped, Open
<1>9. ASSUME NEW d \in Dispatch, BeginEmission(d)
      PROVE  AllotInv' /\ [Allotment!Next]_(Allotment!vars)
  BY <1>8, <1>9 DEF BeginEmission
<1>10. CASE AbortEmission
  BY <1>8, <1>10 DEF AbortEmission
<1>. QED
  BY <1>2, <1>3, <1>4, <1>5, <1>6, <1>7, <1>9, <1>10 DEF Dispatches

LEMMA LedgerAllots ==
    AllotInv /\ [Next]_vars => AllotInv' /\ [Allotment!Next]_(Allotment!vars)
<1>. SUFFICES ASSUME AllotInv, [Next]_vars
              PROVE  AllotInv' /\ [Allotment!Next]_(Allotment!vars)
  OBVIOUS
<1>1. LedgerInv /\ LedgerInv'
  BY LedgerNext DEF AllotInv
<1>2. CASE Dispatches
  BY <1>1, <1>2, DispatchAllots
<1>3. ASSUME UNCHANGED dispatch PROVE AllotInv' /\ UNCHANGED <<held, shipped>>
  BY <1>1, <1>3 DEF AllotInv, held, shipped, Open
<1>4. CASE Sale \/ Notes \/ UNCHANGED vars
  <2>1. UNCHANGED <<void, dispatch>>
    <3>1. CASE Sale
      BY <3>1 DEF Sale, SaleAccepted, SaleUnaccepted, AdjustStock
    <3>2. CASE Notes
      BY <3>2 DEF Notes, WriteDraft, IssueNote, ReadDraft, DeleteNote, ReadForNumber, NumberNote,
         RetryNote, SubmitNote, NoteAccepted, NoteExceeds, NoteDoubtful, NoteUnanswered, VoidNote,
         ReceiveReturn
    <3>3. CASE UNCHANGED vars
      BY <3>3 DEF vars
    <3>. QED
      BY <1>4, <3>1, <3>2, <3>3
  <2>. QED
    BY <1>3, <2>1, SameClosed DEF Allotment!vars
<1>5. CASE Void
  <2>1. UNCHANGED dispatch
    BY <1>5 DEF Void, RequestVoid, SendVoid, FailVoid, VoidRejected, VoidAccepted
  <2>2. CASE RequestVoid
    <3>1. closed' = TRUE /\ \A d \in Dispatch : held[d] = 0
      BY <2>2 DEF RequestVoid, VoidClear, closed, SourceAvailable, held
    <3>. QED
      BY <1>3, <2>1, <3>1 DEF Allotment!Next, Allotment!Close
  <2>3. CASE SendVoid \/ VoidAccepted
    <3>1. UNCHANGED closed
      BY <2>3 DEF SendVoid, VoidAccepted, closed, SourceAvailable
    <3>. QED
      BY <1>3, <2>1, <3>1 DEF Allotment!vars
  <2>4. CASE FailVoid \/ VoidRejected
    <3>1. closed' = FALSE
      BY <2>4 DEF FailVoid, VoidRejected, closed, SourceAvailable
    <3>. QED
      BY <1>3, <2>1, <3>1 DEF Allotment!Next, Allotment!Reopen
  <2>. QED
    BY <1>5, <2>2, <2>3, <2>4 DEF Void
<1>. QED
  BY <1>2, <1>4, <1>5 DEF Next

\* The dispatches of a sale implement the allotment of its line: whatever requests,
\* workers and the provider do, the parts assigned never exceed what was sold, what
\* has left stays assigned, and nothing is assigned while a cancellation is under way.
THEOREM AllotmentImplemented == Spec => ImplementsAllotment
<1>1. Init => AllotInv /\ Allotment!Init
  <2>. SUFFICES ASSUME Init PROVE AllotInv /\ Allotment!Init
    OBVIOUS
  <2>1. AllotInv
    BY LedgerInit DEF Init, NewDispatch, AllotInv
  <2>2. Allotment!Init
    BY DEF Init, NewDispatch, Allotment!Init, held, shipped, closed, Open, SourceAvailable
  <2>. QED
    BY <2>1, <2>2
<1>. QED
  BY <1>1, LedgerAllots, PTL DEF Spec, ImplementsAllotment, Allotment!Spec

=============================================================================
