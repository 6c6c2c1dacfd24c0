---------------------------- MODULE QuoteBilling ----------------------------
(***************************************************************************)
(* How quotes become invoices and boletas, and how they are paid: the      *)
(* quotes of crud/_cotizaciones_quotes.py, their conversion by             *)
(* routers/facturacion.py and crud/_cotizaciones_fiscal.py, with numbers   *)
(* of one series and the goods of one product (StockHolds), and the        *)
(* payments of crud/pagos.py.  Goods have price one, so that a quantity is *)
(* also an amount.                                                         *)
(*                                                                         *)
(* A request to convert a quote creates the document in one transaction,   *)
(* under the lock of the quote, and goes on in others: the asynchronous    *)
(* one reserves the stock and enqueues a job, the synchronous one calls    *)
(* the provider and reserves the stock afterwards.  A payment reads the    *)
(* balance and commits later, without any lock.  Notes, dispatches and the *)
(* course of a cancellation are in SaleLedger, the jobs in EmissionQueue.  *)
(***************************************************************************)
EXTENDS StockHolds

\* Doc is the set of conversions, each with the document that it may create.
CONSTANTS
    Quote,     \* quotes of one company
    Payer,     \* requests that register a payment
    MaxTotal,  \* bound on the total of a quote
    Floor,     \* number the series had outside this system
    None       \* no quote or document

ASSUME BillingAssumption ==
    /\ MaxTotal \in Nat \ {0}
    /\ Floor \in Nat
    /\ None \notin Quote \cup Doc

VARIABLES
    quote,    \* state, total and what is written as paid
    doc,      \* the conversions and their documents
    advance,  \* payments of a quote that no document has
    paidTo,   \* payments of a document
    paying,   \* payments between their reading and their commit
    raced     \* quotes that changed under a payment (bookkeeping)

vars == <<quote, doc, advance, paidTo, paying, raced, stock>>

money == <<advance, paidTo, paying, raced>>

Totals == 1 .. MaxTotal

QuoteState == {"pendiente", "facturada", "deleted"}

\* Of a conversion that is asked for, the document is not created yet.
DocState == {"none", "asked", "pendiente", "facturada", "anulada", "deleted"}

\* Where the request or the job of a document stands.
Step == {"none", "created", "held", "queued", "sent", "failed", "out", "answered", "done"}

NewDoc == [state |-> "none", quote |-> None, total |-> 0, number |-> 0, sync |-> FALSE,
           step |-> "none", sunat |-> "none"]

NoPayment == [quote |-> None, doc |-> None, amount |-> 0, seen |-> 0]

Init ==
    /\ quote \in [Quote -> [state : {"pendiente"}, total : Totals, paid : {0}]]
    /\ doc = [d \in Doc |-> NewDoc]
    /\ advance = [q \in Quote |-> 0]
    /\ paidTo = [d \in Doc |-> 0]
    /\ paying = [p \in Payer |-> NoPayment]
    /\ raced = {}
    /\ StockInit

-----------------------------------------------------------------------------
(* What the handlers read. *)

\* Mutant: the row of a document that is cancelled is not kept.
Live_NotVoided(d) == doc[d].state \in {"pendiente", "facturada"}

\* The document has a row, and with it its number.
Live(d) == doc[d].state \in {"pendiente", "facturada", "anulada"}

Active(q) == {d \in Doc : doc[d].quote = q /\ doc[d].state \in {"pendiente", "facturada"}}

Numbers == {doc[d].number : d \in {e \in Doc : Live(e)}}

\* _next_correlativo_for_series.  That two requests find the same number is
\* ruled out by the constraint of the table; the one that comes late repeats.
NextNumber == Max({Floor} \cup Numbers) + 1

\* A change of quote q that a payment on its way does not see.
Races(q, P) == IF \E p \in P : paying[p].quote = q THEN raced \cup {q} ELSE raced

-----------------------------------------------------------------------------
(* Quotes *)

\* update_cotizacion, under the lock of the quote: no document that counts, no
\* payment.
EditQuote(q, total) ==
    /\ quote[q].state = "pendiente"
    /\ Active(q) = {}
    /\ quote[q].paid = 0 /\ advance[q] = 0
    /\ \A d \in Doc : doc[d].quote = q => paidTo[d] = 0
    /\ quote' = [quote EXCEPT ![q].total = total]
    /\ raced' = Races(q, Payer)
    /\ UNCHANGED <<doc, advance, paidTo, paying, stock>>

\* delete_cotizacion takes the payments of the quote along.
DeleteQuote(q) ==
    /\ quote[q].state = "pendiente"
    /\ Active(q) = {}
    /\ quote' = [quote EXCEPT ![q] = [@ EXCEPT !.state = "deleted", !.paid = 0]]
    /\ advance' = [advance EXCEPT ![q] = 0]
    /\ paidTo' = [d \in Doc |-> IF doc[d].quote = q THEN 0 ELSE paidTo[d]]
    /\ UNCHANGED <<doc, paying, raced, stock>>

-----------------------------------------------------------------------------
(* Conversion *)

\* The request reads the quote...
AskConversion(d, q, sync) ==
    /\ doc[d].state = "none"
    /\ quote[q].state # "deleted"
    /\ Active(q) = {}
    /\ doc' = [doc EXCEPT ![d] = [@ EXCEPT !.state = "asked", !.quote = q, !.sync = sync]]
    /\ UNCHANGED <<quote, money, stock>>

\* Mutant: it does not look again.
Convertible_AsAsked(d) == quote[doc[d].quote].state # "deleted"

Convertible(d) == quote[doc[d].quote].state # "deleted" /\ Active(doc[d].quote) = {}

\* ...locks it, reads it again and creates a copy, if no other came first.
CreateDocument(d) ==
    /\ doc[d].state = "asked"
    /\ Convertible(d)
    /\ doc' = [doc EXCEPT ![d] = [@ EXCEPT !.state = "pendiente", !.step = "created",
                                           !.total = quote[doc[d].quote].total,
                                           !.number = NextNumber]]
    /\ UNCHANGED <<quote, money, stock>>

\* The request ends: refused, or its process dies.
EndRequest(d) ==
    /\ \/ doc[d].state = "asked" /\ doc' = [doc EXCEPT ![d] = NewDoc]
       \/ doc[d].step \in {"created", "held", "out", "answered"}
          /\ doc' = [doc EXCEPT ![d].step = "done"]
    /\ UNCHANGED <<quote, money, stock>>

\* When the stock is asked for: before the job, or after the provider.
AsksStock(d) == doc[d].step = (IF doc[d].sync THEN "answered" ELSE "created")

\* create_document_holds, when the stock is there or an administrator has
\* authorised the lack of it.
HoldStock(d) ==
    /\ AsksStock(d)
    /\ \E authorised \in BOOLEAN : Hold(d, doc[d].total, authorised)
    /\ doc' = [doc EXCEPT ![d].step = IF doc[d].sync THEN "done" ELSE "held"]
    /\ UNCHANGED <<quote, money>>

\* When it is not, the document is deleted while it is pending.
RefuseStock(d) ==
    /\ AsksStock(d)
    /\ doc' = [doc EXCEPT ![d] =
           IF doc[d].state = "pendiente" THEN [@ EXCEPT !.state = "deleted", !.step = "done"]
                                         ELSE [@ EXCEPT !.step = "done"]]
    /\ UNCHANGED <<quote, money, stock>>

\* A user who may not sell more than there is asked to: the document is deleted
\* as it is.  A payment that refers to it prevents that.
RefuseOverride(d) ==
    /\ AsksStock(d)
    /\ doc' = [doc EXCEPT ![d] =
           IF paidTo[d] = 0 THEN [@ EXCEPT !.state = "deleted", !.step = "done"]
                            ELSE [@ EXCEPT !.step = "done"]]
    /\ UNCHANGED <<quote, money, stock>>

EnqueueDocument(d) ==
    /\ doc[d].step = "held"
    /\ doc' = [doc EXCEPT ![d].step = "queued"]
    /\ UNCHANGED <<quote, money, stock>>

\* The worker or the synchronous request calls the provider, that may not get
\* it; an acceptance stands, a rejected document is decided anew.
Submit(d) ==
    /\ doc[d].step = "queued" \/ (doc[d].sync /\ doc[d].step = "created")
    /\ \E decision \in {"none", "accepted", "rejected"} :
           doc' = [doc EXCEPT
               ![d].step = IF @ = "queued" THEN "sent" ELSE "out",
               ![d].sunat = IF @ = "accepted" \/ decision = "none" THEN @ ELSE decision]
    /\ UNCHANGED <<quote, money, stock>>

\* Mutant: an advance that is applied stays an advance.
Unapplied_Kept(q) == advance[q]

Unapplied(q) == 0

\* guardar_respuesta_sunat: the quote follows, its advances become payments of
\* the document, and the goods leave.
Accept(d) ==
    LET q == doc[d].quote
    IN  /\ doc[d].state = "pendiente" /\ doc[d].sunat = "accepted"
        /\ doc[d].step \in {"sent", "out"}
        /\ doc' = [doc EXCEPT ![d].state = "facturada",
                              ![d].step = IF @ = "out" THEN "answered" ELSE "done"]
        /\ quote' = [quote EXCEPT ![q].state = "facturada"]
        /\ paidTo' = [paidTo EXCEPT ![d] = @ + advance[q]]
        /\ advance' = [advance EXCEPT ![q] = Unapplied(q)]
        /\ raced' = Races(q, Payer)
        /\ Finalize(d)
        /\ UNCHANGED paying

\* No constancy: a job fails if SUNAT has not accepted, and goes on asking if it
\* has; the request stores what it got, or an error ends it.
Unaccepted(d) ==
    /\ \/ doc[d].step = "sent" /\ doc[d].sunat # "accepted"
          /\ doc' = [doc EXCEPT ![d].step = "failed"]
       \/ doc[d].step = "out"
          /\ \E end \in {"answered", "done"} : doc' = [doc EXCEPT ![d].step = end]
    /\ UNCHANGED <<quote, money, stock>>

\* A rejection that SUNAT has confirmed frees the goods too.
Rejected(d) ==
    /\ doc[d].step = "sent" /\ doc[d].sunat = "rejected"
    /\ Release(d)
    /\ doc' = [doc EXCEPT ![d].step = "failed"]
    /\ UNCHANGED <<quote, money>>

\* retry_fiscal_document keeps the number and the hold, if that still stands.
RetryDocument(d) ==
    /\ doc[d].step = "failed" /\ Held(d)
    /\ doc' = [doc EXCEPT ![d].step = "queued"]
    /\ UNCHANGED <<quote, money, stock>>

\* anular_cotizacion: the quote is open again, and what left the stock comes back.
VoidDocument(d) ==
    /\ doc[d].state = "facturada"
    /\ doc' = [doc EXCEPT ![d].state = "anulada"]
    /\ quote' = [quote EXCEPT ![doc[d].quote].state = "pendiente"]
    /\ raced' = Races(doc[d].quote, Payer)
    /\ Restore(d)
    /\ UNCHANGED <<advance, paidTo, paying>>

-----------------------------------------------------------------------------
(* Payments *)

\* _resolve_pago_context: the accepted document of the quote has the balance,
\* or else the quote, unless its last document is cancelled.
IssuedOf(q) == {d \in Active(q) : doc[d].state = "facturada"}

Payable(q) ==
    /\ quote[q].state # "deleted"
    /\ Active(q) # {} \/ \A d \in Doc : doc[d].quote = q => doc[d].state # "anulada"

Balance(q) ==
    IF IssuedOf(q) = {} THEN quote[q].total - quote[q].paid
    ELSE LET d == CHOOSE d \in IssuedOf(q) : TRUE IN doc[d].total - paidTo[d]

\* registrar_pago reads the quote and its balance...
BeginPayment(p, q, amount) ==
    /\ paying[p] = NoPayment
    /\ Payable(q)
    /\ amount <= Balance(q)
    /\ paying' = [paying EXCEPT ![p] =
           [quote |-> q, amount |-> amount, seen |-> quote[q].paid,
            doc |-> IF IssuedOf(q) = {} THEN None ELSE CHOOSE d \in IssuedOf(q) : TRUE]]
    /\ UNCHANGED <<quote, doc, advance, paidTo, raced, stock>>

\* ...and writes the payment and the total it computed, if the rows it refers
\* to are still there.
CommitPayment(p) ==
    LET q == paying[p].quote
        d == paying[p].doc
    IN  /\ q # None
        /\ IF quote[q].state = "deleted" \/ (d # None /\ ~Live(d))
           THEN UNCHANGED <<quote, advance, paidTo, raced>>
           ELSE /\ quote' = [quote EXCEPT ![q].paid = paying[p].seen + paying[p].amount]
                /\ IF d = None
                   THEN /\ advance' = [advance EXCEPT ![q] = @ + paying[p].amount]
                        /\ UNCHANGED paidTo
                   ELSE /\ paidTo' = [paidTo EXCEPT ![d] = @ + paying[p].amount]
                        /\ UNCHANGED advance
                /\ raced' = Races(q, Payer \ {p})
        /\ paying' = [paying EXCEPT ![p] = NoPayment]
        /\ UNCHANGED <<doc, stock>>

-----------------------------------------------------------------------------
(* The stock is also changed by hand. *)

AdjustStock ==
    /\ \/ \E quantity \in Totals : TakeStock(quantity)
       \/ \E count \in 0 .. InitialStock : CountStock(count)
    /\ UNCHANGED <<quote, doc, money>>

-----------------------------------------------------------------------------
Next ==
    \/ \E q \in Quote, total \in Totals : EditQuote(q, total)
    \/ \E q \in Quote : DeleteQuote(q)
    \/ \E d \in Doc, q \in Quote, sync \in BOOLEAN : AskConversion(d, q, sync)
    \/ \E d \in Doc :
           \/ CreateDocument(d) \/ EndRequest(d)
           \/ HoldStock(d) \/ RefuseStock(d) \/ RefuseOverride(d)
           \/ EnqueueDocument(d) \/ Submit(d) \/ Accept(d) \/ Unaccepted(d)
           \/ Rejected(d) \/ RetryDocument(d) \/ VoidDocument(d)
    \/ \E p \in Payer, q \in Quote, amount \in Totals : BeginPayment(p, q, amount)
    \/ \E p \in Payer : CommitPayment(p)
    \/ AdjustStock

Spec == Init /\ [][Next]_vars

-----------------------------------------------------------------------------
(* Safety *)

\* A synchronous request deleted a document of quote q.
Erased(q) == \E d \in Doc : doc[d].quote = q /\ doc[d].sync /\ doc[d].state = "deleted"

\* A quote has at most one document that counts, whatever requests overlap, with
\* the total that the quote has now, and is itself taken for invoiced exactly
\* while that document is accepted (a synchronous request may delete it, then
\* the quote is not told).
QuoteIsItsDocument ==
    \A q \in Quote :
        /\ \A d, e \in Active(q) : d = e
        /\ \A d \in Active(q) : doc[d].total = quote[q].total
        /\ quote[q].state = "facturada" => IssuedOf(q) # {} \/ Erased(q)
        /\ IssuedOf(q) # {} => quote[q].state = "facturada"

\* A number under which a document reached the provider is never given to
\* another one, unless a synchronous request had it: documents that are deleted
\* for want of stock were not sent.
SentNumberStands ==
    \A d, e \in Doc :
        /\ doc[d].sunat # "none" /\ doc[e].sunat # "none"
        /\ doc[d].number = doc[e].number
        => d = e \/ doc[d].sync \/ doc[e].sync

\* As long as a payment does not overlap another payment, an edit, an acceptance
\* or a cancellation of its sale, every payment counts once, an advance is on
\* the first document that was accepted after it, and no document is overpaid.
PaymentsCountOnce ==
    \A q \in Quote \ raced :
        /\ quote[q].paid
               = advance[q] + SumFunctionOnSet(paidTo, {d \in Doc : doc[d].quote = q})
        /\ \A d \in IssuedOf(q) : paidTo[d] <= doc[d].total

\* The goods that are gone are those of the sales in force that had a hold when
\* they were accepted: every sale of a job takes its goods once, and gives them
\* back when it is cancelled.  The goods of an accepted sale are missing only if
\* some were taken away by hand or an administrator sold more than there was.
SoldIsGone ==
    LET Out == {d \in Doc : hold[d].status = "converted" /\ doc[d].state = "facturada"}
    IN  /\ onHand = InitialStock - taken + counted - Quantity(Out)
        /\ \A d \in Doc : doc[d].state = "facturada" /\ ~doc[d].sync /\ d \notin Out =>
               hold[d].missing /\ (taken > 0 \/ \E e \in Doc : hold[e].authorised)

=============================================================================
