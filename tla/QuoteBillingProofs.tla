-------------------------- MODULE QuoteBillingProofs --------------------------
(***************************************************************************)
(* Theorems about QuoteBilling, and with it StockHolds, for any quotes,    *)
(* payers and amounts and any finite set of conversions: a quote has one   *)
(* document that counts and follows it; what was sent keeps its number;    *)
(* what is promised is there and what is sold is gone; what is paid is     *)
(* counted once.                                                           *)
(***************************************************************************)
EXTENDS QuoteBilling, SumTheorems

\* The fields that rows have.  What a number or an amount is does not matter
\* here.
Shape ==
    /\ DOMAIN quote = Quote /\ DOMAIN doc = Doc
    /\ \A q \in Quote : DOMAIN quote[q] = {"state", "total", "paid"}
    /\ \A d \in Doc : DOMAIN doc[d] = {"state", "quote", "total", "number", "sync", "step", "sunat"}
    /\ \A d \in Doc : doc[d].sync \in BOOLEAN

\* A conversion has a quote, and the document of an asynchronous request is
\* pending until its job exists.
Sound(d) ==
    /\ doc[d].state # "none" => doc[d].quote \in Quote
    /\ doc[d].state \in {"none", "asked"} => doc[d].step = "none"
    /\ doc[d].step = "created" /\ ~doc[d].sync => doc[d].state = "pendiente"

BillingInv == Shape /\ (\A d \in Doc : Sound(d)) /\ QuoteIsItsDocument

LEMMA BillingInit == Init => BillingInv
<1>. SUFFICES ASSUME Init PROVE BillingInv
  OBVIOUS
<1>1. Shape
  BY DEF Init, NewDoc, Shape
<1>2. \A d \in Doc : doc[d].state = "none" /\ doc[d].step = "none"
  BY DEF Init, NewDoc
<1>3. \A d \in Doc : Sound(d)
  BY <1>1, <1>2 DEF Shape, Sound
<1>4. QuoteIsItsDocument
  BY <1>2 DEF Init, QuoteIsItsDocument, Active, IssuedOf
<1>. QED
  BY <1>1, <1>3, <1>4 DEF BillingInv

\* A step that leaves quotes and documents as they are, apart from what is
\* written as paid and from what SUNAT and the request's progress are.
LEMMA SameDocuments ==
    ASSUME BillingInv, Shape',
           \A d \in Doc : /\ doc'[d].state = doc[d].state /\ doc'[d].quote = doc[d].quote
                          /\ doc'[d].total = doc[d].total /\ doc'[d].sync = doc[d].sync
                          /\ doc'[d].step = "created" => doc[d].step = "created"
                          /\ doc[d].step = "none" => doc'[d].step = "none",
           \A q \in Quote : quote'[q].state = quote[q].state /\ quote'[q].total = quote[q].total
    PROVE  BillingInv'
<1>1. \A d \in Doc : Sound(d)'
  BY DEF BillingInv, Sound
<1>2. \A q \in Quote : Active(q)' = Active(q)
  BY DEF Active
<1>3. \A q \in Quote : IssuedOf(q)' = IssuedOf(q)
  BY <1>2 DEF IssuedOf, Active
<1>4. \A q \in Quote : Erased(q)' = Erased(q)
  BY DEF Erased
<1>5. QuoteIsItsDocument'
  BY <1>2, <1>3, <1>4 DEF BillingInv, QuoteIsItsDocument, Active
<1>. QED
  BY <1>1, <1>5 DEF BillingInv

\* A step that changes the row of one document, and of the quotes at most what
\* is written as paid.
LEMMA OneDocument ==
    ASSUME BillingInv, Shape', NEW d \in Doc, Sound(d)',
           \A e \in Doc \ {d} : doc'[e] = doc[e],
           \A q \in Quote : quote'[q].state = quote[q].state /\ quote'[q].total = quote[q].total,
           \* it does not come to count, or it has the total of its quote and no rival
           \/ doc'[d].state \notin {"pendiente", "facturada"}
           \/ doc'[d].state = "pendiente" /\ Active(doc'[d].quote) = {}
                  /\ doc'[d].total = quote[doc'[d].quote].total,
           \* it is accepted only in the hands of a synchronous request that deletes it
           doc[d].state # "facturada" \/ (doc'[d].state = "deleted" /\ doc[d].sync
                                              /\ doc'[d].sync /\ doc'[d].quote = doc[d].quote),
           doc[d].state # "deleted"
    PROVE  BillingInv'
<1>. USE DEF BillingInv
<1>1. \A e \in Doc : Sound(e)'
  BY DEF Sound
<1>2. ASSUME NEW q \in Quote
      PROVE  /\ \A e, f \in Active(q)' : e = f
             /\ \A e \in Active(q)' : doc'[e].total = quote'[q].total
  BY DEF QuoteIsItsDocument, Active
<1>3. ASSUME NEW q \in Quote, quote'[q].state = "facturada"
      PROVE  IssuedOf(q)' # {} \/ Erased(q)'
  <2>1. CASE Erased(q)
    BY <2>1 DEF Erased
  <2>2. ASSUME NEW e \in IssuedOf(q) PROVE IssuedOf(q)' # {} \/ Erased(q)'
    <3>1. CASE e = d
      BY <2>2, <3>1 DEF IssuedOf, Active, Erased
    <3>2. CASE e # d
      BY <2>2, <3>2 DEF IssuedOf, Active
    <3>. QED
      BY <3>1, <3>2
  <2>. QED
    BY <1>3, <2>1, <2>2 DEF QuoteIsItsDocument
<1>4. ASSUME NEW q \in Quote, IssuedOf(q)' # {} PROVE quote'[q].state = "facturada"
  <2>1. PICK e \in IssuedOf(q)' : e \in Doc
    BY <1>4 DEF IssuedOf, Active
  <2>2. e \in IssuedOf(q)
    BY <2>1 DEF IssuedOf, Active
  <2>. QED
    BY <2>2 DEF QuoteIsItsDocument
<1>. QED
  BY <1>1, <1>2, <1>3, <1>4 DEF QuoteIsItsDocument

LEMMA QuoteSteps ==
    ASSUME BillingInv, NEW q \in Quote,
           DeleteQuote(q) \/ \E total \in Totals : EditQuote(q, total)
    PROVE  BillingInv'
<1>. USE DEF BillingInv
<1>1. /\ UNCHANGED doc /\ Active(q) = {} /\ quote[q].state = "pendiente"
      /\ \A r \in Quote \ {q} : quote'[r] = quote[r]
      /\ quote'[q].state \in {"pendiente", "deleted"}
  BY DEF DeleteQuote, EditQuote, Shape
<1>2. Shape'
  BY <1>1 DEF DeleteQuote, EditQuote, Shape
<1>3. \A d \in Doc : Sound(d)'
  BY <1>1 DEF Sound
<1>4. \A r \in Quote : /\ Active(r)' = Active(r) /\ IssuedOf(r)' = IssuedOf(r)
                       /\ Erased(r)' = Erased(r)
  BY <1>1 DEF Active, IssuedOf, Erased
<1>5. IssuedOf(q) = {}
  BY <1>1 DEF IssuedOf
<1>6. QuoteIsItsDocument'
  BY <1>1, <1>4, <1>5 DEF QuoteIsItsDocument
<1>. QED
  BY <1>2, <1>3, <1>6

LEMMA CreateSteps ==
    ASSUME BillingInv, NEW d \in Doc,
           \/ CreateDocument(d)
           \/ \E q \in Quote, sync \in BOOLEAN : AskConversion(d, q, sync)
    PROVE  BillingInv'
<1>. USE DEF BillingInv
<1>1. Shape'
  BY DEF CreateDocument, AskConversion, Shape
<1>2. /\ \A e \in Doc \ {d} : doc'[e] = doc[e]
      /\ doc[d].state \in {"none", "asked"}
      /\ UNCHANGED quote
  BY DEF CreateDocument, AskConversion, Shape
<1>3. CASE CreateDocument(d)
  <2>1. /\ doc'[d].state = "pendiente" /\ doc'[d].quote = doc[d].quote
        /\ doc'[d].total = quote[doc[d].quote].total
    BY <1>3 DEF CreateDocument, Shape
  <2>2. doc[d].quote \in Quote /\ Active(doc[d].quote) = {} /\ doc[d].state = "asked"
    BY <1>3 DEF CreateDocument, Convertible, Sound
  <2>3. Sound(d)'
    BY <2>1, <2>2 DEF Sound
  <2>. QED
    BY <1>1, <1>2, <2>1, <2>2, <2>3, OneDocument
<1>4. ASSUME NEW q \in Quote, NEW sync \in BOOLEAN, AskConversion(d, q, sync)
      PROVE  BillingInv'
  <2>1. doc'[d].state = "asked" /\ doc'[d].quote = q /\ doc'[d].step = doc[d].step
    BY <1>4 DEF AskConversion, Shape
  <2>2. doc[d].state = "none"
    BY <1>4 DEF AskConversion
  <2>3. Sound(d)'
    BY <2>1, <2>2 DEF Sound
  <2>. QED
    BY <1>1, <1>2, <2>1, <2>2, <2>3, OneDocument
<1>. QED
  BY <1>3, <1>4

\* A refusal deletes the document; an accepted one only if its request is
\* synchronous.
LEMMA RefuseSteps ==
    ASSUME BillingInv, NEW d \in Doc, RefuseStock(d) \/ RefuseOverride(d) \/ EndRequest(d)
    PROVE  BillingInv'
<1>. USE DEF BillingInv
<1>1. Shape'
  <2>1. CASE EndRequest(d)
    <3>1. CASE doc' = [doc EXCEPT ![d] = NewDoc]
      BY <2>1, <3>1 DEF EndRequest, NewDoc, Shape
    <3>2. CASE doc' = [doc EXCEPT ![d].step = "done"]
      BY <2>1, <3>2 DEF EndRequest, Shape
    <3>. QED
      BY <2>1, <3>1, <3>2 DEF EndRequest
  <2>2. CASE RefuseStock(d)
    BY <2>2 DEF RefuseStock, Shape
  <2>3. CASE RefuseOverride(d)
    BY <2>3 DEF RefuseOverride, Shape
  <2>. QED
    BY <2>1, <2>2, <2>3
<1>2. /\ \A e \in Doc \ {d} : doc'[e] = doc[e]
      /\ UNCHANGED quote
  BY DEF RefuseStock, RefuseOverride, EndRequest, Shape
<1>3. CASE EndRequest(d) /\ doc'[d] = NewDoc
  <2>1. doc'[d].state = "none" /\ doc'[d].step = "none"
    BY <1>3 DEF NewDoc
  <2>2. doc[d].state = "asked" \/ doc[d].step \in {"created", "held", "out", "answered"}
    BY <1>3 DEF EndRequest
  <2>3. CASE doc[d].state = "asked"
    <3>1. Sound(d)'
      BY <2>1 DEF Sound
    <3>. QED
      BY <1>1, <1>2, <2>1, <2>3, <3>1, OneDocument
  <2>4. CASE doc[d].state # "asked"
    <3>1. doc'[d].step = "done"
      BY <1>3, <2>4 DEF EndRequest, Shape
    <3>. QED
      BY <2>1, <3>1
  <2>. QED
    BY <2>3, <2>4
<1>4. CASE ~(EndRequest(d) /\ doc'[d] = NewDoc)
  <2>1. /\ doc[d].step # "none" /\ doc'[d].step = "done"
        /\ doc'[d].state \in {doc[d].state, "deleted"}
        /\ doc'[d].quote = doc[d].quote /\ doc'[d].total = doc[d].total
        /\ doc'[d].sync = doc[d].sync
        /\ doc'[d].state # doc[d].state => AsksStock(d)
    <3>1. CASE EndRequest(d)
      BY <1>4, <3>1 DEF EndRequest, Shape
    <3>2. CASE RefuseStock(d)
      BY <3>2 DEF RefuseStock, AsksStock, Shape
    <3>3. CASE RefuseOverride(d)
      BY <3>3 DEF RefuseOverride, AsksStock, Shape
    <3>. QED
      BY <3>1, <3>2, <3>3
  <2>2. CASE doc'[d].state = doc[d].state
    BY <1>1, <1>2, <2>1, <2>2, SameDocuments
  <2>3. CASE doc'[d].state # doc[d].state
    <3>1. AsksStock(d)
      BY <2>1, <2>3
    <3>2. doc[d].sync \/ doc[d].state \in {"pendiente"}
      BY <3>1 DEF AsksStock, Sound
    <3>3. doc[d].state \notin {"none", "asked"}
      BY <3>1 DEF AsksStock, Sound
    <3>4. Sound(d)'
      BY <2>1, <2>3, <3>3 DEF Sound
    <3>. QED
      BY <1>1, <1>2, <2>1, <2>3, <3>2, <3>3, <3>4, OneDocument
  <2>. QED
    BY <2>2, <2>3
<1>. QED
  BY <1>3, <1>4

LEMMA ProgressSteps ==
    ASSUME BillingInv, NEW d \in Doc,
           \/ HoldStock(d) \/ EnqueueDocument(d) \/ Submit(d) \/ Unaccepted(d)
           \/ Rejected(d) \/ RetryDocument(d)
    PROVE  BillingInv'
<1>. USE DEF BillingInv
<1>1. Shape'
  BY DEF HoldStock, EnqueueDocument, Submit, Unaccepted, Rejected, RetryDocument, Shape
<1>2. /\ \A e \in Doc \ {d} : doc'[e] = doc[e]
      /\ UNCHANGED quote
  BY DEF HoldStock, EnqueueDocument, Submit, Unaccepted, Rejected, RetryDocument, Shape
<1>3. /\ doc'[d].state = doc[d].state /\ doc'[d].quote = doc[d].quote
      /\ doc'[d].total = doc[d].total /\ doc'[d].sync = doc[d].sync
      /\ doc[d].step # "none" /\ doc'[d].step # "created"
  <2>1. CASE HoldStock(d)
    BY <2>1 DEF HoldStock, AsksStock, Shape
  <2>2. CASE EnqueueDocument(d) \/ RetryDocument(d)
    BY <2>2 DEF EnqueueDocument, RetryDocument, Shape
  <2>3. CASE Submit(d)
    BY <2>3 DEF Submit, Shape
  <2>4. CASE Unaccepted(d) \/ Rejected(d)
    BY <2>4 DEF Unaccepted, Rejected, Shape
  <2>. QED
    BY <2>1, <2>2, <2>3, <2>4
<1>. QED
  BY <1>1, <1>2, <1>3, SameDocuments

\* The quote follows its document when it is accepted and when it is cancelled.
LEMMA FollowSteps ==
    ASSUME BillingInv, NEW d \in Doc, Accept(d) \/ VoidDocument(d)
    PROVE  BillingInv'
<1>. USE DEF BillingInv
<1>. DEFINE q == doc[d].quote
<1>1. q \in Quote
  BY DEF Accept, VoidDocument, Sound
<1>2. Shape'
  BY <1>1 DEF Accept, VoidDocument, Shape
<1>3. /\ \A e \in Doc \ {d} : doc'[e] = doc[e]
      /\ \A r \in Quote \ {q} : quote'[r] = quote[r]
      /\ doc'[d].quote = q /\ doc'[d].total = doc[d].total /\ doc'[d].sync = doc[d].sync
      /\ quote'[q].total = quote[q].total
      /\ d \in Active(q)
  BY <1>1 DEF Accept, VoidDocument, Shape, Active
<1>4. \/ doc'[d].state = "facturada" /\ quote'[q].state = "facturada"
                /\ doc'[d].step \in {"answered", "done"}
      \/ doc'[d].state = "anulada" /\ quote'[q].state = "pendiente"
                /\ doc[d].state = "facturada" /\ doc'[d].step = doc[d].step
  BY <1>1 DEF Accept, VoidDocument, Shape
<1>5. \A e \in Active(q) : e = d
  BY <1>1, <1>3 DEF QuoteIsItsDocument
<1>6. \A e \in Doc : Sound(e)'
  BY <1>1, <1>3, <1>4 DEF Sound
<1>7. \A r \in Quote : Active(r)' \subseteq Active(r)
  BY <1>3, <1>4 DEF Active
<1>8. \A r \in Quote \ {q} : IssuedOf(r)' = IssuedOf(r) /\ Erased(r)' = Erased(r)
  BY <1>3 DEF Active, IssuedOf, Erased
<1>9. IssuedOf(q)' = IF doc'[d].state = "facturada" THEN {d} ELSE {}
  BY <1>3, <1>4, <1>5, <1>7, <1>1 DEF IssuedOf, Active
<1>10. QuoteIsItsDocument'
  <2>1. ASSUME NEW r \in Quote
        PROVE  /\ \A e, f \in Active(r)' : e = f
               /\ \A e \in Active(r)' : doc'[e].total = quote'[r].total
    <3>1. \A e \in Active(r) : e \in Doc /\ doc[e].total = quote[r].total
      BY DEF QuoteIsItsDocument, Active
    <3>2. \A e \in Doc : doc'[e].total = doc[e].total
      BY <1>3
    <3>3. quote'[r].total = quote[r].total
      BY <1>3
    <3>. QED
      BY <1>7, <3>1, <3>2, <3>3 DEF QuoteIsItsDocument
  <2>2. ASSUME NEW r \in Quote
        PROVE  /\ quote'[r].state = "facturada" => IssuedOf(r)' # {} \/ Erased(r)'
               /\ IssuedOf(r)' # {} => quote'[r].state = "facturada"
    BY <1>3, <1>4, <1>8, <1>9 DEF QuoteIsItsDocument
  <2>. QED
    BY <2>1, <2>2 DEF QuoteIsItsDocument
<1>. QED
  BY <1>2, <1>6, <1>10

LEMMA PaymentSteps ==
    ASSUME BillingInv, NEW p \in Payer,
           \/ CommitPayment(p)
           \/ \E q \in Quote, amount \in Totals : BeginPayment(p, q, amount)
    PROVE  BillingInv'
<1>1. Shape' /\ UNCHANGED doc
  BY DEF BillingInv, CommitPayment, BeginPayment, Shape
<1>2. \A q \in Quote : quote'[q].state = quote[q].state /\ quote'[q].total = quote[q].total
  BY DEF BillingInv, CommitPayment, BeginPayment, Shape
<1>. QED
  BY <1>1, <1>2, SameDocuments

LEMMA BillingNext == BillingInv /\ [Next]_vars => BillingInv'
<1>. SUFFICES ASSUME BillingInv, [Next]_vars PROVE BillingInv'
  OBVIOUS
<1>1. CASE Next
  <2>1. CASE AdjustStock
    <3>1. Shape'
      BY <2>1 DEF BillingInv, Shape, AdjustStock
    <3>. QED
      BY <2>1, <3>1, SameDocuments DEF AdjustStock
  <2>. QED
    BY <1>1, <2>1, QuoteSteps, CreateSteps, RefuseSteps, ProgressSteps, FollowSteps, PaymentSteps
       DEF Next
<1>2. CASE UNCHANGED vars
  <2>1. Shape'
    BY <1>2 DEF BillingInv, Shape, vars
  <2>. QED
    BY <1>2, <2>1, SameDocuments DEF vars
<1>. QED
  BY <1>1, <1>2

\* However many requests convert, edit, delete, emit, cancel and pay, and in
\* whatever order, a quote has at most one document that counts, with its total,
\* and is taken for invoiced exactly while that document is accepted, unless a
\* synchronous request erased it.
THEOREM QuoteIsItsDocumentHolds == Spec => []QuoteIsItsDocument
<1>1. BillingInv => QuoteIsItsDocument
  BY DEF BillingInv
<1>. QED
  BY <1>1, BillingInit, BillingNext, PTL DEF Spec

-----------------------------------------------------------------------------
(* Types *)

\* Among n and the values of f on a finite set there is a greatest.
LEMMA GreatestValue ==
    ASSUME NEW S, IsFiniteSet(S), NEW f, \A x \in S : f[x] \in Int, NEW n \in Int
    PROVE  LET V == {n} \cup {f[x] : x \in S}
           IN  Max(V) \in V /\ \A v \in V : v <= Max(V)
<1>. DEFINE V(T) == {n} \cup {f[x] : x \in T}
            G == {T \in SUBSET S : \E m \in V(T) : \A v \in V(T) : v <= m}
<1>1. {} \in G
  OBVIOUS
<1>2. ASSUME NEW T \in SUBSET S, First(T) \in T, T \ {First(T)} \in G
      PROVE  T \in G
  <2>. DEFINE x == First(T)
  <2>1. PICK m \in V(T \ {x}) : \A v \in V(T \ {x}) : v <= m
    BY <1>2
  <2>2. V(T) = V(T \ {x}) \cup {f[x]}
    BY <1>2
  <2>3. m \in Int /\ f[x] \in Int /\ \A v \in V(T) : v \in Int
    BY <1>2, <2>1
  <2>. HIDE DEF x, V
  <2>4. CASE f[x] <= m
    BY <2>1, <2>2, <2>3, <2>4
  <2>5. CASE m < f[x]
    <3>1. \A v \in V(T) : v <= f[x]
      BY <2>1, <2>2, <2>3, <2>5
    <3>. QED
      BY <2>2, <3>1
  <2>. QED
    BY <2>3, <2>4, <2>5
<1>. HIDE DEF G
<1>3. S \in G
  BY <1>1, <1>2, SumInduction
<1>4. \E m \in V(S) : \A v \in V(S) : v <= m
  BY <1>3 DEF G
<1>5. \A v \in V(S) : v \in Int
  OBVIOUS
<1>. HIDE DEF V
<1>6. \E m \in V(S) : \A v \in V(S) : m >= v
  BY <1>4, <1>5
<1>7. Max(V(S)) \in V(S) /\ \A v \in V(S) : Max(V(S)) >= v
  BY <1>6 DEF Max
<1>8. \A v \in V(S) : v <= Max(V(S))
  BY <1>5, <1>7
<1>. QED
  BY <1>7, <1>8 DEF V

QuoteRow == [state : QuoteState, total : Nat, paid : Nat]

DocRow == [state : DocState, quote : Quote \cup {None}, total : Nat, number : Nat,
           sync : BOOLEAN, step : Step, sunat : {"none", "accepted", "rejected"}]

PaymentRow == [quote : Quote \cup {None}, doc : Doc \cup {None}, amount : Nat, seen : Nat]

HoldRow == [status : HoldStatus, quantity : Nat, authorised : BOOLEAN, missing : BOOLEAN]

MoneyOK ==
    /\ quote \in [Quote -> QuoteRow]
    /\ advance \in [Quote -> Nat]
    /\ paidTo \in [Doc -> Nat]
    /\ paying \in [Payer -> PaymentRow]

DocsOK == doc \in [Doc -> DocRow]

StockOK ==
    /\ onHand \in Int /\ committed \in Nat
    /\ hold \in [Doc -> HoldRow]
    /\ taken \in Nat /\ counted \in Int

TypesOK == MoneyOK /\ DocsOK /\ StockOK

\* The next number is greater than that of every document that has a row.
LEMMA NextNumberIsNew ==
    ASSUME DocsOK
    PROVE  NextNumber \in Nat /\ \A d \in Doc : Live(d) => doc[d].number < NextNumber
<1>. DEFINE S == {d \in Doc : Live(d)}
            f == [d \in Doc |-> doc[d].number]
            V == {Floor} \cup {f[d] : d \in S}
<1>1. IsFiniteSet(S)
  BY StockAssumption, FS_Subset
<1>2. \A d \in Doc : f[d] = doc[d].number /\ f[d] \in Nat
  BY DEF DocsOK, DocRow
<1>3. {Floor} \cup Numbers = V
  BY <1>2 DEF Numbers
<1>4. \A v \in V : v \in Nat
  BY <1>2, BillingAssumption
<1>5. \A d \in Doc : Live(d) => doc[d].number \in V
  BY <1>2
<1>6. Floor \in Int /\ \A d \in S : f[d] \in Int
  BY <1>2, BillingAssumption
<1>. HIDE DEF S, f
<1>7. Max(V) \in V /\ \A v \in V : v <= Max(V)
  BY <1>1, <1>6, GreatestValue
<1>. HIDE DEF V
<1>8. NextNumber = Max(V) + 1
  BY <1>3 DEF NextNumber
<1>. QED
  BY <1>4, <1>5, <1>7, <1>8

LEMMA TypesInit == Init => TypesOK
<1>. SUFFICES ASSUME Init PROVE TypesOK
  OBVIOUS
<1>. USE DEF Init
<1>1. quote \in [Quote -> QuoteRow]
  BY DEF QuoteRow, QuoteState, Totals
<1>2. doc \in [Doc -> DocRow]
  BY DEF NewDoc, DocRow, DocState, Step
<1>3. paying \in [Payer -> PaymentRow]
  BY DEF NoPayment, PaymentRow
<1>4. StockOK
  BY StockAssumption DEF StockInit, StockOK, NoHold, HoldRow, HoldStatus
<1>. QED
  BY <1>1, <1>2, <1>3, <1>4 DEF TypesOK, MoneyOK, DocsOK

LEMMA QuoteOfDocument ==
    ASSUME BillingInv, NEW d \in Doc, doc[d].state # "none"
    PROVE  doc[d].quote \in Quote
BY DEF BillingInv, Sound

\* The calls of StockHolds.
LEMMA StockTypes ==
    ASSUME StockOK, NEW d \in Doc,
           \/ \E n \in Nat, a \in BOOLEAN : Hold(d, n, a)
           \/ Release(d) \/ Finalize(d) \/ Restore(d) \/ UNCHANGED stock
    PROVE  StockOK'
<1>. USE DEF StockOK, HoldRow, HoldStatus
<1>1. ASSUME NEW n \in Nat, NEW a \in BOOLEAN, Hold(d, n, a) PROVE StockOK'
  BY <1>1 DEF Hold
<1>2. CASE Release(d)
  BY <1>2 DEF Release, Uncommitted, AtLeastZero, stock, manual
<1>3. CASE Finalize(d)
  <2>1. CASE ~Held(d)
    BY <1>3, <2>1 DEF Finalize, stock
  <2>2. CASE Held(d)
    <3>1. committed' \in Nat /\ onHand' \in Int
      BY <1>3, <2>2 DEF Finalize, Uncommitted, AtLeastZero
    <3>2. hold' \in [Doc -> HoldRow]
      BY <1>3, <2>2 DEF Finalize
    <3>. QED
      BY <1>3, <2>2, <3>1, <3>2 DEF Finalize, manual
  <2>. QED
    BY <2>1, <2>2
<1>4. CASE Restore(d)
  BY <1>4 DEF Restore, manual
<1>5. CASE UNCHANGED stock
  BY <1>5 DEF stock
<1>. QED
  BY <1>1, <1>2, <1>3, <1>4, <1>5

LEMMA AdjustTypes ==
    ASSUME StockOK, AdjustStock
    PROVE  StockOK'
<1>1. ASSUME NEW n \in Totals, TakeStock(n) PROVE StockOK'
  BY <1>1 DEF StockOK, TakeStock, Totals
<1>2. ASSUME NEW n \in 0 .. InitialStock, CountStock(n) PROVE StockOK'
  BY <1>2 DEF StockOK, CountStock
<1>. QED
  BY <1>1, <1>2 DEF AdjustStock

\* What a step does with the stock.
LEMMA StockSteps ==
    ASSUME TypesOK, Next
    PROVE  \/ UNCHANGED stock
           \/ \E d \in Doc :
                  \/ HoldStock(d) /\ \E a \in BOOLEAN : Hold(d, doc[d].total, a)
                  \/ Accept(d) /\ Finalize(d)
                  \/ Rejected(d) /\ Release(d)
                  \/ VoidDocument(d) /\ Restore(d)
           \/ AdjustStock
BY DEF Next, EditQuote, DeleteQuote, AskConversion, CreateDocument, EndRequest, HoldStock,
       RefuseStock, RefuseOverride, EnqueueDocument, Submit, Accept, Unaccepted, Rejected,
       RetryDocument, VoidDocument, BeginPayment, CommitPayment

LEMMA StockTypesNext ==
    ASSUME TypesOK, Next
    PROVE  StockOK'
<1>1. StockOK /\ \A d \in Doc : doc[d].total \in Nat
  BY DEF TypesOK, DocsOK, DocRow
<1>2. CASE UNCHANGED stock
  BY <1>1, <1>2 DEF stock, StockOK
<1>3. ASSUME NEW d \in Doc, NEW a \in BOOLEAN, Hold(d, doc[d].total, a) PROVE StockOK'
  BY <1>1, <1>3, StockTypes
<1>4. ASSUME NEW d \in Doc, Finalize(d) \/ Release(d) \/ Restore(d) PROVE StockOK'
  BY <1>1, <1>4, StockTypes
<1>. QED
  BY <1>1, <1>2, <1>3, <1>4, StockSteps, AdjustTypes

LEMMA DocTypesNext ==
    ASSUME BillingInv, TypesOK, Next
    PROVE  DocsOK'
<1>. USE DEF DocsOK, DocRow
<1>1. DocsOK /\ \A q \in Quote : quote[q].total \in Nat
  BY DEF TypesOK, MoneyOK, QuoteRow
<1>2. CASE UNCHANGED doc
  BY <1>1, <1>2
<1>3. ASSUME NEW d \in Doc, NEW q \in Quote, NEW sync \in BOOLEAN, AskConversion(d, q, sync)
      PROVE  DocsOK'
  BY <1>1, <1>3 DEF AskConversion, DocState
<1>4. ASSUME NEW d \in Doc, CreateDocument(d) PROVE DocsOK'
  <2>1. NextNumber \in Nat
    BY <1>1, NextNumberIsNew
  <2>2. doc[d].quote \in Quote
    BY <1>4, QuoteOfDocument DEF CreateDocument
  <2>. QED
    BY <1>1, <1>4, <2>1, <2>2 DEF CreateDocument, DocState, Step
<1>5. ASSUME NEW d \in Doc, EndRequest(d) PROVE DocsOK'
  <2>1. NewDoc \in DocRow
    BY DEF NewDoc, DocState, Step
  <2>2. CASE doc' = [doc EXCEPT ![d] = NewDoc]
    BY <1>1, <2>1, <2>2
  <2>3. CASE doc' = [doc EXCEPT ![d].step = "done"]
    BY <1>1, <2>3 DEF Step
  <2>. QED
    BY <1>5, <2>2, <2>3 DEF EndRequest
<1>6. ASSUME NEW d \in Doc, HoldStock(d) PROVE DocsOK'
  BY <1>1, <1>6 DEF HoldStock, Step
<1>7. ASSUME NEW d \in Doc, RefuseStock(d) PROVE DocsOK'
  BY <1>1, <1>7 DEF RefuseStock, Step, DocState
<1>8. ASSUME NEW d \in Doc, RefuseOverride(d) PROVE DocsOK'
  BY <1>1, <1>8 DEF RefuseOverride, Step, DocState
<1>9. ASSUME NEW d \in Doc, EnqueueDocument(d) \/ RetryDocument(d) PROVE DocsOK'
  BY <1>1, <1>9 DEF EnqueueDocument, RetryDocument, Step
<1>10. ASSUME NEW d \in Doc, Submit(d) PROVE DocsOK'
  <2>1. PICK decision \in {"none", "accepted", "rejected"} :
            doc' = [doc EXCEPT
                ![d].step = IF @ = "queued" THEN "sent" ELSE "out",
                ![d].sunat = IF @ = "accepted" \/ decision = "none" THEN @ ELSE decision]
    BY <1>10 DEF Submit
  <2>. DEFINE step == IF doc[d].step = "queued" THEN "sent" ELSE "out"
              sunat == IF doc[d].sunat = "accepted" \/ decision = "none"
                       THEN doc[d].sunat ELSE decision
  <2>2. step \in Step /\ sunat \in {"none", "accepted", "rejected"}
    BY <1>1 DEF Step
  <2>3. doc' = [doc EXCEPT ![d].step = step, ![d].sunat = sunat]
    BY <2>1
  <2>. HIDE DEF step, sunat
  <2>. QED
    BY <1>1, <2>2, <2>3
<1>11. ASSUME NEW d \in Doc, Accept(d) PROVE DocsOK'
  BY <1>1, <1>11 DEF Accept, Step, DocState
<1>12. ASSUME NEW d \in Doc, Unaccepted(d) PROVE DocsOK'
  BY <1>1, <1>12 DEF Unaccepted, Step
<1>13. ASSUME NEW d \in Doc, Rejected(d) PROVE DocsOK'
  BY <1>1, <1>13 DEF Rejected, Step
<1>14. ASSUME NEW d \in Doc, VoidDocument(d) PROVE DocsOK'
  BY <1>1, <1>14 DEF VoidDocument, DocState
<1>15. \/ \E d \in Doc, q \in Quote, sync \in BOOLEAN : AskConversion(d, q, sync)
       \/ \E d \in Doc :
              \/ CreateDocument(d) \/ EndRequest(d)
              \/ HoldStock(d) \/ RefuseStock(d) \/ RefuseOverride(d)
              \/ EnqueueDocument(d) \/ Submit(d) \/ Accept(d) \/ Unaccepted(d)
              \/ Rejected(d) \/ RetryDocument(d) \/ VoidDocument(d)
       \/ UNCHANGED doc
  BY DEF Next, EditQuote, DeleteQuote, BeginPayment, CommitPayment, AdjustStock
<1>. HIDE DEF DocsOK, DocRow
<1>. QED
  BY <1>2, <1>3, <1>4, <1>5, <1>6, <1>7, <1>8, <1>9, <1>10, <1>11, <1>12, <1>13, <1>14, <1>15

LEMMA MoneyTypesNext ==
    ASSUME BillingInv, TypesOK, Next
    PROVE  MoneyOK'
<1>. USE DEF MoneyOK
<1>1. /\ MoneyOK
      /\ \A q \in Quote : /\ quote[q] \in QuoteRow
                          /\ quote[q].total \in Nat /\ quote[q].paid \in Nat
      /\ \A p \in Payer : /\ paying[p] \in PaymentRow
                          /\ paying[p].amount \in Nat /\ paying[p].seen \in Nat
  BY DEF TypesOK, QuoteRow, PaymentRow
<1>2. ASSUME UNCHANGED <<quote, advance, paidTo, paying>> PROVE MoneyOK'
  BY <1>1, <1>2
<1>3. ASSUME NEW q \in Quote, NEW total \in Totals, EditQuote(q, total) PROVE MoneyOK'
  BY <1>1, <1>3 DEF EditQuote, QuoteRow, Totals
<1>4. ASSUME NEW q \in Quote, DeleteQuote(q) PROVE MoneyOK'
  <2>1. quote' \in [Quote -> QuoteRow]
    BY <1>1, <1>4 DEF DeleteQuote, QuoteRow, QuoteState
  <2>2. paidTo' \in [Doc -> Nat]
    BY <1>1, <1>4 DEF DeleteQuote
  <2>. QED
    BY <1>1, <1>4, <2>1, <2>2 DEF DeleteQuote
<1>5. ASSUME NEW d \in Doc, Accept(d) PROVE MoneyOK'
  <2>1. doc[d].quote \in Quote
    BY <1>5, QuoteOfDocument DEF Accept
  <2>2. quote' \in [Quote -> QuoteRow]
    BY <1>1, <1>5, <2>1 DEF Accept, QuoteRow, QuoteState
  <2>. QED
    BY <1>1, <1>5, <2>1, <2>2 DEF Accept, Unapplied
<1>6. ASSUME NEW d \in Doc, VoidDocument(d) PROVE MoneyOK'
  BY <1>1, <1>6 DEF VoidDocument, QuoteRow, QuoteState
<1>7. ASSUME NEW p \in Payer, NEW q \in Quote, NEW amount \in Totals,
             BeginPayment(p, q, amount)
      PROVE  MoneyOK'
  <2>. DEFINE issued == CHOOSE d \in IssuedOf(q) : TRUE
  <2>1. IssuedOf(q) # {} => issued \in Doc
    BY DEF IssuedOf, Active
  <2>. HIDE DEF issued
  <2>2. paying' = [paying EXCEPT ![p] = [quote |-> q, amount |-> amount, seen |-> quote[q].paid,
                       doc |-> IF IssuedOf(q) = {} THEN None ELSE issued]]
    BY <1>7 DEF BeginPayment, issued
  <2>3. paying' \in [Payer -> PaymentRow]
    BY <1>1, <2>1, <2>2 DEF PaymentRow, Totals
  <2>. QED
    BY <1>1, <1>7, <2>3 DEF BeginPayment
<1>8. ASSUME NEW p \in Payer, CommitPayment(p) PROVE MoneyOK'
  <2>. DEFINE q == paying[p].quote
              d == paying[p].doc
  <2>1. q \in Quote /\ d \in Doc \cup {None}
    BY <1>1, <1>8 DEF CommitPayment, PaymentRow
  <2>2. NoPayment \in PaymentRow
    BY DEF NoPayment, PaymentRow
  <2>3. paying' \in [Payer -> PaymentRow]
    BY <1>1, <1>8, <2>2 DEF CommitPayment
  <2>4. quote' \in [Quote -> QuoteRow]
    <3>1. paying[p].seen + paying[p].amount \in Nat
      BY <1>1
    <3>. QED
      BY <1>1, <1>8, <2>1, <3>1 DEF CommitPayment, QuoteRow
  <2>5. advance' \in [Quote -> Nat] /\ paidTo' \in [Doc -> Nat]
    BY <1>1, <1>8, <2>1 DEF CommitPayment
  <2>. QED
    BY <2>3, <2>4, <2>5
<1>9. \/ \E q \in Quote, total \in Totals : EditQuote(q, total)
      \/ \E q \in Quote : DeleteQuote(q)
      \/ \E d \in Doc : Accept(d) \/ VoidDocument(d)
      \/ \E p \in Payer, q \in Quote, amount \in Totals : BeginPayment(p, q, amount)
      \/ \E p \in Payer : CommitPayment(p)
      \/ UNCHANGED <<quote, advance, paidTo, paying>>
  BY DEF Next, AskConversion, CreateDocument, EndRequest, HoldStock, RefuseStock,
         RefuseOverride, EnqueueDocument, Submit, Unaccepted, Rejected, RetryDocument,
         AdjustStock, money
<1>. QED
  BY <1>2, <1>3, <1>4, <1>5, <1>6, <1>7, <1>8, <1>9

LEMMA TypesNext ==
    ASSUME BillingInv, TypesOK, [Next]_vars
    PROVE  TypesOK'
<1>1. CASE Next
  BY <1>1, StockTypesNext, DocTypesNext, MoneyTypesNext DEF TypesOK
<1>2. CASE UNCHANGED vars
  BY <1>2 DEF vars, stock, TypesOK, MoneyOK, DocsOK, StockOK
<1>. QED
  BY <1>1, <1>2

-----------------------------------------------------------------------------
(* Numbers *)

\* A document that is not created was not sent, and that of a job keeps its row
\* once it has a job.  SUNAT knows it only by then.
Numbered(d) ==
    /\ doc[d].state \in {"none", "asked"} => doc[d].sunat = "none"
    /\ doc[d].step \in {"out", "answered"} => doc[d].sync
    /\ ~doc[d].sync => /\ doc[d].step = "created" => doc[d].sunat = "none"
                       /\ doc[d].sunat # "none" => Live(d)
                       /\ doc[d].step \in {"held", "queued", "sent", "failed"} => Live(d)

NumbersInv ==
    /\ \A d \in Doc : Numbered(d)
    /\ \A d, e \in Doc : Live(d) /\ Live(e) /\ doc[d].number = doc[e].number => d = e

\* The document d changes.
LEMMA OneNumber ==
    ASSUME NumbersInv, DocsOK, NEW d \in Doc, \A e \in Doc \ {d} : doc'[e] = doc[e],
           Numbered(d)',
           Live(d)' => \/ Live(d) /\ doc'[d].number = doc[d].number
                       \/ \A e \in Doc : Live(e) => doc[e].number < doc'[d].number
    PROVE  NumbersInv'
<1>1. \A e \in Doc : Numbered(e)'
  BY DEF NumbersInv, Numbered, Live
<1>2. \A e \in Doc \ {d} : /\ Live(e)' <=> Live(e)
                           /\ doc'[e].number = doc[e].number
                           /\ doc[e].number \in Nat
  BY DEF Live, DocsOK, DocRow
<1>3. ASSUME NEW e \in Doc \ {d}, Live(e)', Live(d)' PROVE doc'[d].number # doc'[e].number
  BY <1>2, <1>3 DEF NumbersInv
<1>. QED
  BY <1>1, <1>2, <1>3 DEF NumbersInv

\* Only the row of d changes, and of that neither the quote nor the document.
OnlyRow(d) ==
    /\ \A e \in Doc \ {d} : doc'[e] = doc[e]
    /\ doc'[d].quote = doc[d].quote /\ doc'[d].total = doc[d].total
    /\ doc'[d].number = doc[d].number /\ doc'[d].sync = doc[d].sync

\* How far a request or a job comes, and what SUNAT says.
LEMMA ProgressRow ==
    ASSUME DocsOK, NEW d \in Doc
    PROVE  /\ HoldStock(d) =>
                  /\ OnlyRow(d) /\ doc'[d].state = doc[d].state /\ doc'[d].sunat = doc[d].sunat
                  /\ AsksStock(d) /\ doc'[d].step = IF doc[d].sync THEN "done" ELSE "held"
           /\ EnqueueDocument(d) =>
                  /\ OnlyRow(d) /\ doc'[d].state = doc[d].state /\ doc'[d].sunat = doc[d].sunat
                  /\ doc[d].step = "held" /\ doc'[d].step = "queued"
           /\ Submit(d) =>
                  /\ OnlyRow(d) /\ doc'[d].state = doc[d].state
                  /\ \/ doc[d].step = "queued" /\ doc'[d].step = "sent"
                     \/ doc[d].step = "created" /\ doc[d].sync /\ doc'[d].step = "out"
                  /\ doc[d].sunat = "accepted" => doc'[d].sunat = "accepted"
           /\ Unaccepted(d) =>
                  /\ OnlyRow(d) /\ doc'[d].state = doc[d].state /\ doc'[d].sunat = doc[d].sunat
                  /\ \/ doc[d].step = "sent" /\ doc'[d].step = "failed"
                     \/ doc[d].step = "out" /\ doc'[d].step \in {"answered", "done"}
           /\ Rejected(d) =>
                  /\ OnlyRow(d) /\ doc'[d].state = doc[d].state /\ doc'[d].sunat = doc[d].sunat
                  /\ doc[d].sunat = "rejected"
                  /\ doc[d].step = "sent" /\ doc'[d].step = "failed"
           /\ RetryDocument(d) =>
                  /\ OnlyRow(d) /\ doc'[d].state = doc[d].state /\ doc'[d].sunat = doc[d].sunat
                  /\ doc[d].step = "failed" /\ doc'[d].step = "queued"
<1>. USE DEF DocsOK, DocRow, OnlyRow
<1>1. ASSUME HoldStock(d)
      PROVE  /\ OnlyRow(d) /\ doc'[d].state = doc[d].state /\ doc'[d].sunat = doc[d].sunat
             /\ AsksStock(d) /\ doc'[d].step = IF doc[d].sync THEN "done" ELSE "held"
  BY <1>1 DEF HoldStock
<1>2. ASSUME EnqueueDocument(d)
      PROVE  /\ OnlyRow(d) /\ doc'[d].state = doc[d].state /\ doc'[d].sunat = doc[d].sunat
             /\ doc[d].step = "held" /\ doc'[d].step = "queued"
  BY <1>2 DEF EnqueueDocument
<1>3. ASSUME Submit(d)
      PROVE  /\ OnlyRow(d) /\ doc'[d].state = doc[d].state
             /\ \/ doc[d].step = "queued" /\ doc'[d].step = "sent"
                \/ doc[d].step = "created" /\ doc[d].sync /\ doc'[d].step = "out"
             /\ doc[d].sunat = "accepted" => doc'[d].sunat = "accepted"
  BY <1>3 DEF Submit
<1>4. ASSUME Unaccepted(d)
      PROVE  /\ OnlyRow(d) /\ doc'[d].state = doc[d].state /\ doc'[d].sunat = doc[d].sunat
             /\ \/ doc[d].step = "sent" /\ doc'[d].step = "failed"
                \/ doc[d].step = "out" /\ doc'[d].step \in {"answered", "done"}
  BY <1>4 DEF Unaccepted
<1>5. ASSUME Rejected(d)
      PROVE  /\ OnlyRow(d) /\ doc'[d].state = doc[d].state /\ doc'[d].sunat = doc[d].sunat
             /\ doc[d].sunat = "rejected"
             /\ doc[d].step = "sent" /\ doc'[d].step = "failed"
  BY <1>5 DEF Rejected
<1>6. ASSUME RetryDocument(d)
      PROVE  /\ OnlyRow(d) /\ doc'[d].state = doc[d].state /\ doc'[d].sunat = doc[d].sunat
             /\ doc[d].step = "failed" /\ doc'[d].step = "queued"
  BY <1>6 DEF RetryDocument
<1>. HIDE DEF DocsOK, DocRow, OnlyRow
<1>. QED
  BY <1>1, <1>2, <1>3, <1>4, <1>5, <1>6

LEMMA NumbersInit == Init => NumbersInv
BY DEF Init, NewDoc, NumbersInv, Numbered, Live

LEMMA NumbersNext ==
    ASSUME BillingInv, TypesOK, NumbersInv, [Next]_vars
    PROVE  NumbersInv'
<1>. USE DEF Live
<1>1. /\ DocsOK
      /\ \A d \in Doc : Sound(d) /\ Numbered(d)
  BY DEF TypesOK, BillingInv, NumbersInv
<1>2. CASE UNCHANGED doc
  BY <1>2 DEF NumbersInv, Numbered
<1>3. ASSUME NEW d \in Doc, NEW q \in Quote, NEW sync \in BOOLEAN, AskConversion(d, q, sync)
      PROVE  NumbersInv'
  <2>1. /\ \A e \in Doc \ {d} : doc'[e] = doc[e]
        /\ doc[d].state = "none" /\ doc'[d].state = "asked"
        /\ doc'[d].step = doc[d].step /\ doc'[d].sunat = doc[d].sunat
    BY <1>1, <1>3 DEF AskConversion, DocsOK, DocRow
  <2>2. Numbered(d)'
    BY <1>1, <2>1 DEF Numbered, Sound
  <2>. QED
    BY <1>1, <2>1, <2>2, OneNumber
<1>4. ASSUME NEW d \in Doc, CreateDocument(d) PROVE NumbersInv'
  <2>1. /\ \A e \in Doc \ {d} : doc'[e] = doc[e]
        /\ doc[d].state = "asked" /\ doc'[d].state = "pendiente"
        /\ doc'[d].step = "created" /\ doc'[d].sunat = doc[d].sunat
        /\ doc'[d].number = NextNumber
    BY <1>1, <1>4 DEF CreateDocument, DocsOK, DocRow
  <2>2. Numbered(d)'
    BY <1>1, <2>1 DEF Numbered
  <2>3. \A e \in Doc : Live(e) => doc[e].number < doc'[d].number
    BY <1>1, <2>1, NextNumberIsNew
  <2>. QED
    BY <1>1, <2>1, <2>2, <2>3, OneNumber
<1>5. ASSUME NEW d \in Doc, EndRequest(d) PROVE NumbersInv'
  <2>1. CASE doc' = [doc EXCEPT ![d] = NewDoc]
    <3>1. /\ \A e \in Doc \ {d} : doc'[e] = doc[e]
          /\ doc'[d] = NewDoc
      BY <1>1, <2>1 DEF DocsOK
    <3>2. Numbered(d)' /\ ~Live(d)'
      BY <3>1 DEF Numbered, NewDoc
    <3>. QED
      BY <1>1, <3>1, <3>2, OneNumber
  <2>2. CASE doc' = [doc EXCEPT ![d].step = "done"]
    <3>1. /\ \A e \in Doc \ {d} : doc'[e] = doc[e]
          /\ doc'[d].state = doc[d].state /\ doc'[d].sunat = doc[d].sunat
          /\ doc'[d].sync = doc[d].sync /\ doc'[d].number = doc[d].number
          /\ doc'[d].step = "done"
      BY <1>1, <2>2 DEF DocsOK, DocRow
    <3>2. Numbered(d)'
      BY <1>1, <3>1 DEF Numbered
    <3>. QED
      BY <1>1, <3>1, <3>2, OneNumber
  <2>. QED
    BY <1>5, <2>1, <2>2 DEF EndRequest
<1>6. ASSUME NEW d \in Doc, RefuseStock(d) \/ RefuseOverride(d) PROVE NumbersInv'
  <2>1. /\ \A e \in Doc \ {d} : doc'[e] = doc[e]
        /\ doc'[d].state \in {doc[d].state, "deleted"} /\ doc'[d].sunat = doc[d].sunat
        /\ doc'[d].sync = doc[d].sync /\ doc'[d].number = doc[d].number
        /\ doc'[d].step = "done"
    <3>1. CASE RefuseStock(d)
      BY <1>1, <3>1 DEF RefuseStock, DocsOK, DocRow
    <3>2. CASE RefuseOverride(d)
      BY <1>1, <3>2 DEF RefuseOverride, DocsOK, DocRow
    <3>. QED
      BY <1>6, <3>1, <3>2
  <2>2. ~doc[d].sync => doc[d].step = "created"
    BY <1>6 DEF RefuseStock, RefuseOverride, AsksStock
  <2>3. Numbered(d)'
    BY <1>1, <2>1, <2>2 DEF Numbered
  <2>. QED
    BY <1>1, <2>1, <2>3, OneNumber
<1>7. ASSUME NEW d \in Doc,
             \/ HoldStock(d) \/ EnqueueDocument(d) \/ Submit(d) \/ Unaccepted(d)
             \/ Rejected(d) \/ RetryDocument(d)
      PROVE  NumbersInv'
  <2>1. OnlyRow(d) /\ doc'[d].state = doc[d].state
    BY <1>1, <1>7, ProgressRow
  <2>2. Numbered(d)'
    <3>1. Live(d)' <=> Live(d)
      BY <2>1
    <3>2. doc[d].step = "created" /\ ~doc[d].sync => Live(d)
      BY <1>1 DEF Sound
    <3>3. Numbered(d) /\ doc'[d].sync = doc[d].sync
      BY <1>1, <2>1 DEF OnlyRow
    <3>4. doc[d].step # "none" => doc[d].state \notin {"none", "asked"}
      BY <1>1 DEF Sound
    <3>. HIDE DEF Live
    <3>5. CASE HoldStock(d)
      BY <1>1, <2>1, <3>1, <3>2, <3>3, <3>4, <3>5, ProgressRow DEF Numbered, AsksStock
    <3>6. CASE EnqueueDocument(d)
      BY <1>1, <2>1, <3>1, <3>3, <3>6, ProgressRow DEF Numbered
    <3>7. CASE Submit(d)
      BY <1>1, <2>1, <3>1, <3>3, <3>4, <3>7, ProgressRow DEF Numbered
    <3>8. CASE Unaccepted(d)
      BY <1>1, <2>1, <3>1, <3>3, <3>8, ProgressRow DEF Numbered
    <3>9. CASE Rejected(d)
      BY <1>1, <2>1, <3>1, <3>3, <3>9, ProgressRow DEF Numbered
    <3>10. CASE RetryDocument(d)
      BY <1>1, <2>1, <3>1, <3>3, <3>10, ProgressRow DEF Numbered
    <3>. QED
      BY <1>7, <3>5, <3>6, <3>7, <3>8, <3>9, <3>10
  <2>. QED
    BY <1>1, <2>1, <2>2, OneNumber DEF OnlyRow
<1>8. ASSUME NEW d \in Doc, Accept(d) \/ VoidDocument(d) PROVE NumbersInv'
  <2>1. OnlyRow(d) /\ doc'[d].sunat = doc[d].sunat /\ Live(d) /\ Live(d)'
        /\ doc'[d].state \notin {"none", "asked"}
        /\ \/ doc[d].step = "out" /\ doc'[d].step = "answered"
           \/ doc'[d].step \in {"done", doc[d].step}
    <3>1. CASE Accept(d)
      BY <1>1, <3>1 DEF Accept, DocsOK, DocRow, OnlyRow
    <3>2. CASE VoidDocument(d)
      BY <1>1, <3>2 DEF VoidDocument, DocsOK, DocRow, OnlyRow
    <3>. QED
      BY <1>8, <3>1, <3>2
  <2>2. Numbered(d)'
    BY <1>1, <2>1 DEF Numbered, OnlyRow
  <2>. QED
    BY <1>1, <2>1, <2>2, OneNumber DEF OnlyRow
<1>9. \/ \E d \in Doc, q \in Quote, sync \in BOOLEAN : AskConversion(d, q, sync)
      \/ \E d \in Doc :
             \/ CreateDocument(d) \/ EndRequest(d)
             \/ HoldStock(d) \/ RefuseStock(d) \/ RefuseOverride(d)
             \/ EnqueueDocument(d) \/ Submit(d) \/ Accept(d) \/ Unaccepted(d)
             \/ Rejected(d) \/ RetryDocument(d) \/ VoidDocument(d)
      \/ UNCHANGED doc
  BY DEF Next, EditQuote, DeleteQuote, BeginPayment, CommitPayment, AdjustStock, vars
<1>. QED
  BY <1>2, <1>3, <1>4, <1>5, <1>6, <1>7, <1>8, <1>9

LEMMA NumbersSent == NumbersInv => SentNumberStands
BY DEF NumbersInv, Numbered, SentNumberStands

-----------------------------------------------------------------------------
(* Holds *)

\* What the hold of a document says of where the document stands: a job is under
\* way only with its hold, a synchronous request ends with it, goods leave when
\* the document is accepted, and if they are missing the hold stays.
HoldInOrder(d) ==
    /\ hold[d].status = "none" => ~hold[d].authorised /\ ~hold[d].missing
    /\ doc[d].state \in {"none", "asked"} => hold[d].status = "none"
    /\ doc[d].sync /\ hold[d].status # "none" => doc[d].step = "done"
    /\ ~doc[d].sync /\ doc[d].step = "created" => hold[d].status = "none"
    /\ /\ ~doc[d].sync /\ doc[d].state = "pendiente"
       /\ doc[d].step \in {"held", "queued", "sent"}
       => Held(d)
    /\ hold[d].missing => doc[d].sunat = "accepted" /\ doc[d].state # "pendiente"
    /\ hold[d].status = "converted" => doc[d].state # "pendiente"

HoldsInv == \A d \in Doc : HoldInOrder(d)

LEMMA HoldsInit == Init => HoldsInv
BY DEF Init, StockInit, NoHold, NewDoc, HoldsInv, HoldInOrder, Held

\* The document d and its hold change.
LEMMA OneHold ==
    ASSUME HoldsInv, NEW d \in Doc, \A e \in Doc \ {d} : doc'[e] = doc[e],
           \A e \in Doc \ {d} : hold'[e] = hold[e], HoldInOrder(d)'
    PROVE  HoldsInv'
BY DEF HoldsInv, HoldInOrder, Held

\* What the calls of StockHolds do with the hold of d.
LEMMA HoldRows ==
    ASSUME StockOK, NEW d \in Doc
    PROVE  /\ UNCHANGED stock => UNCHANGED hold
           /\ AdjustStock => UNCHANGED hold
           /\ Restore(d) => UNCHANGED hold
           /\ \A n \in Nat, a \in BOOLEAN : Hold(d, n, a) =>
                  /\ \A e \in Doc \ {d} : hold'[e] = hold[e]
                  /\ hold[d].status = "none"
                  /\ hold'[d].status = "active" /\ ~hold'[d].missing
                  /\ hold'[d].quantity = n /\ hold'[d].authorised = a
           /\ Release(d) =>
                  /\ \A e \in Doc \ {d} : hold'[e] = hold[e]
                  /\ hold'[d].status = IF Held(d) THEN "released" ELSE hold[d].status
                  /\ hold'[d].missing = hold[d].missing
                  /\ hold'[d].quantity = hold[d].quantity
                  /\ hold'[d].authorised = hold[d].authorised
           /\ Finalize(d) =>
                  /\ \A e \in Doc \ {d} : hold'[e] = hold[e]
                  /\ hold'[d].quantity = hold[d].quantity
                  /\ hold'[d].authorised = hold[d].authorised
                  /\ \/ ~Held(d) /\ hold'[d] = hold[d]
                     \/ /\ Held(d) /\ hold'[d].status = "converted"
                        /\ hold'[d].missing = hold[d].missing
                     \/ /\ Held(d) /\ hold'[d].status = "active" /\ hold'[d].missing
                        /\ ~hold[d].authorised /\ onHand < hold[d].quantity
<1>. USE DEF StockOK, HoldRow
<1>1. (UNCHANGED stock => UNCHANGED hold) /\ (AdjustStock => UNCHANGED hold)
      /\ (Restore(d) => UNCHANGED hold)
  BY DEF stock, AdjustStock, TakeStock, CountStock, Restore
<1>2. ASSUME NEW n \in Nat, NEW a \in BOOLEAN, Hold(d, n, a)
      PROVE  /\ \A e \in Doc \ {d} : hold'[e] = hold[e]
             /\ hold[d].status = "none"
             /\ hold'[d].status = "active" /\ ~hold'[d].missing
             /\ hold'[d].quantity = n /\ hold'[d].authorised = a
  BY <1>2 DEF Hold
<1>3. ASSUME Release(d)
      PROVE  /\ \A e \in Doc \ {d} : hold'[e] = hold[e]
             /\ hold'[d].status = IF Held(d) THEN "released" ELSE hold[d].status
             /\ hold'[d].missing = hold[d].missing
             /\ hold'[d].quantity = hold[d].quantity
             /\ hold'[d].authorised = hold[d].authorised
  BY <1>3 DEF Release, stock
<1>4. ASSUME Finalize(d)
      PROVE  /\ \A e \in Doc \ {d} : hold'[e] = hold[e]
             /\ hold'[d].quantity = hold[d].quantity
             /\ hold'[d].authorised = hold[d].authorised
             /\ \/ ~Held(d) /\ hold'[d] = hold[d]
                \/ /\ Held(d) /\ hold'[d].status = "converted"
                   /\ hold'[d].missing = hold[d].missing
                \/ /\ Held(d) /\ hold'[d].status = "active" /\ hold'[d].missing
                   /\ ~hold[d].authorised /\ onHand < hold[d].quantity
  <2>1. CASE ~Held(d)
    BY <1>4, <2>1 DEF Finalize, stock
  <2>2. CASE Held(d) /\ (hold[d].authorised \/ onHand >= hold[d].quantity)
    BY <1>4, <2>2 DEF Finalize
  <2>3. CASE Held(d) /\ ~(hold[d].authorised \/ onHand >= hold[d].quantity)
    BY <1>4, <2>3 DEF Finalize, Held
  <2>. QED
    BY <2>1, <2>2, <2>3
<1>. HIDE DEF StockOK, HoldRow
<1>. QED
  BY <1>1, <1>2, <1>3, <1>4

LEMMA HoldsNext ==
    ASSUME BillingInv, TypesOK, NumbersInv, HoldsInv, [Next]_vars
    PROVE  HoldsInv'
<1>1. /\ DocsOK /\ StockOK
      /\ \A d \in Doc : /\ Sound(d) /\ Numbered(d) /\ HoldInOrder(d)
                        /\ doc[d].total \in Nat /\ doc[d].sync \in BOOLEAN
  BY DEF TypesOK, BillingInv, NumbersInv, HoldsInv, DocsOK, DocRow
<1>2. ASSUME UNCHANGED <<doc, hold>> PROVE HoldsInv'
  BY <1>2 DEF HoldsInv, HoldInOrder, Held
<1>3. ASSUME NEW d \in Doc, NEW q \in Quote, NEW sync \in BOOLEAN, AskConversion(d, q, sync)
      PROVE  HoldsInv'
  <2>1. /\ \A e \in Doc \ {d} : doc'[e] = doc[e]
        /\ doc[d].state = "none" /\ doc'[d].state = "asked"
        /\ UNCHANGED hold
    BY <1>1, <1>3 DEF AskConversion, DocsOK, DocRow, stock
  <2>2. hold[d].status = "none" /\ ~hold[d].missing /\ ~hold[d].authorised
    BY <1>1, <2>1 DEF HoldInOrder
  <2>3. HoldInOrder(d)'
    BY <2>1, <2>2 DEF HoldInOrder, Held
  <2>. QED
    BY <2>1, <2>3, OneHold
<1>4. ASSUME NEW d \in Doc, CreateDocument(d) PROVE HoldsInv'
  <2>1. /\ \A e \in Doc \ {d} : doc'[e] = doc[e]
        /\ doc[d].state = "asked" /\ doc'[d].step = "created"
        /\ UNCHANGED hold
    BY <1>1, <1>4 DEF CreateDocument, DocsOK, DocRow, stock
  <2>2. hold[d].status = "none" /\ ~hold[d].missing /\ ~hold[d].authorised
    BY <1>1, <2>1 DEF HoldInOrder
  <2>3. HoldInOrder(d)'
    BY <2>1, <2>2 DEF HoldInOrder, Held
  <2>. QED
    BY <2>1, <2>3, OneHold
<1>5. ASSUME NEW d \in Doc, EndRequest(d) PROVE HoldsInv'
  <2>0. UNCHANGED hold
    BY <1>5 DEF EndRequest, stock
  <2>1. CASE doc[d].state = "asked" /\ doc' = [doc EXCEPT ![d] = NewDoc]
    <3>1. /\ \A e \in Doc \ {d} : doc'[e] = doc[e]
          /\ doc'[d].state = "none"
      BY <1>1, <2>1 DEF DocsOK, NewDoc
    <3>2. hold[d].status = "none" /\ ~hold[d].missing /\ ~hold[d].authorised
      BY <1>1, <2>1 DEF HoldInOrder
    <3>3. HoldInOrder(d)'
      BY <2>0, <3>1, <3>2 DEF HoldInOrder, Held
    <3>. QED
      BY <2>0, <3>1, <3>3, OneHold
  <2>2. CASE doc' = [doc EXCEPT ![d].step = "done"]
    <3>1. /\ \A e \in Doc \ {d} : doc'[e] = doc[e]
          /\ doc'[d].state = doc[d].state /\ doc'[d].sunat = doc[d].sunat
          /\ doc'[d].step = "done"
      BY <1>1, <2>2 DEF DocsOK, DocRow
    <3>2. HoldInOrder(d)'
      BY <1>1, <2>0, <3>1 DEF HoldInOrder, Held
    <3>. QED
      BY <2>0, <3>1, <3>2, OneHold
  <2>. QED
    BY <1>5, <2>1, <2>2 DEF EndRequest
<1>6. ASSUME NEW d \in Doc, RefuseStock(d) \/ RefuseOverride(d) PROVE HoldsInv'
  <2>1. /\ \A e \in Doc \ {d} : doc'[e] = doc[e]
        /\ doc'[d].state \in {doc[d].state, "deleted"} /\ doc'[d].step = "done"
        /\ doc'[d].sunat = doc[d].sunat
        /\ AsksStock(d) /\ UNCHANGED hold
    <3>1. CASE RefuseStock(d)
      BY <1>1, <3>1 DEF RefuseStock, DocsOK, DocRow, stock
    <3>2. CASE RefuseOverride(d)
      BY <1>1, <3>2 DEF RefuseOverride, DocsOK, DocRow, stock
    <3>. QED
      BY <1>6, <3>1, <3>2
  <2>2. HoldInOrder(d)'
    BY <1>1, <2>1 DEF HoldInOrder, Held
  <2>. QED
    BY <2>1, <2>2, OneHold
<1>7. ASSUME NEW d \in Doc, HoldStock(d) PROVE HoldsInv'
  <2>1. PICK a \in BOOLEAN : Hold(d, doc[d].total, a)
    BY <1>7 DEF HoldStock
  <2>2. /\ \A e \in Doc \ {d} : hold'[e] = hold[e]
        /\ hold'[d].status = "active" /\ ~hold'[d].missing
    BY <1>1, <2>1, HoldRows
  <2>3. /\ OnlyRow(d) /\ doc'[d].state = doc[d].state
        /\ AsksStock(d) /\ doc'[d].step = IF doc[d].sync THEN "done" ELSE "held"
    BY <1>1, <1>7, ProgressRow
  <2>4. doc[d].state \notin {"none", "asked"} /\ doc'[d].sync = doc[d].sync
    BY <1>1, <2>3 DEF Sound, AsksStock, OnlyRow
  <2>5. HoldInOrder(d)'
    BY <1>1, <2>2, <2>3, <2>4 DEF HoldInOrder, Held
  <2>. QED
    BY <2>2, <2>3, <2>5, OneHold DEF OnlyRow
<1>8. ASSUME NEW d \in Doc, EnqueueDocument(d) \/ Submit(d) \/ Unaccepted(d) \/ RetryDocument(d)
      PROVE  HoldsInv'
  <2>1. /\ OnlyRow(d) /\ doc'[d].state = doc[d].state
        /\ doc[d].sunat = "accepted" => doc'[d].sunat = "accepted"
    BY <1>1, <1>8, ProgressRow
  <2>2. UNCHANGED hold
    BY <1>8 DEF EnqueueDocument, Submit, Unaccepted, RetryDocument, stock
  <2>3. /\ doc[d].step # "done" /\ doc'[d].step # "created"
        /\ doc'[d].step \in {"held", "queued", "sent"} /\ ~doc[d].sync
           => doc[d].step \in {"held", "queued", "sent"} \/ Held(d)
    <3>1. RetryDocument(d) => Held(d)
      BY DEF RetryDocument
    <3>. QED
      BY <1>1, <1>8, <3>1, ProgressRow
  <2>4. HoldInOrder(d) /\ doc'[d].sync = doc[d].sync
    BY <1>1, <2>1 DEF OnlyRow
  <2>5. HoldInOrder(d)'
    BY <2>1, <2>2, <2>3, <2>4 DEF HoldInOrder, Held
  <2>. QED
    BY <2>1, <2>2, <2>5, OneHold DEF OnlyRow
<1>9. ASSUME NEW d \in Doc, Rejected(d) PROVE HoldsInv'
  <2>1. /\ OnlyRow(d) /\ doc'[d].state = doc[d].state /\ doc'[d].sunat = doc[d].sunat
        /\ doc[d].sunat = "rejected"
        /\ doc[d].step = "sent" /\ doc'[d].step = "failed"
    BY <1>1, <1>9, ProgressRow
  <2>2. /\ \A e \in Doc \ {d} : hold'[e] = hold[e]
        /\ hold'[d].status = IF Held(d) THEN "released" ELSE hold[d].status
        /\ hold'[d].missing = hold[d].missing
        /\ hold'[d].authorised = hold[d].authorised
    BY <1>1, <1>9, HoldRows DEF Rejected
  <2>3. HoldInOrder(d)'
    BY <1>1, <2>1, <2>2 DEF HoldInOrder, Held, OnlyRow
  <2>. QED
    BY <2>1, <2>2, <2>3, OneHold DEF OnlyRow
<1>10. ASSUME NEW d \in Doc, Accept(d) PROVE HoldsInv'
  <2>1. /\ OnlyRow(d) /\ doc[d].state = "pendiente" /\ doc'[d].state = "facturada"
        /\ doc'[d].sunat = "accepted"
        /\ doc[d].step \in {"sent", "out"} /\ doc'[d].step \in {"answered", "done"}
    BY <1>1, <1>10 DEF Accept, DocsOK, DocRow, OnlyRow
  <2>2. /\ \A e \in Doc \ {d} : hold'[e] = hold[e]
        /\ \/ ~Held(d) /\ hold'[d] = hold[d]
           \/ Held(d) /\ hold'[d].status \in {"converted", "active"}
    BY <1>1, <1>10, HoldRows DEF Accept
  <2>3. HoldInOrder(d)'
    BY <1>1, <2>1, <2>2 DEF HoldInOrder, Held, OnlyRow
  <2>. QED
    BY <2>1, <2>2, <2>3, OneHold DEF OnlyRow
<1>11. ASSUME NEW d \in Doc, VoidDocument(d) PROVE HoldsInv'
  <2>1. /\ OnlyRow(d) /\ doc'[d].state = "anulada" /\ doc[d].state = "facturada"
        /\ doc'[d].sunat = doc[d].sunat /\ doc'[d].step = doc[d].step
        /\ UNCHANGED hold
    BY <1>1, <1>11, HoldRows DEF VoidDocument, DocsOK, DocRow, OnlyRow
  <2>2. HoldInOrder(d)'
    BY <1>1, <2>1 DEF HoldInOrder, Held, OnlyRow
  <2>. QED
    BY <2>1, <2>2, OneHold DEF OnlyRow
<1>12. \/ \E d \in Doc, q \in Quote, sync \in BOOLEAN : AskConversion(d, q, sync)
       \/ \E d \in Doc :
              \/ CreateDocument(d) \/ EndRequest(d)
              \/ HoldStock(d) \/ RefuseStock(d) \/ RefuseOverride(d)
              \/ EnqueueDocument(d) \/ Submit(d) \/ Accept(d) \/ Unaccepted(d)
              \/ Rejected(d) \/ RetryDocument(d) \/ VoidDocument(d)
       \/ UNCHANGED <<doc, hold>>
  BY <1>1, HoldRows DEF Next, EditQuote, DeleteQuote, BeginPayment, CommitPayment, AdjustStock,
     TakeStock, CountStock, vars, stock
<1>. QED
  BY <1>2, <1>3, <1>4, <1>5, <1>6, <1>7, <1>8, <1>9, <1>10, <1>11, <1>12

-----------------------------------------------------------------------------
(* What the holds add up to *)

Amounts == [d \in Doc |-> hold[d].quantity]

Promised == {d \in Doc : Held(d) /\ ~hold[d].missing}

Authorised == {d \in Doc : hold[d].authorised}

\* The goods that are gone.
Out == {d \in Doc : hold[d].status = "converted" /\ doc[d].state = "facturada"}

\* The properties, with names for their sums.
LEMMA StockParts ==
    /\ PromisesStand <=> /\ committed = SumFunctionOnSet(Amounts, Promised)
                         /\ committed <= onHand + taken + SumFunctionOnSet(Amounts, Authorised)
    /\ PromisesStand' <=> /\ committed' = SumFunctionOnSet(Amounts', Promised')
                          /\ committed' <= onHand' + taken' + SumFunctionOnSet(Amounts', Authorised')
    /\ SoldIsGone <=> /\ onHand = InitialStock - taken + counted - SumFunctionOnSet(Amounts, Out)
                      /\ \A d \in Doc : doc[d].state = "facturada" /\ ~doc[d].sync /\ d \notin Out =>
                             hold[d].missing /\ (taken > 0 \/ Authorised # {})
    /\ SoldIsGone' <=> /\ onHand' = InitialStock - taken' + counted' - SumFunctionOnSet(Amounts', Out')
                       /\ \A d \in Doc : doc'[d].state = "facturada" /\ ~doc'[d].sync /\ d \notin Out' =>
                             hold'[d].missing /\ (taken' > 0 \/ Authorised' # {})
<1>1. PromisesStand <=> /\ committed = SumFunctionOnSet(Amounts, Promised)
                        /\ committed <= onHand + taken + SumFunctionOnSet(Amounts, Authorised)
  BY DEF PromisesStand, Quantity, Amounts, Promised, Authorised
<1>2. PromisesStand' <=> /\ committed' = SumFunctionOnSet(Amounts', Promised')
                         /\ committed' <= onHand' + taken' + SumFunctionOnSet(Amounts', Authorised')
  BY DEF PromisesStand, Quantity, Amounts, Promised, Authorised
<1>3. (\E e \in Doc : hold[e].authorised) <=> Authorised # {}
  BY DEF Authorised
<1>4. (\E e \in Doc : hold'[e].authorised) <=> Authorised' # {}
  BY DEF Authorised
<1>5. SoldIsGone <=> /\ onHand = InitialStock - taken + counted - SumFunctionOnSet(Amounts, Out)
                     /\ \A d \in Doc : doc[d].state = "facturada" /\ ~doc[d].sync /\ d \notin Out =>
                             hold[d].missing /\ (taken > 0 \/ Authorised # {})
  BY <1>3 DEF SoldIsGone, Quantity, Amounts, Out
<1>6. SoldIsGone' <=> /\ onHand' = InitialStock - taken' + counted' - SumFunctionOnSet(Amounts', Out')
                      /\ \A d \in Doc : doc'[d].state = "facturada" /\ ~doc'[d].sync /\ d \notin Out' =>
                             hold'[d].missing /\ (taken' > 0 \/ Authorised' # {})
  BY <1>4 DEF SoldIsGone, Quantity, Amounts, Out
<1>. QED
  BY <1>1, <1>2, <1>5, <1>6

LEMMA AmountsNat ==
    ASSUME StockOK
    PROVE  /\ \A d \in Doc : Amounts[d] = hold[d].quantity /\ Amounts[d] \in Nat
           /\ \A D \in SUBSET Doc : IsFiniteSet(D) /\ SumFunctionOnSet(Amounts, D) \in Nat
<1>1. \A d \in Doc : Amounts[d] = hold[d].quantity /\ Amounts[d] \in Nat
  BY DEF StockOK, HoldRow, Amounts
<1>2. ASSUME NEW D \in SUBSET Doc PROVE IsFiniteSet(D) /\ SumFunctionOnSet(Amounts, D) \in Nat
  <2>1. IsFiniteSet(D)
    BY StockAssumption, FS_Subset
  <2>. QED
    BY <1>1, <2>1, SumNat
<1>. QED
  BY <1>1, <1>2

\* Only the hold of d changes, and with it whether d is among the holds that are
\* summed.
LEMMA HoldsChange ==
    ASSUME StockOK, StockOK', NEW d \in Doc, \A e \in Doc \ {d} : hold'[e] = hold[e],
           NEW P \in SUBSET Doc, NEW Q \in SUBSET Doc, P \ {d} = Q \ {d}
    PROVE  /\ SumFunctionOnSet(Amounts, P) \in Nat
           /\ SumFunctionOnSet(Amounts', Q)
                  = SumFunctionOnSet(Amounts, P) - (IF d \in P THEN hold[d].quantity ELSE 0)
                                                 + (IF d \in Q THEN hold'[d].quantity ELSE 0)
<1>1. \A e \in Doc : Amounts[e] = hold[e].quantity /\ Amounts[e] \in Nat
  BY AmountsNat
<1>2. \A e \in Doc : Amounts'[e] = hold'[e].quantity /\ Amounts'[e] \in Nat
  BY DEF StockOK, HoldRow, Amounts
<1>3. \A e \in P \ {d} : Amounts[e] = Amounts'[e]
  BY <1>1, <1>2
<1>4. IsFiniteSet(Doc) /\ SumFunctionOnSet(Amounts, P) \in Nat
  BY AmountsNat, StockAssumption
<1>5. SumFunctionOnSet(Amounts', Q) = SumFunctionOnSet(Amounts, P) - Share(Amounts, P, d)
                                           + Share(Amounts', Q, d)
  <2>. DEFINE f == Amounts
              g == Amounts'
  <2>1. /\ \A e \in P : f[e] \in Int
        /\ \A e \in Q : g[e] \in Int
        /\ \A e \in P \ {d} : f[e] = g[e]
    BY <1>1, <1>2, <1>3
  <2>. HIDE DEF f, g
  <2>2. SumFunctionOnSet(g, Q) = SumFunctionOnSet(f, P) - Share(f, P, d) + Share(g, Q, d)
    BY <1>4, <2>1, SumChange
  <2>. QED
    BY <2>2 DEF f, g
<1>6. Share(Amounts, P, d) = IF d \in P THEN hold[d].quantity ELSE 0
  BY <1>1 DEF Share
<1>7. Share(Amounts', Q, d) = IF d \in Q THEN hold'[d].quantity ELSE 0
  BY <1>2 DEF Share
<1>. QED
  BY <1>4, <1>5, <1>6, <1>7

\* An open hold is committed.
LEMMA HoldIsCommitted ==
    ASSUME StockOK, PromisesStand, NEW d \in Promised
    PROVE  hold[d].quantity <= committed
<1>1. Promised \in SUBSET Doc /\ {d} \in SUBSET Promised
  BY DEF Promised
<1>2. IsFiniteSet(Promised) /\ \A e \in Promised : Amounts[e] \in Nat
  BY <1>1, AmountsNat
<1>. DEFINE f == Amounts
<1>. HIDE DEF f
<1>3. SumFunctionOnSet(f, Promised) = f[d] + SumFunctionOnSet(f, Promised \ {d})
  BY <1>2, SumRemove DEF f
<1>4. SumFunctionOnSet(f, Promised \ {d}) \in Nat
  BY <1>1, AmountsNat DEF f
<1>5. f[d] = hold[d].quantity /\ f[d] \in Nat
  BY <1>1, AmountsNat DEF f
<1>6. committed = SumFunctionOnSet(f, Promised)
  BY StockParts DEF f
<1>. QED
  BY <1>3, <1>4, <1>5, <1>6

\* A hold that ends, with its goods or without, or stays without them.
LEMMA PromiseEnds ==
    ASSUME StockOK, StockOK', PromisesStand, NEW d \in Promised,
           \A e \in Doc \ {d} : hold'[e] = hold[e],
           hold'[d].quantity = hold[d].quantity, hold'[d].authorised = hold[d].authorised,
           hold'[d].status # "active" \/ hold'[d].missing,
           committed' = Uncommitted(d), UNCHANGED taken,
           onHand' = onHand \/ onHand' = onHand - hold[d].quantity
    PROVE  PromisesStand'
<1>. DEFINE n == hold[d].quantity
            C == SumFunctionOnSet(Amounts, Promised)
            C1 == SumFunctionOnSet(Amounts', Promised')
            A == SumFunctionOnSet(Amounts, Authorised)
            A1 == SumFunctionOnSet(Amounts', Authorised')
<1>1. d \in Doc /\ Promised \in SUBSET Doc /\ Promised' \in SUBSET Doc
      /\ Authorised \in SUBSET Doc /\ Authorised' \in SUBSET Doc
  BY DEF Promised, Authorised
<1>2. Promised \ {d} = Promised' \ {d} /\ d \notin Promised'
  BY <1>1 DEF Promised, Held
<1>3. Authorised' = Authorised
  BY <1>1 DEF Authorised
<1>4. C1 = C - n /\ C \in Nat
  <2>1. SumFunctionOnSet(Amounts', Promised')
            = SumFunctionOnSet(Amounts, Promised) - (IF d \in Promised THEN hold[d].quantity ELSE 0)
                  + (IF d \in Promised' THEN hold'[d].quantity ELSE 0)
        /\ C \in Nat
    BY <1>1, <1>2, HoldsChange
  <2>2. n \in Nat
    BY <1>1 DEF StockOK, HoldRow
  <2>. HIDE DEF C, C1
  <2>. QED
    BY <1>2, <2>1, <2>2 DEF C, C1
<1>5. A1 = A /\ A \in Nat
  <2>1. SumFunctionOnSet(Amounts', Authorised')
            = SumFunctionOnSet(Amounts, Authorised) - (IF d \in Authorised THEN hold[d].quantity ELSE 0)
                  + (IF d \in Authorised' THEN hold'[d].quantity ELSE 0)
        /\ A \in Nat
    BY <1>1, <1>3, HoldsChange
  <2>2. n \in Nat
    BY <1>1 DEF StockOK, HoldRow
  <2>. HIDE DEF A, A1
  <2>. QED
    BY <1>3, <2>1, <2>2 DEF A, A1
<1>6. committed = C /\ committed <= onHand + taken + A
  BY StockParts
<1>7. n \in Nat /\ n <= committed /\ committed \in Nat
  BY <1>1, HoldIsCommitted DEF StockOK, HoldRow
<1>8. committed' = committed - n
  BY <1>7 DEF Uncommitted, AtLeastZero
<1>9. onHand \in Int /\ taken \in Nat
  BY DEF StockOK
<1>10. onHand' = onHand \/ onHand' = onHand - n
  OBVIOUS
<1>. HIDE DEF n, C, C1, A, A1
<1>11. committed' = C1
  BY <1>4, <1>6, <1>8
<1>12. committed' <= onHand' + taken' + A1
  BY <1>5, <1>6, <1>7, <1>8, <1>9, <1>10
<1>. QED
  BY <1>11, <1>12, StockParts DEF C1, A1

LEMMA PromiseBegins ==
    ASSUME StockOK, StockOK', PromisesStand, NEW d \in Doc, NEW n \in Nat, NEW a \in BOOLEAN,
           Hold(d, n, a), ~hold[d].authorised
    PROVE  PromisesStand'
<1>. DEFINE C == SumFunctionOnSet(Amounts, Promised)
            C1 == SumFunctionOnSet(Amounts', Promised')
            A == SumFunctionOnSet(Amounts, Authorised)
            A1 == SumFunctionOnSet(Amounts', Authorised')
<1>1. /\ \A e \in Doc \ {d} : hold'[e] = hold[e]
      /\ hold[d].status = "none"
      /\ hold'[d].status = "active" /\ ~hold'[d].missing
      /\ hold'[d].quantity = n /\ hold'[d].authorised = a
  BY HoldRows
<1>2. Promised \in SUBSET Doc /\ Promised' \in SUBSET Doc
      /\ Authorised \in SUBSET Doc /\ Authorised' \in SUBSET Doc
  BY DEF Promised, Authorised
<1>3. /\ Promised \ {d} = Promised' \ {d} /\ d \notin Promised /\ d \in Promised'
      /\ Authorised \ {d} = Authorised' \ {d} /\ d \notin Authorised /\ (d \in Authorised' <=> a)
  BY <1>1 DEF Promised, Authorised, Held
<1>4. C1 = C + n /\ C \in Nat
  <2>1. SumFunctionOnSet(Amounts', Promised')
            = SumFunctionOnSet(Amounts, Promised) - (IF d \in Promised THEN hold[d].quantity ELSE 0)
                  + (IF d \in Promised' THEN hold'[d].quantity ELSE 0)
        /\ C \in Nat
    BY <1>1, <1>2, <1>3, HoldsChange
  <2>. HIDE DEF C, C1
  <2>. QED
    BY <1>1, <1>3, <2>1 DEF C, C1
<1>5. A1 = A + (IF a THEN n ELSE 0) /\ A \in Nat
  <2>1. SumFunctionOnSet(Amounts', Authorised')
            = SumFunctionOnSet(Amounts, Authorised) - (IF d \in Authorised THEN hold[d].quantity ELSE 0)
                  + (IF d \in Authorised' THEN hold'[d].quantity ELSE 0)
        /\ A \in Nat
    BY <1>1, <1>2, <1>3, HoldsChange
  <2>. HIDE DEF A, A1
  <2>. QED
    BY <1>1, <1>3, <2>1 DEF A, A1
<1>6. committed = C /\ committed <= onHand + taken + A
  BY StockParts
<1>7. /\ committed' = committed + n /\ UNCHANGED <<onHand, taken>>
      /\ ~a => n <= onHand - committed
  BY DEF Hold, FreeStock
<1>8. onHand \in Int /\ taken \in Nat /\ committed \in Nat
  BY DEF StockOK
<1>. HIDE DEF C, C1, A, A1
<1>9. committed' = C1
  BY <1>4, <1>6, <1>7
<1>10. committed' <= onHand' + taken' + A1
  <2>1. CASE a
    BY <1>5, <1>6, <1>7, <1>8, <2>1
  <2>2. CASE ~a
    BY <1>5, <1>6, <1>7, <1>8, <2>2
  <2>. QED
    BY <2>1, <2>2
<1>. QED
  BY <1>9, <1>10, StockParts DEF C1, A1

\* No hold changes, and what is promised is still there.
LEMMA PromisesKept ==
    ASSUME StockOK, PromisesStand, UNCHANGED hold, UNCHANGED committed, StockOK',
           onHand' + taken' >= onHand + taken \/ committed <= onHand' + taken'
    PROVE  PromisesStand'
<1>. DEFINE C == SumFunctionOnSet(Amounts, Promised)
            A == SumFunctionOnSet(Amounts, Authorised)
<1>1. Amounts' = Amounts /\ Promised' = Promised /\ Authorised' = Authorised
  BY DEF Amounts, Promised, Authorised, Held
<1>2. A \in Nat
  <2>1. Authorised \in SUBSET Doc
    BY DEF Authorised
  <2>. QED
    BY <2>1, AmountsNat
<1>3. committed = C /\ committed <= onHand + taken + A
  BY StockParts
<1>4. SumFunctionOnSet(Amounts', Promised') = C /\ SumFunctionOnSet(Amounts', Authorised') = A
  BY <1>1
<1>5. onHand \in Int /\ taken \in Nat /\ committed \in Nat /\ onHand' \in Int /\ taken' \in Nat
  BY DEF StockOK
<1>. HIDE DEF C, A
<1>6. committed' = committed
  OBVIOUS
<1>7. committed <= onHand' + taken' + A
  <2>1. \A h, g \in Int, t, r, c, a \in Nat :
            (g + r >= h + t /\ c <= h + t + a) \/ c <= g + r => c <= g + r + a
    OBVIOUS
  <2>. QED
    BY <1>2, <1>3, <1>5, <2>1
<1>. QED
  BY <1>3, <1>4, <1>6, <1>7, StockParts DEF C, A

LEMMA PromisesNext ==
    ASSUME BillingInv, TypesOK, NumbersInv, HoldsInv, PromisesStand, [Next]_vars
    PROVE  PromisesStand'
<1>1. StockOK /\ StockOK' /\ \A d \in Doc : doc[d].total \in Nat /\ HoldInOrder(d)
  BY TypesNext DEF TypesOK, HoldsInv, DocsOK, DocRow
<1>2. CASE UNCHANGED stock
  <2>1. UNCHANGED hold /\ UNCHANGED committed /\ UNCHANGED onHand /\ UNCHANGED taken
    BY <1>2 DEF stock
  <2>2. onHand' + taken' >= onHand + taken
    BY <1>1, <2>1 DEF StockOK
  <2>. QED
    BY <1>1, <2>1, <2>2, PromisesKept
<1>3. ASSUME NEW d \in Doc, NEW a \in BOOLEAN, HoldStock(d), Hold(d, doc[d].total, a)
      PROVE  PromisesStand'
  <2>1. ~hold[d].authorised
    BY <1>1, <1>3 DEF Hold, HoldInOrder
  <2>. QED
    BY <1>1, <1>3, <2>1, PromiseBegins
<1>4. ASSUME NEW d \in Doc, Accept(d), Finalize(d) PROVE PromisesStand'
  <2>1. ~hold[d].missing
    BY <1>1, <1>4 DEF Accept, HoldInOrder
  <2>2. CASE ~Held(d)
    BY <1>2, <1>4, <2>2 DEF Finalize
  <2>3. CASE Held(d)
    <3>1. d \in Promised
      BY <2>1, <2>3 DEF Promised
    <3>2. /\ \A e \in Doc \ {d} : hold'[e] = hold[e]
          /\ hold'[d].quantity = hold[d].quantity
          /\ hold'[d].authorised = hold[d].authorised
          /\ hold'[d].status # "active" \/ hold'[d].missing
      BY <1>1, <1>4, <2>3, HoldRows
    <3>3. /\ committed' = Uncommitted(d) /\ UNCHANGED taken
          /\ onHand' = onHand \/ onHand' = onHand - hold[d].quantity
      BY <1>4, <2>3 DEF Finalize, manual
    <3>. QED
      BY <1>1, <3>1, <3>2, <3>3, PromiseEnds
  <2>. QED
    BY <2>2, <2>3
<1>5. ASSUME NEW d \in Doc, Rejected(d), Release(d) PROVE PromisesStand'
  <2>1. ~hold[d].missing
    BY <1>1, <1>5 DEF Rejected, HoldInOrder
  <2>2. CASE ~Held(d)
    BY <1>2, <1>5, <2>2 DEF Release
  <2>3. CASE Held(d)
    <3>1. d \in Promised
      BY <2>1, <2>3 DEF Promised
    <3>2. /\ \A e \in Doc \ {d} : hold'[e] = hold[e]
          /\ hold'[d].quantity = hold[d].quantity
          /\ hold'[d].authorised = hold[d].authorised
          /\ hold'[d].status # "active"
      BY <1>1, <1>5, <2>3, HoldRows
    <3>3. committed' = Uncommitted(d) /\ UNCHANGED taken /\ onHand' = onHand
      BY <1>5, <2>3 DEF Release, manual
    <3>. QED
      BY <1>1, <3>1, <3>2, <3>3, PromiseEnds
  <2>. QED
    BY <2>2, <2>3
<1>6. ASSUME NEW d \in Doc, Restore(d) PROVE PromisesStand'
  <2>1. onHand \in Int /\ taken \in Nat /\ hold[d].quantity \in Nat
    BY <1>1 DEF StockOK, HoldRow
  <2>2. UNCHANGED <<hold, committed, taken>> /\ onHand' + taken' >= onHand + taken
    BY <1>6, <2>1 DEF Restore, manual
  <2>. QED
    BY <1>1, <2>2, PromisesKept
<1>7. CASE AdjustStock
  <2>1. ASSUME NEW n \in Totals, TakeStock(n) PROVE PromisesStand'
    <3>1. onHand \in Int /\ taken \in Nat /\ n \in Nat
      BY <1>1 DEF StockOK, Totals
    <3>2. UNCHANGED <<hold, committed>> /\ onHand' + taken' >= onHand + taken
      BY <2>1, <3>1 DEF TakeStock
    <3>. QED
      BY <1>1, <3>2, PromisesKept
  <2>2. ASSUME NEW n \in 0 .. InitialStock, CountStock(n) PROVE PromisesStand'
    <3>1. taken \in Nat /\ committed \in Nat /\ n \in Int
      BY <1>1 DEF StockOK
    <3>2. UNCHANGED <<hold, committed>> /\ committed <= onHand' + taken'
      BY <2>2, <3>1 DEF CountStock, Countable
    <3>. QED
      BY <1>1, <3>2, PromisesKept
  <2>. QED
    BY <1>7, <2>1, <2>2 DEF AdjustStock
<1>. QED
  BY <1>2, <1>3, <1>4, <1>5, <1>6, <1>7, StockSteps DEF vars

\* Only an acceptance makes a sale, and only a cancellation takes one back whose
\* goods are gone.
LEMMA SalesKept ==
    ASSUME BillingInv, TypesOK, HoldsInv, [Next]_vars,
           ~ \E d \in Doc : Accept(d) \/ VoidDocument(d)
    PROVE  \A e \in Doc : /\ doc'[e].state = "facturada" =>
                                 doc[e].state = "facturada" /\ doc'[e].sync = doc[e].sync
                          /\ e \in Out => doc'[e].state = "facturada"
<1>1. /\ DocsOK
      /\ \A d \in Doc : Sound(d) /\ HoldInOrder(d)
  BY DEF TypesOK, BillingInv, HoldsInv
<1>2. CASE UNCHANGED doc
  BY <1>2 DEF Out
<1>3. ASSUME NEW d \in Doc, CreateDocument(d) \/ \E q \in Quote, sync \in BOOLEAN : AskConversion(d, q, sync)
      PROVE  /\ \A e \in Doc \ {d} : doc'[e] = doc[e]
             /\ doc[d].state # "facturada" /\ doc'[d].state # "facturada"
  BY <1>1, <1>3 DEF CreateDocument, AskConversion, DocsOK, DocRow
<1>4. ASSUME NEW d \in Doc, EndRequest(d)
      PROVE  /\ \A e \in Doc \ {d} : doc'[e] = doc[e]
             /\ doc'[d].state = "facturada" <=> doc[d].state = "facturada"
             /\ doc[d].state = "facturada" => doc'[d].sync = doc[d].sync
  <2>1. CASE doc[d].state = "asked" /\ doc' = [doc EXCEPT ![d] = NewDoc]
    BY <1>1, <2>1 DEF DocsOK, NewDoc
  <2>2. CASE doc' = [doc EXCEPT ![d].step = "done"]
    BY <1>1, <2>2 DEF DocsOK, DocRow
  <2>. QED
    BY <1>4, <2>1, <2>2 DEF EndRequest
<1>5. ASSUME NEW d \in Doc, RefuseStock(d) \/ RefuseOverride(d)
      PROVE  /\ \A e \in Doc \ {d} : doc'[e] = doc[e]
             /\ doc'[d].state = "facturada" => doc[d].state = "facturada"
             /\ doc'[d].sync = doc[d].sync
             /\ d \notin Out
  <2>1. hold[d].status # "converted"
    BY <1>1, <1>5 DEF RefuseStock, RefuseOverride, AsksStock, HoldInOrder
  <2>2. CASE RefuseStock(d)
    BY <1>1, <2>1, <2>2 DEF RefuseStock, DocsOK, DocRow, Out
  <2>3. CASE RefuseOverride(d)
    BY <1>1, <2>1, <2>3 DEF RefuseOverride, DocsOK, DocRow, Out
  <2>. QED
    BY <1>5, <2>2, <2>3
<1>6. ASSUME NEW d \in Doc,
             \/ HoldStock(d) \/ EnqueueDocument(d) \/ Submit(d) \/ Unaccepted(d)
             \/ Rejected(d) \/ RetryDocument(d)
      PROVE  /\ \A e \in Doc \ {d} : doc'[e] = doc[e]
             /\ doc'[d].state = doc[d].state /\ doc'[d].sync = doc[d].sync
  BY <1>1, <1>6, ProgressRow DEF OnlyRow
<1>7. ASSUME NEW d \in Doc,
             \/ CreateDocument(d) \/ \E q \in Quote, sync \in BOOLEAN : AskConversion(d, q, sync)
      PROVE  \A e \in Doc : /\ doc'[e].state = "facturada" =>
                                   doc[e].state = "facturada" /\ doc'[e].sync = doc[e].sync
                            /\ e \in Out => doc'[e].state = "facturada"
  BY <1>3, <1>7 DEF Out
<1>8. ASSUME NEW d \in Doc, EndRequest(d)
      PROVE  \A e \in Doc : /\ doc'[e].state = "facturada" =>
                                   doc[e].state = "facturada" /\ doc'[e].sync = doc[e].sync
                            /\ e \in Out => doc'[e].state = "facturada"
  BY <1>4, <1>8 DEF Out
<1>9. ASSUME NEW d \in Doc, RefuseStock(d) \/ RefuseOverride(d)
       PROVE  \A e \in Doc : /\ doc'[e].state = "facturada" =>
                                    doc[e].state = "facturada" /\ doc'[e].sync = doc[e].sync
                             /\ e \in Out => doc'[e].state = "facturada"
  BY <1>5, <1>9 DEF Out
<1>10. ASSUME NEW d \in Doc,
              \/ HoldStock(d) \/ EnqueueDocument(d) \/ Submit(d) \/ Unaccepted(d)
              \/ Rejected(d) \/ RetryDocument(d)
       PROVE  \A e \in Doc : /\ doc'[e].state = "facturada" =>
                                    doc[e].state = "facturada" /\ doc'[e].sync = doc[e].sync
                             /\ e \in Out => doc'[e].state = "facturada"
  BY <1>6, <1>10 DEF Out
<1>11. \/ \E d \in Doc, q \in Quote, sync \in BOOLEAN : AskConversion(d, q, sync)
       \/ \E d \in Doc :
              \/ CreateDocument(d) \/ EndRequest(d)
              \/ HoldStock(d) \/ RefuseStock(d) \/ RefuseOverride(d)
              \/ EnqueueDocument(d) \/ Submit(d) \/ Unaccepted(d)
              \/ Rejected(d) \/ RetryDocument(d)
       \/ UNCHANGED doc
  BY DEF Next, EditQuote, DeleteQuote, BeginPayment, CommitPayment, AdjustStock, vars
<1>. QED
  BY <1>2, <1>7, <1>8, <1>9, <1>10, <1>11

\* The hold of d changes, and with it perhaps whether its goods are gone.
LEMMA GoneChanges ==
    ASSUME StockOK, StockOK', SoldIsGone, NEW d \in Doc, \A e \in Doc \ {d} : hold'[e] = hold[e],
           \A e \in Doc \ {d} : doc'[e] = doc[e],
           hold'[d].quantity = hold[d].quantity \/ (d \notin Out /\ d \notin Out'),
           onHand' = onHand + (IF d \in Out THEN hold[d].quantity ELSE 0)
                            - (IF d \in Out' THEN hold'[d].quantity ELSE 0),
           UNCHANGED <<taken, counted>>, hold[d].authorised => hold'[d].authorised,
           doc'[d].state = "facturada" /\ ~doc'[d].sync /\ d \notin Out' =>
               hold'[d].missing /\ (taken > 0 \/ Authorised # {})
    PROVE  SoldIsGone'
<1>. DEFINE S == SumFunctionOnSet(Amounts, Out)
            S1 == SumFunctionOnSet(Amounts', Out')
            old == IF d \in Out THEN hold[d].quantity ELSE 0
            new == IF d \in Out' THEN hold'[d].quantity ELSE 0
<1>1. Out \in SUBSET Doc /\ Out' \in SUBSET Doc /\ Out \ {d} = Out' \ {d}
  BY DEF Out
<1>2. S1 = S - old + new /\ S \in Nat
  BY <1>1, HoldsChange
<1>3. Authorised # {} => Authorised' # {}
  BY DEF Authorised
<1>4. /\ onHand = InitialStock - taken + counted - S
      /\ \A e \in Doc : doc[e].state = "facturada" /\ ~doc[e].sync /\ e \notin Out =>
             hold[e].missing /\ (taken > 0 \/ Authorised # {})
  BY StockParts
<1>5. \A e \in Doc : doc'[e].state = "facturada" /\ ~doc'[e].sync /\ e \notin Out' =>
             hold'[e].missing /\ (taken' > 0 \/ Authorised' # {})
  BY <1>1, <1>3, <1>4
<1>6. onHand' = InitialStock - taken' + counted' - S1
  <2>1. taken' = taken /\ counted' = counted /\ onHand' = onHand + old - new
    OBVIOUS
  <2>2. onHand \in Int /\ taken \in Nat /\ counted \in Int /\ InitialStock \in Nat
    BY StockAssumption DEF StockOK
  <2>3. old \in Nat /\ new \in Nat
    BY <1>1 DEF StockOK, HoldRow
  <2>. HIDE DEF S, S1, old, new
  <2>. QED
    BY <1>2, <1>4, <2>1, <2>2, <2>3
<1>. QED
  BY <1>5, <1>6, StockParts DEF S1

\* No hold changes, and the same goods are gone.
LEMMA GoneStays ==
    ASSUME StockOK, SoldIsGone, UNCHANGED hold, Out' = Out,
           taken' >= taken, taken \in Nat, taken' \in Nat,
           onHand' + taken' - counted' = onHand + taken - counted,
           onHand' \in Int, counted' \in Int,
           \A e \in Doc : doc'[e].state = "facturada" =>
               doc[e].state = "facturada" /\ doc'[e].sync = doc[e].sync
    PROVE  SoldIsGone'
<1>. DEFINE S == SumFunctionOnSet(Amounts, Out)
<1>1. Amounts' = Amounts /\ Authorised' = Authorised
  BY DEF Amounts, Authorised
<1>2. S \in Nat
  <2>1. Out \in SUBSET Doc
    BY DEF Out
  <2>. QED
    BY <2>1, AmountsNat
<1>3. /\ onHand = InitialStock - taken + counted - S
      /\ \A e \in Doc : doc[e].state = "facturada" /\ ~doc[e].sync /\ e \notin Out =>
             hold[e].missing /\ (taken > 0 \/ Authorised # {})
  BY StockParts
<1>4. taken > 0 => taken' > 0
  <2>1. \A t, s \in Nat : s >= t /\ t > 0 => s > 0
    OBVIOUS
  <2>. QED
    BY <2>1
<1>5. \A e \in Doc : doc'[e].state = "facturada" /\ ~doc'[e].sync /\ e \notin Out' =>
             hold'[e].missing /\ (taken' > 0 \/ Authorised' # {})
  BY <1>1, <1>3, <1>4
<1>6. SumFunctionOnSet(Amounts', Out') = S
  BY <1>1
<1>7. onHand \in Int /\ taken \in Nat /\ counted \in Int /\ InitialStock \in Nat
  BY StockAssumption DEF StockOK
<1>. HIDE DEF S
<1>8. onHand' = InitialStock - taken' + counted' - S
  <2>1. PICK g \in Int : g = onHand'
    OBVIOUS
  <2>2. PICK b \in Int : b = counted'
    OBVIOUS
  <2>3. PICK u \in Nat : u = taken'
    OBVIOUS
  <2>4. g + u - b = onHand + taken - counted
    BY <2>1, <2>2, <2>3
  <2>5. onHand = InitialStock - taken + counted - S
    BY <1>3
  <2>6. g = InitialStock - u + b - S
    BY <1>2, <1>7, <2>4, <2>5
  <2>. QED
    BY <2>1, <2>2, <2>3, <2>6
<1>. QED
  BY <1>5, <1>6, <1>8, StockParts DEF S

\* What is promised is there, but for what was taken away and what was authorised.
LEMMA MissingIsExplained ==
    ASSUME StockOK, PromisesStand, NEW d \in Promised, onHand < hold[d].quantity
    PROVE  taken > 0 \/ Authorised # {}
<1>. DEFINE A == SumFunctionOnSet(Amounts, Authorised)
<1>1. committed <= onHand + taken + A
  BY StockParts
<1>2. d \in Doc /\ hold[d].quantity <= committed
  BY HoldIsCommitted DEF Promised
<1>3. hold[d].quantity \in Nat /\ committed \in Nat /\ onHand \in Int /\ taken \in Nat
  BY <1>2 DEF StockOK, HoldRow
<1>4. Authorised = {} => A = 0
  BY SumEmpty
<1>5. Authorised \in SUBSET Doc
  BY DEF Authorised
<1>6. A \in Nat
  BY <1>5, AmountsNat
<1>. HIDE DEF A
<1>7. taken + A > 0
  BY <1>1, <1>2, <1>3, <1>6
<1>. QED
  BY <1>3, <1>4, <1>6, <1>7

LEMMA SoldAccept ==
    ASSUME BillingInv, TypesOK, TypesOK', NumbersInv, HoldsInv, PromisesStand, SoldIsGone,
           NEW d \in Doc, Accept(d)
    PROVE  SoldIsGone'
<1>1. DocsOK /\ StockOK /\ StockOK' /\ HoldInOrder(d) /\ Numbered(d)
  BY DEF TypesOK, NumbersInv, HoldsInv
<1>2. /\ OnlyRow(d) /\ doc[d].state = "pendiente" /\ doc'[d].state = "facturada"
      /\ doc[d].step \in {"sent", "out"} /\ doc'[d].sync = doc[d].sync
  BY <1>1 DEF Accept, DocsOK, DocRow, OnlyRow
<1>3. ~hold[d].missing /\ hold[d].status # "converted" /\ d \notin Out
  BY <1>1, <1>2 DEF HoldInOrder, Out
<1>4. /\ \A e \in Doc \ {d} : doc'[e] = doc[e]
      /\ \A e \in Doc \ {d} : hold'[e] = hold[e]
      /\ hold'[d].quantity = hold[d].quantity /\ hold'[d].authorised = hold[d].authorised
  BY <1>1, <1>2, HoldRows DEF Accept, OnlyRow
<1>5. hold[d].quantity \in Nat /\ onHand \in Int
  BY <1>1 DEF StockOK, HoldRow
<1>6. CASE ~Held(d)
  <2>1. UNCHANGED stock
    BY <1>6 DEF Accept, Finalize
  <2>2. d \notin Out' /\ doc[d].sync
    BY <1>1, <1>2, <1>3, <1>6, <2>1 DEF Out, stock, HoldInOrder, Numbered
  <2>3. /\ UNCHANGED <<taken, counted>> /\ onHand' = onHand
    BY <2>1 DEF stock
  <2>4. onHand' = onHand + (IF d \in Out THEN hold[d].quantity ELSE 0)
                            - (IF d \in Out' THEN hold'[d].quantity ELSE 0)
    BY <1>3, <1>5, <2>2, <2>3
  <2>. QED
    BY <1>1, <1>2, <1>4, <2>2, <2>3, <2>4, GoneChanges
<1>7. CASE Held(d) /\ hold'[d].status = "converted"
  <2>1. d \in Out'
    BY <1>2, <1>7 DEF Out
  <2>2. hold[d].authorised \/ onHand >= hold[d].quantity
    <3>. SUFFICES ASSUME ~(hold[d].authorised \/ onHand >= hold[d].quantity) PROVE FALSE
      OBVIOUS
    <3>1. hold' = [hold EXCEPT ![d].missing = TRUE]
      BY <1>7 DEF Accept, Finalize
    <3>2. hold'[d].status = "active"
      BY <1>1, <1>7, <3>1 DEF StockOK, HoldRow, Held
    <3>. QED
      BY <1>7, <3>2
  <2>3. UNCHANGED <<taken, counted>> /\ onHand' = onHand - hold[d].quantity
    BY <1>7, <2>2 DEF Accept, Finalize, manual
  <2>4. onHand' = onHand + (IF d \in Out THEN hold[d].quantity ELSE 0)
                            - (IF d \in Out' THEN hold'[d].quantity ELSE 0)
    BY <1>3, <1>4, <1>5, <2>1, <2>3
  <2>. QED
    BY <1>1, <1>4, <2>1, <2>3, <2>4, GoneChanges
<1>8. CASE Held(d) /\ hold'[d].status = "active" /\ hold'[d].missing
           /\ ~hold[d].authorised /\ onHand < hold[d].quantity
  <2>1. d \notin Out'
    BY <1>8 DEF Out
  <2>2. d \in Promised
    BY <1>3, <1>8 DEF Promised
  <2>3. taken > 0 \/ Authorised # {}
    BY <1>1, <1>8, <2>2, MissingIsExplained
  <2>4. UNCHANGED <<taken, counted>> /\ onHand' = onHand
    BY <1>5, <1>8 DEF Accept, Finalize, manual
  <2>5. onHand' = onHand + (IF d \in Out THEN hold[d].quantity ELSE 0)
                            - (IF d \in Out' THEN hold'[d].quantity ELSE 0)
    BY <1>3, <1>5, <2>1, <2>4
  <2>. QED
    BY <1>1, <1>4, <1>8, <2>1, <2>3, <2>4, <2>5, GoneChanges
<1>. QED
  BY <1>1, <1>6, <1>7, <1>8, HoldRows DEF Accept

LEMMA SoldVoid ==
    ASSUME BillingInv, TypesOK, TypesOK', HoldsInv, SoldIsGone, NEW d \in Doc, VoidDocument(d)
    PROVE  SoldIsGone'
<1>1. DocsOK /\ StockOK /\ StockOK'
  BY DEF TypesOK
<1>2. /\ \A e \in Doc \ {d} : doc'[e] = doc[e]
      /\ doc'[d].state = "anulada" /\ doc[d].state = "facturada"
      /\ UNCHANGED hold /\ UNCHANGED <<taken, counted>>
      /\ onHand' = IF ComeBack(d) THEN onHand + hold[d].quantity ELSE onHand
  BY <1>1 DEF VoidDocument, Restore, DocsOK, DocRow, manual
<1>3. d \notin Out' /\ (d \in Out <=> ComeBack(d))
  BY <1>2 DEF Out, ComeBack
<1>4. hold[d].quantity \in Nat /\ onHand \in Int
  BY <1>1 DEF StockOK, HoldRow
<1>5. onHand' = onHand + (IF d \in Out THEN hold[d].quantity ELSE 0)
                          - (IF d \in Out' THEN hold'[d].quantity ELSE 0)
  BY <1>2, <1>3, <1>4
<1>. QED
  BY <1>1, <1>2, <1>3, <1>5, GoneChanges

LEMMA SoldNext ==
    ASSUME BillingInv, TypesOK, NumbersInv, HoldsInv, PromisesStand, SoldIsGone, [Next]_vars
    PROVE  SoldIsGone'
<1>1. TypesOK' /\ StockOK /\ StockOK'
  BY TypesNext DEF TypesOK
<1>2. CASE \E d \in Doc : Accept(d) \/ VoidDocument(d)
  BY <1>1, <1>2, SoldAccept, SoldVoid
<1>3. CASE ~ \E d \in Doc : Accept(d) \/ VoidDocument(d)
  <2>1. \A e \in Doc : /\ doc'[e].state = "facturada" =>
                              doc[e].state = "facturada" /\ doc'[e].sync = doc[e].sync
                       /\ e \in Out => doc'[e].state = "facturada"
    BY <1>3, SalesKept
  <2>2. onHand \in Int /\ onHand' \in Int /\ taken \in Nat /\ taken' \in Nat
        /\ counted \in Int /\ counted' \in Int
    BY <1>1 DEF StockOK
  <2>3. ASSUME UNCHANGED hold PROVE Out' = Out
    BY <2>1, <2>3 DEF Out
  <2>4. CASE UNCHANGED stock
    <3>1. UNCHANGED hold /\ UNCHANGED onHand /\ UNCHANGED taken /\ UNCHANGED counted
      BY <2>4 DEF stock
    <3>2. taken' >= taken /\ onHand' + taken' - counted' = onHand + taken - counted
      BY <2>2, <3>1
    <3>. QED
      BY <1>1, <2>1, <2>2, <2>3, <3>1, <3>2, GoneStays
  <2>5. CASE AdjustStock
    <3>1. UNCHANGED hold
      BY <2>5 DEF AdjustStock, TakeStock, CountStock
    <3>2. taken' >= taken /\ onHand' + taken' - counted' = onHand + taken - counted
      <4>1. ASSUME NEW n \in Totals, TakeStock(n)
            PROVE  taken' >= taken /\ onHand' + taken' - counted' = onHand + taken - counted
        BY <2>2, <4>1 DEF TakeStock, Totals
      <4>2. ASSUME NEW n \in 0 .. InitialStock, CountStock(n)
            PROVE  taken' >= taken /\ onHand' + taken' - counted' = onHand + taken - counted
        BY <2>2, <4>2 DEF CountStock
      <4>. QED
        BY <2>5, <4>1, <4>2 DEF AdjustStock
    <3>. QED
      BY <1>1, <2>1, <2>2, <2>3, <3>1, <3>2, GoneStays
  <2>6. ASSUME NEW d \in Doc, NEW a \in BOOLEAN, HoldStock(d), Hold(d, doc[d].total, a)
        PROVE  SoldIsGone'
    <3>1. /\ DocsOK /\ HoldInOrder(d) /\ Sound(d) /\ doc[d].total \in Nat
      BY DEF TypesOK, BillingInv, HoldsInv, DocsOK, DocRow
    <3>2. /\ OnlyRow(d) /\ doc'[d].state = doc[d].state /\ doc'[d].sync = doc[d].sync
          /\ AsksStock(d)
      BY <2>6, <3>1, ProgressRow DEF OnlyRow
    <3>3. /\ \A e \in Doc \ {d} : hold'[e] = hold[e]
          /\ hold[d].status = "none" /\ hold'[d].status = "active"
      BY <1>1, <2>6, <3>1, HoldRows
    <3>4. d \notin Out /\ d \notin Out' /\ ~hold[d].authorised
      BY <3>1, <3>3 DEF Out, HoldInOrder
    <3>5. ~(doc'[d].state = "facturada" /\ ~doc'[d].sync)
      BY <3>1, <3>2 DEF Sound, AsksStock
    <3>6. UNCHANGED <<taken, counted>> /\ UNCHANGED onHand
      BY <2>6 DEF Hold
    <3>7. onHand' = onHand + (IF d \in Out THEN hold[d].quantity ELSE 0)
                            - (IF d \in Out' THEN hold'[d].quantity ELSE 0)
      BY <2>2, <3>4, <3>6
    <3>. QED
      BY <1>1, <3>2, <3>3, <3>4, <3>5, <3>6, <3>7, GoneChanges DEF OnlyRow
  <2>7. ASSUME NEW d \in Doc, Rejected(d), Release(d) PROVE SoldIsGone'
    <3>1. DocsOK
      BY DEF TypesOK
    <3>2. OnlyRow(d) /\ doc'[d].state = doc[d].state /\ doc'[d].sync = doc[d].sync
      BY <2>7, <3>1, ProgressRow DEF OnlyRow
    <3>3. /\ \A e \in Doc \ {d} : hold'[e] = hold[e]
          /\ hold'[d].status = IF Held(d) THEN "released" ELSE hold[d].status
          /\ hold'[d].missing = hold[d].missing
          /\ hold'[d].quantity = hold[d].quantity
          /\ hold'[d].authorised = hold[d].authorised
      BY <1>1, <2>7, HoldRows
    <3>4. d \in Out' <=> d \in Out
      BY <3>2, <3>3 DEF Out, Held
    <3>5. UNCHANGED <<taken, counted>> /\ UNCHANGED onHand
      BY <2>7 DEF Release, stock, manual
    <3>6. hold[d].quantity \in Nat
      BY <1>1 DEF StockOK, HoldRow
    <3>7. onHand' = onHand + (IF d \in Out THEN hold[d].quantity ELSE 0)
                            - (IF d \in Out' THEN hold'[d].quantity ELSE 0)
      BY <2>2, <3>3, <3>4, <3>5, <3>6
    <3>8. doc'[d].state = "facturada" /\ ~doc'[d].sync /\ d \notin Out' =>
               hold'[d].missing /\ (taken > 0 \/ Authorised # {})
      BY <3>2, <3>3, <3>4, StockParts
    <3>. QED
      BY <1>1, <3>2, <3>3, <3>5, <3>7, <3>8, GoneChanges DEF OnlyRow
  <2>. QED
    BY <1>3, <2>4, <2>5, <2>6, <2>7, StockSteps DEF vars
<1>. QED
  BY <1>2, <1>3

-----------------------------------------------------------------------------
(* Payments *)

\* What the documents of a quote were paid.
Paid(q) == SumFunctionOnSet(paidTo, {d \in Doc : doc[d].quote = q})

Ended == {"facturada", "anulada", "deleted"}

\* What PaymentsCountOnce says of q, and that its advances are within its total.
QuotePaid(q) ==
    q \notin raced => /\ quote[q].paid = advance[q] + Paid(q)
                      /\ \A d \in IssuedOf(q) : paidTo[d] <= doc[d].total
                      /\ advance[q] <= quote[q].total

\* A payment on its way refers to a document that was accepted once; as long as
\* nothing happens to its quote, it has read what is still true, and the balance
\* is still there.
PaymentInOrder(p) ==
    LET q == paying[p].quote
        d == paying[p].doc
    IN  q # None =>
            /\ d # None => doc[d].state \in Ended /\ doc[d].quote = q
            /\ q \notin raced /\ quote[q].state # "deleted" =>
                   /\ paying[p].seen = quote[q].paid
                   /\ d = None => /\ IssuedOf(q) = {}
                                  /\ paying[p].amount <= quote[q].total - quote[q].paid
                   /\ d # None /\ Live(d) => /\ d \in IssuedOf(q)
                                             /\ paying[p].amount <= doc[d].total - paidTo[d]

\* No document counts for a quote that is deleted.
DeletedIsFree(q) == quote[q].state = "deleted" => Active(q) = {}

\* Only a document that was accepted is paid.
PaidWhenIssued(d) == doc[d].state \notin Ended => paidTo[d] = 0

PayInv ==
    /\ \A q \in Quote : QuotePaid(q) /\ DeletedIsFree(q)
    /\ \A p \in Payer : PaymentInOrder(p)
    /\ \A d \in Doc : PaidWhenIssued(d)

LEMMA PayProperty == PayInv => PaymentsCountOnce
BY DEF PayInv, QuotePaid, Paid, PaymentsCountOnce

LEMMA PaidNat ==
    ASSUME MoneyOK
    PROVE  \A q \in Quote : Paid(q) \in Nat
<1>. SUFFICES ASSUME NEW q \in Quote PROVE Paid(q) \in Nat
  OBVIOUS
<1>. DEFINE D == {d \in Doc : doc[d].quote = q}
<1>1. IsFiniteSet(D) /\ \A d \in D : paidTo[d] \in Nat
  BY StockAssumption, FS_Subset DEF MoneyOK
<1>. HIDE DEF D
<1>2. SumFunctionOnSet(paidTo, D) \in Nat
  BY <1>1, SumNat
<1>. QED
  BY <1>2 DEF Paid, D

LEMMA PayInit == Init => PayInv
<1>. SUFFICES ASSUME Init PROVE PayInv
  OBVIOUS
<1>1. \A d \in Doc : doc[d].state = "none" /\ paidTo[d] = 0
  BY DEF Init, NewDoc
<1>2. ASSUME NEW q \in Quote PROVE Active(q) = {} /\ IssuedOf(q) = {} /\ Paid(q) = 0
  <2>. DEFINE D == {d \in Doc : doc[d].quote = q}
  <2>1. IsFiniteSet(D) /\ \A d \in D : paidTo[d] = 0
    BY <1>1, StockAssumption, FS_Subset
  <2>. HIDE DEF D
  <2>2. SumFunctionOnSet(paidTo, D) = 0
    BY <2>1, SumZero
  <2>. QED
    BY <1>1, <2>2 DEF Active, IssuedOf, Paid, D
<1>3. ASSUME NEW q \in Quote PROVE QuotePaid(q) /\ DeletedIsFree(q)
  <2>1. quote[q].paid = 0 /\ advance[q] = 0 /\ quote[q].total \in Nat
    BY DEF Init, Totals
  <2>. QED
    BY <1>2, <2>1 DEF QuotePaid, DeletedIsFree
<1>4. ASSUME NEW p \in Payer PROVE PaymentInOrder(p)
  BY DEF Init, NoPayment, PaymentInOrder
<1>. QED
  BY <1>1, <1>3, <1>4 DEF PayInv, PaidWhenIssued

\* Only the document d changes, or what was paid for it.
LEMMA PaidChange ==
    ASSUME MoneyOK, MoneyOK', NEW d \in Doc,
           \A e \in Doc \ {d} : doc'[e].quote = doc[e].quote,
           \A e \in Doc \ {d} : paidTo'[e] = paidTo[e],
           NEW q \in Quote
    PROVE  /\ Paid(q) \in Nat
           /\ Paid(q)' = Paid(q) - (IF doc[d].quote = q THEN paidTo[d] ELSE 0)
                                 + (IF doc'[d].quote = q THEN paidTo'[d] ELSE 0)
<1>. DEFINE P == {e \in Doc : doc[e].quote = q}
            Q == {e \in Doc : doc'[e].quote = q}
            f == paidTo
            g == paidTo'
<1>1. P \in SUBSET Doc /\ Q \in SUBSET Doc /\ P \ {d} = Q \ {d}
  OBVIOUS
<1>2. /\ \A e \in P : f[e] \in Int
      /\ \A e \in Q : g[e] \in Int
      /\ \A e \in P \ {d} : f[e] = g[e]
  BY DEF MoneyOK
<1>3. Share(f, P, d) = IF doc[d].quote = q THEN paidTo[d] ELSE 0
  BY DEF Share
<1>4. Share(g, Q, d) = IF doc'[d].quote = q THEN paidTo'[d] ELSE 0
  BY DEF Share
<1>5. Paid(q) = SumFunctionOnSet(f, P) /\ Paid(q)' = SumFunctionOnSet(g, Q)
  BY DEF Paid
<1>. HIDE DEF P, Q, f, g
<1>6. SumFunctionOnSet(g, Q) = SumFunctionOnSet(f, P) - Share(f, P, d) + Share(g, Q, d)
  BY <1>1, <1>2, StockAssumption, SumChange
<1>. QED
  BY <1>3, <1>4, <1>5, <1>6, PaidNat

\* What is paid for a quote stays the same.
LEMMA PaidSame ==
    ASSUME MoneyOK, NEW q \in Quote,
           \A d \in Doc : doc'[d].quote = q <=> doc[d].quote = q,
           \A d \in Doc : doc[d].quote = q => paidTo'[d] = paidTo[d]
    PROVE  Paid(q)' = Paid(q)
<1>. DEFINE P == {e \in Doc : doc[e].quote = q}
            Q == {e \in Doc : doc'[e].quote = q}
            f == paidTo
            g == paidTo'
<1>1. Q = P
  OBVIOUS
<1>2. Paid(q) = SumFunctionOnSet(f, P) /\ Paid(q)' = SumFunctionOnSet(g, Q)
  BY DEF Paid
<1>3. IsFiniteSet(P) /\ \A e \in P : f[e] = g[e]
  BY StockAssumption, FS_Subset
<1>. HIDE DEF P, Q, f, g
<1>4. SumFunctionOnSet(f, P) = SumFunctionOnSet(g, P)
  BY <1>3, SumSame
<1>. QED
  BY <1>1, <1>2, <1>4

\* Races marks the quote of the payments that it finds.
LEMMA RacesMarks ==
    ASSUME NEW q \in Quote, NEW P \in SUBSET Payer, raced' = Races(q, P)
    PROVE  /\ \A r \in Quote \ {q} : r \in raced => r \in raced'
           /\ q \in raced => q \in raced'
           /\ \A p \in P : paying[p].quote = q => q \in raced'
BY DEF Races

\* A step that concerns the quote q: the others are as they were, and a payment
\* of q that overlaps is marked.
LEMMA OtherQuotes ==
    ASSUME MoneyOK, PayInv, NEW q \in Quote, NEW P \in SUBSET Payer,
           \A r \in Quote \ {q} : /\ quote'[r] = quote[r] /\ advance'[r] = advance[r]
                                  /\ r \in raced => r \in raced',
           \A d \in Doc : doc'[d].quote = doc[d].quote,
           \A d \in Doc : doc[d].quote # q => doc'[d] = doc[d] /\ paidTo'[d] = paidTo[d],
           \A d \in Doc : doc[d].state \in Ended => doc'[d].state \in Ended,
           \A p \in P : paying'[p] = paying[p],
           \A p \in P : paying[p].quote = q => q \in raced' \/ quote'[q].state = "deleted"
    PROVE  /\ \A r \in Quote \ {q} : QuotePaid(r)' /\ DeletedIsFree(r)'
           /\ \A p \in P : PaymentInOrder(p)'
<1>1. ASSUME NEW r \in Quote \ {q}
      PROVE  /\ Active(r)' = Active(r) /\ IssuedOf(r)' = IssuedOf(r) /\ Paid(r)' = Paid(r)
             /\ \A d \in IssuedOf(r) : doc'[d].total = doc[d].total /\ paidTo'[d] = paidTo[d]
  <2>1. Active(r)' = Active(r)
    BY DEF Active
  <2>2. IssuedOf(r)' = IssuedOf(r)
    BY <2>1 DEF IssuedOf, Active
  <2>3. /\ \A d \in Doc : doc'[d].quote = r <=> doc[d].quote = r
        /\ \A d \in Doc : doc[d].quote = r => paidTo'[d] = paidTo[d]
    OBVIOUS
  <2>4. Paid(r)' = Paid(r)
    BY <2>3, PaidSame
  <2>. QED
    BY <2>1, <2>2, <2>4 DEF IssuedOf, Active
<1>2. ASSUME NEW r \in Quote \ {q} PROVE QuotePaid(r)' /\ DeletedIsFree(r)'
  <2>1. QuotePaid(r) /\ DeletedIsFree(r)
    BY DEF PayInv
  <2>. QED
    BY <1>1, <2>1 DEF QuotePaid, DeletedIsFree
<1>3. ASSUME NEW p \in P PROVE PaymentInOrder(p)'
  <2>. DEFINE r == paying[p].quote
              d == paying[p].doc
  <2>1. PaymentInOrder(p) /\ r \in Quote \cup {None} /\ d \in Doc \cup {None}
    BY DEF PayInv, MoneyOK, PaymentRow
  <2>2. paying'[p].quote = r /\ paying'[p].doc = d /\ paying'[p].amount = paying[p].amount
        /\ paying'[p].seen = paying[p].seen
    OBVIOUS
  <2>3. CASE r = None
    BY <2>2, <2>3 DEF PaymentInOrder
  <2>4. CASE r = q
    <3>1. d # None => doc'[d].state \in Ended /\ doc'[d].quote = q
      BY <2>1, <2>4, BillingAssumption DEF PaymentInOrder
    <3>2. q \in raced' \/ quote'[q].state = "deleted"
      BY <2>4
    <3>. QED
      BY <2>2, <2>4, <3>1, <3>2 DEF PaymentInOrder
  <2>5. CASE r \in Quote \ {q}
    <3>1. quote'[r] = quote[r] /\ IssuedOf(r)' = IssuedOf(r) /\ (r \in raced => r \in raced')
      BY <1>1, <2>5
    <3>2. d # None => /\ d \in Doc /\ doc'[d] = doc[d] /\ paidTo'[d] = paidTo[d]
                      /\ doc[d].quote = r /\ doc[d].state \in Ended
      BY <2>1, <2>5, BillingAssumption DEF PaymentInOrder
    <3>. QED
      BY <2>1, <2>2, <2>5, <3>1, <3>2 DEF PaymentInOrder, Live
  <2>. QED
    BY <2>1, <2>3, <2>4, <2>5
<1>. QED
  BY <1>2, <1>3

\* A step that concerns no money: one document, perhaps, gets on before it is
\* accepted, or is deleted unpaid.
LEMMA MoneyUntouched ==
    ASSUME MoneyOK, MoneyOK', PayInv, UNCHANGED <<quote, money>>,
           NEW d \in Doc, \A e \in Doc \ {d} : doc'[e] = doc[e],
           \/ /\ doc[d].state \in {"none", "asked"} /\ doc'[d].state \in {"none", "asked"}
           \/ /\ doc[d].state = "asked" /\ doc'[d].state = "pendiente"
              /\ doc'[d].quote = doc[d].quote /\ quote[doc[d].quote].state # "deleted"
           \/ /\ doc'[d].state = doc[d].state /\ doc'[d].quote = doc[d].quote
              /\ doc'[d].total = doc[d].total
           \/ /\ doc'[d].state = "deleted" /\ doc'[d].quote = doc[d].quote
              /\ doc[d].state = "pendiente" \/ paidTo[d] = 0
    PROVE  PayInv'
<1>1. \A e \in Doc : PaidWhenIssued(e)
  BY DEF PayInv
<1>2. \A e \in Doc : PaidWhenIssued(e)'
  BY <1>1 DEF PaidWhenIssued, Ended, money
<1>3. doc'[d].quote = doc[d].quote \/ paidTo[d] = 0
  BY <1>1 DEF PaidWhenIssued, Ended
<1>4. /\ UNCHANGED quote /\ UNCHANGED advance /\ UNCHANGED paidTo /\ UNCHANGED paying
      /\ UNCHANGED raced
  BY DEF money
<1>5. ASSUME NEW q \in Quote PROVE Paid(q)' = Paid(q)
  <2>1. /\ Paid(q) \in Nat
        /\ Paid(q)' = Paid(q) - (IF doc[d].quote = q THEN paidTo[d] ELSE 0)
                              + (IF doc'[d].quote = q THEN paidTo'[d] ELSE 0)
    <3>1. /\ \A e \in Doc \ {d} : doc'[e].quote = doc[e].quote
          /\ \A e \in Doc \ {d} : paidTo'[e] = paidTo[e]
      BY <1>4
    <3>. QED
      BY <3>1, PaidChange
  <2>2. paidTo[d] \in Nat /\ paidTo'[d] = paidTo[d]
    BY <1>4 DEF MoneyOK
  <2>. QED
    BY <1>3, <2>1, <2>2
<1>6. ASSUME NEW q \in Quote
      PROVE  /\ IssuedOf(q)' \subseteq IssuedOf(q)
             /\ \A e \in IssuedOf(q)' : doc'[e].total = doc[e].total
             /\ \A e \in IssuedOf(q) : e \in IssuedOf(q)' \/ ~Live(e)'
  BY DEF IssuedOf, Active, Live
<1>7. ASSUME NEW q \in Quote PROVE QuotePaid(q)' /\ DeletedIsFree(q)'
  <2>1. QuotePaid(q) /\ DeletedIsFree(q)
    BY DEF PayInv
  <2>2. QuotePaid(q)'
    BY <1>4, <1>5, <1>6, <2>1 DEF QuotePaid
  <2>3. DeletedIsFree(q)'
    BY <1>4, <2>1 DEF DeletedIsFree, Active
  <2>. QED
    BY <2>2, <2>3
<1>8. ASSUME NEW e \in Doc, doc[e].state \in Ended
      PROVE  /\ doc'[e].state \in Ended /\ doc'[e].quote = doc[e].quote
             /\ Live(e)' => Live(e) /\ doc'[e].total = doc[e].total
  <2>1. CASE e = d
    BY <1>8, <2>1 DEF Ended, Live
  <2>2. CASE e # d
    BY <1>8, <2>2 DEF Live
  <2>. QED
    BY <2>1, <2>2
<1>9. ASSUME NEW p \in Payer PROVE PaymentInOrder(p)'
  <2>1. PaymentInOrder(p)
    BY DEF PayInv
  <2>2. PICK q \in Quote \cup {None} : q = paying[p].quote
    BY DEF MoneyOK, PaymentRow
  <2>3. PICK e \in Doc \cup {None} : e = paying[p].doc
    BY DEF MoneyOK, PaymentRow
  <2>4. paying'[p] = paying[p]
    BY <1>4
  <2>5. CASE q = None
    BY <2>2, <2>4, <2>5 DEF PaymentInOrder
  <2>6. CASE q \in Quote
    <3>1. e # None => doc[e].state \in Ended /\ doc[e].quote = q /\ e \in Doc
      BY <2>1, <2>2, <2>3, <2>6, BillingAssumption DEF PaymentInOrder
    <3>2. e # None => /\ doc'[e].state \in Ended /\ doc'[e].quote = q
                      /\ Live(e)' => Live(e) /\ doc'[e].total = doc[e].total
      BY <1>8, <3>1
    <3>3. /\ IssuedOf(q)' \subseteq IssuedOf(q)
          /\ \A x \in IssuedOf(q) : x \in IssuedOf(q)' \/ ~Live(x)'
      BY <1>6, <2>6
    <3>4. q \notin raced /\ quote[q].state # "deleted" =>
              /\ paying[p].seen = quote[q].paid
              /\ e = None => /\ IssuedOf(q) = {}
                             /\ paying[p].amount <= quote[q].total - quote[q].paid
              /\ e # None /\ Live(e) => /\ e \in IssuedOf(q)
                                        /\ paying[p].amount <= doc[e].total - paidTo[e]
      BY <2>1, <2>2, <2>3, <2>6, BillingAssumption DEF PaymentInOrder
    <3>5. q \notin raced' /\ quote'[q].state # "deleted" =>
              /\ paying'[p].seen = quote'[q].paid
              /\ e = None => /\ IssuedOf(q)' = {}
                             /\ paying'[p].amount <= quote'[q].total - quote'[q].paid
              /\ e # None /\ Live(e)' => /\ e \in IssuedOf(q)'
                                         /\ paying'[p].amount <= doc'[e].total - paidTo'[e]
      BY <1>4, <3>2, <3>3, <3>4
    <3>. QED
      BY <2>2, <2>3, <2>4, <3>2, <3>5 DEF PaymentInOrder, Live
  <2>. QED
    BY <2>5, <2>6
<1>. QED
  BY <1>2, <1>7, <1>9 DEF PayInv

\* What holds of every quote and document, read off.
LEMMA PayFacts ==
    ASSUME BillingInv, MoneyOK, DocsOK, PayInv
    PROVE  /\ \A q \in Quote : /\ QuotePaid(q) /\ DeletedIsFree(q)
                               /\ quote[q].total \in Nat /\ quote[q].paid \in Nat
                               /\ advance[q] \in Nat /\ Paid(q) \in Nat
                               /\ \A d, e \in Active(q) : d = e
                               /\ \A d \in Active(q) : doc[d].total = quote[q].total
           /\ \A d \in Doc : /\ PaidWhenIssued(d) /\ paidTo[d] \in Nat /\ doc[d].total \in Nat
                             /\ doc[d].state \in DocState
           /\ DOMAIN quote = Quote /\ DOMAIN advance = Quote /\ DOMAIN paidTo = Doc
           /\ DOMAIN doc = Doc /\ DOMAIN paying = Payer
BY PaidNat DEF BillingInv, QuoteIsItsDocument, MoneyOK, DocsOK, DocRow, QuoteRow, PayInv

LEMMA EditPays ==
    ASSUME BillingInv, TypesOK, TypesOK', PayInv, NEW q \in Quote, NEW total \in Totals,
           EditQuote(q, total)
    PROVE  PayInv'
<1>1. MoneyOK /\ MoneyOK' /\ DocsOK
  BY DEF TypesOK
<1>2. /\ \A r \in Quote \ {q} : quote'[r] = quote[r] /\ advance'[r] = advance[r]
      /\ UNCHANGED doc /\ UNCHANGED paidTo /\ UNCHANGED paying
      /\ quote'[q].paid = 0 /\ advance'[q] = 0 /\ advance[q] = 0 /\ quote[q].paid = 0
      /\ quote'[q].state = "pendiente"
      /\ Active(q) = {} /\ raced' = Races(q, Payer)
  BY <1>1 DEF EditQuote, MoneyOK, QuoteRow
<1>3. /\ \A r \in Quote \ {q} : r \in raced => r \in raced'
      /\ q \in raced => q \in raced'
      /\ \A p \in Payer : paying[p].quote = q => q \in raced'
  BY <1>2, RacesMarks
<1>4. /\ \A r \in Quote \ {q} : QuotePaid(r)' /\ DeletedIsFree(r)'
      /\ \A p \in Payer : PaymentInOrder(p)'
  <2>1. /\ \A d \in Doc : doc'[d].quote = doc[d].quote
        /\ \A d \in Doc : doc[d].quote # q => doc'[d] = doc[d] /\ paidTo'[d] = paidTo[d]
        /\ \A d \in Doc : doc[d].state \in Ended => doc'[d].state \in Ended
        /\ \A p \in Payer : paying'[p] = paying[p]
    BY <1>2
  <2>. QED
    BY <1>1, <1>2, <1>3, <2>1, OtherQuotes
<1>5. Active(q)' = {} /\ IssuedOf(q)' = {}
  BY <1>2 DEF Active, IssuedOf
<1>6. Paid(q)' = Paid(q)
  BY <1>1, <1>2, PaidSame
<1>7. quote'[q].total \in Nat
  BY <1>1 DEF MoneyOK, QuoteRow
<1>8. QuotePaid(q)' /\ DeletedIsFree(q)'
  <2>1. QuotePaid(q)
    BY DEF PayInv
  <2>. QED
    BY <1>2, <1>3, <1>5, <1>6, <1>7, <2>1 DEF QuotePaid, DeletedIsFree
<1>9. \A d \in Doc : PaidWhenIssued(d)'
  BY <1>2 DEF PayInv, PaidWhenIssued
<1>. QED
  BY <1>4, <1>8, <1>9 DEF PayInv

LEMMA DeletePays ==
    ASSUME BillingInv, TypesOK, TypesOK', PayInv, NEW q \in Quote, DeleteQuote(q)
    PROVE  PayInv'
<1>1. MoneyOK /\ MoneyOK' /\ DocsOK
  BY DEF TypesOK
<1>2. /\ \A r \in Quote \ {q} : quote'[r] = quote[r] /\ advance'[r] = advance[r]
      /\ UNCHANGED doc /\ UNCHANGED paying /\ UNCHANGED raced
      /\ quote'[q].paid = 0 /\ advance'[q] = 0
      /\ quote'[q].state = "deleted"
      /\ Active(q) = {}
      /\ \A d \in Doc : paidTo'[d] = IF doc[d].quote = q THEN 0 ELSE paidTo[d]
  BY <1>1 DEF DeleteQuote, MoneyOK, QuoteRow
<1>3. /\ \A r \in Quote \ {q} : QuotePaid(r)' /\ DeletedIsFree(r)'
      /\ \A p \in Payer : PaymentInOrder(p)'
  <2>1. /\ \A d \in Doc : doc'[d].quote = doc[d].quote
        /\ \A d \in Doc : doc[d].quote # q => doc'[d] = doc[d] /\ paidTo'[d] = paidTo[d]
        /\ \A d \in Doc : doc[d].state \in Ended => doc'[d].state \in Ended
        /\ \A p \in Payer : paying'[p] = paying[p]
        /\ \A r \in Quote \ {q} : r \in raced => r \in raced'
    BY <1>2
  <2>. QED
    BY <1>1, <1>2, <2>1, OtherQuotes
<1>4. Active(q)' = {} /\ IssuedOf(q)' = {}
  BY <1>2 DEF Active, IssuedOf
<1>5. Paid(q)' = 0
  <2>. DEFINE D == {d \in Doc : doc'[d].quote = q}
              g == paidTo'
  <2>1. IsFiniteSet(D) /\ \A d \in D : g[d] = 0
    BY <1>2, StockAssumption, FS_Subset
  <2>2. Paid(q)' = SumFunctionOnSet(g, D)
    BY DEF Paid
  <2>. HIDE DEF D, g
  <2>. QED
    BY <2>1, <2>2, SumZero
<1>6. quote'[q].total \in Nat
  BY <1>1 DEF MoneyOK, QuoteRow
<1>7. QuotePaid(q)' /\ DeletedIsFree(q)'
  BY <1>2, <1>4, <1>5, <1>6 DEF QuotePaid, DeletedIsFree
<1>8. \A d \in Doc : PaidWhenIssued(d)'
  BY <1>2 DEF PayInv, PaidWhenIssued
<1>. QED
  BY <1>3, <1>7, <1>8 DEF PayInv

LEMMA AcceptPays ==
    ASSUME BillingInv, TypesOK, TypesOK', PayInv, NEW d \in Doc, Accept(d)
    PROVE  PayInv'
<1>1. MoneyOK /\ MoneyOK' /\ DocsOK
  BY DEF TypesOK
<1>2. PICK q \in Quote : q = doc[d].quote
  BY QuoteOfDocument DEF Accept
<1>3. /\ \A r \in Quote \ {q} : quote'[r] = quote[r] /\ advance'[r] = advance[r]
      /\ \A e \in Doc \ {d} : doc'[e] = doc[e] /\ paidTo'[e] = paidTo[e]
      /\ doc[d].state = "pendiente" /\ doc'[d].state = "facturada"
      /\ doc'[d].quote = q /\ doc'[d].total = doc[d].total
      /\ UNCHANGED paying /\ raced' = Races(q, Payer)
      /\ paidTo'[d] = paidTo[d] + advance[q] /\ advance'[q] = 0
      /\ quote'[q].paid = quote[q].paid /\ quote'[q].total = quote[q].total
      /\ quote'[q].state = "facturada"
  BY <1>1, <1>2 DEF Accept, Unapplied, MoneyOK, DocsOK, DocRow, QuoteRow
<1>4. /\ \A r \in Quote \ {q} : r \in raced => r \in raced'
      /\ q \in raced => q \in raced'
      /\ \A p \in Payer : paying[p].quote = q => q \in raced'
  BY <1>3, RacesMarks
<1>5. /\ \A r \in Quote \ {q} : QuotePaid(r)' /\ DeletedIsFree(r)'
      /\ \A p \in Payer : PaymentInOrder(p)'
  <2>1. /\ \A e \in Doc : doc'[e].quote = doc[e].quote
        /\ \A e \in Doc : doc[e].quote # q => doc'[e] = doc[e] /\ paidTo'[e] = paidTo[e]
        /\ \A e \in Doc : doc[e].state \in Ended => doc'[e].state \in Ended
        /\ \A p \in Payer : paying'[p] = paying[p]
    BY <1>2, <1>3 DEF Ended
  <2>. QED
    BY <1>1, <1>3, <1>4, <2>1, OtherQuotes
<1>6. paidTo[d] = 0 /\ d \in Active(q)
  BY <1>1, <1>2, <1>3, PayFacts DEF PaidWhenIssued, Ended, Active
<1>7. \A e \in IssuedOf(q)' : e = d
  <2>1. \A e \in IssuedOf(q)' : e \in Active(q)
    BY <1>3, <1>6 DEF IssuedOf, Active
  <2>. QED
    BY <1>1, <1>6, <2>1, PayFacts
<1>8. /\ Paid(q) \in Nat
      /\ Paid(q)' = Paid(q) - paidTo[d] + paidTo'[d]
  <2>1. /\ \A e \in Doc \ {d} : doc'[e].quote = doc[e].quote
        /\ \A e \in Doc \ {d} : paidTo'[e] = paidTo[e]
    BY <1>3
  <2>2. /\ Paid(q) \in Nat
        /\ Paid(q)' = Paid(q) - (IF doc[d].quote = q THEN paidTo[d] ELSE 0)
                              + (IF doc'[d].quote = q THEN paidTo'[d] ELSE 0)
    BY <1>1, <2>1, PaidChange
  <2>. QED
    BY <1>2, <1>3, <2>2
<1>9. ASSUME q \notin raced'
      PROVE  /\ quote'[q].paid = advance'[q] + Paid(q)'
             /\ paidTo'[d] <= doc'[d].total
             /\ advance'[q] <= quote'[q].total
  <2>1. /\ quote[q].paid = advance[q] + Paid(q)
        /\ advance[q] <= quote[q].total
        /\ advance[q] \in Nat /\ quote[q].total \in Nat
        /\ doc[d].total = quote[q].total
    BY <1>1, <1>4, <1>6, <1>9, PayFacts DEF QuotePaid
  <2>2. paidTo'[d] = advance[q] /\ Paid(q)' = Paid(q) + advance[q]
    BY <1>3, <1>6, <1>8, <2>1
  <2>. QED
    BY <1>3, <1>8, <2>1, <2>2
<1>10. QuotePaid(q)' /\ DeletedIsFree(q)'
  BY <1>3, <1>7, <1>9 DEF QuotePaid, DeletedIsFree
<1>11. \A e \in Doc : PaidWhenIssued(e)'
  BY <1>3 DEF PayInv, PaidWhenIssued, Ended
<1>. QED
  BY <1>5, <1>10, <1>11 DEF PayInv

LEMMA VoidPays ==
    ASSUME BillingInv, TypesOK, TypesOK', PayInv, NEW d \in Doc, VoidDocument(d)
    PROVE  PayInv'
<1>1. MoneyOK /\ MoneyOK' /\ DocsOK
  BY DEF TypesOK
<1>2. PICK q \in Quote : q = doc[d].quote
  BY QuoteOfDocument DEF VoidDocument
<1>3. /\ \A r \in Quote \ {q} : quote'[r] = quote[r]
      /\ \A e \in Doc \ {d} : doc'[e] = doc[e]
      /\ doc[d].state = "facturada" /\ doc'[d].state = "anulada"
      /\ doc'[d].quote = q
      /\ UNCHANGED paying /\ UNCHANGED advance /\ UNCHANGED paidTo /\ raced' = Races(q, Payer)
      /\ quote'[q].paid = quote[q].paid /\ quote'[q].total = quote[q].total
      /\ quote'[q].state = "pendiente"
  BY <1>1, <1>2 DEF VoidDocument, MoneyOK, DocsOK, DocRow, QuoteRow
<1>4. /\ \A r \in Quote \ {q} : r \in raced => r \in raced'
      /\ q \in raced => q \in raced'
      /\ \A p \in Payer : paying[p].quote = q => q \in raced'
  BY <1>3, RacesMarks
<1>5. /\ \A r \in Quote \ {q} : QuotePaid(r)' /\ DeletedIsFree(r)'
      /\ \A p \in Payer : PaymentInOrder(p)'
  <2>1. /\ \A e \in Doc : doc'[e].quote = doc[e].quote
        /\ \A e \in Doc : doc[e].quote # q => doc'[e] = doc[e] /\ paidTo'[e] = paidTo[e]
        /\ \A e \in Doc : doc[e].state \in Ended => doc'[e].state \in Ended
        /\ \A p \in Payer : paying'[p] = paying[p]
        /\ \A r \in Quote \ {q} : advance'[r] = advance[r]
    BY <1>2, <1>3 DEF Ended
  <2>. QED
    BY <1>1, <1>3, <1>4, <2>1, OtherQuotes
<1>6. d \in Active(q)
  BY <1>2, <1>3 DEF Active
<1>7. IssuedOf(q)' = {}
  <2>1. \A e \in IssuedOf(q)' : e \in Active(q) /\ e # d
    BY <1>3, <1>6 DEF IssuedOf, Active
  <2>. QED
    BY <1>1, <1>6, <2>1, PayFacts
<1>8. Paid(q)' = Paid(q)
  BY <1>1, <1>2, <1>3, PaidSame
<1>9. QuotePaid(q)' /\ DeletedIsFree(q)'
  <2>1. QuotePaid(q)
    BY DEF PayInv
  <2>. QED
    BY <1>3, <1>4, <1>7, <1>8, <2>1 DEF QuotePaid, DeletedIsFree
<1>10. \A e \in Doc : PaidWhenIssued(e)'
  BY <1>3 DEF PayInv, PaidWhenIssued, Ended
<1>. QED
  BY <1>5, <1>9, <1>10 DEF PayInv

LEMMA BeginPays ==
    ASSUME BillingInv, TypesOK, PayInv, NEW p \in Payer, NEW q \in Quote, NEW amount \in Totals,
           BeginPayment(p, q, amount)
    PROVE  PayInv'
<1>1. MoneyOK /\ DocsOK
  BY DEF TypesOK
<1>2. UNCHANGED quote /\ UNCHANGED doc /\ UNCHANGED advance /\ UNCHANGED paidTo /\ UNCHANGED raced
  BY DEF BeginPayment
<1>3. \A r \in Quote : Active(r)' = Active(r) /\ IssuedOf(r)' = IssuedOf(r) /\ Paid(r)' = Paid(r)
  BY <1>2 DEF Active, IssuedOf, Paid
<1>4. /\ \A r \in Quote : QuotePaid(r)' /\ DeletedIsFree(r)'
      /\ \A d \in Doc : PaidWhenIssued(d)'
  BY <1>2, <1>3 DEF PayInv, QuotePaid, DeletedIsFree, PaidWhenIssued
<1>5. PICK d \in Doc \cup {None} :
          /\ paying'[p].quote = q /\ paying'[p].amount = amount
          /\ paying'[p].seen = quote[q].paid /\ paying'[p].doc = d
          /\ d = None => IssuedOf(q) = {}
          /\ d # None => d \in IssuedOf(q)
          /\ IssuedOf(q) # {} => d = CHOOSE e \in IssuedOf(q) : TRUE
  <2>. DEFINE issued == CHOOSE d \in IssuedOf(q) : TRUE
              d == IF IssuedOf(q) = {} THEN None ELSE issued
  <2>1. IssuedOf(q) # {} => issued \in IssuedOf(q)
    OBVIOUS
  <2>2. IssuedOf(q) \subseteq Doc
    BY DEF IssuedOf, Active
  <2>. HIDE DEF issued
  <2>3. paying' = [paying EXCEPT ![p] = [quote |-> q, amount |-> amount, seen |-> quote[q].paid,
                                         doc |-> d]]
    BY DEF BeginPayment, issued
  <2>4. d \in Doc \cup {None}
    BY <2>1, <2>2
  <2>5. /\ d = None => IssuedOf(q) = {}
        /\ d # None => d \in IssuedOf(q)
        /\ IssuedOf(q) # {} => d = issued
    BY <2>1, <2>2, BillingAssumption
  <2>. HIDE DEF d
  <2>6. /\ paying'[p].quote = q /\ paying'[p].amount = amount
        /\ paying'[p].seen = quote[q].paid /\ paying'[p].doc = d
    BY <1>1, <2>3 DEF MoneyOK
  <2>. QED
    BY <2>4, <2>5, <2>6 DEF issued
<1>6. PaymentInOrder(p)'
  <2>1. amount <= Balance(q)
    BY DEF BeginPayment
  <2>2. d = None => amount <= quote[q].total - quote[q].paid
    BY <1>5, <2>1 DEF Balance
  <2>3. d # None => amount <= doc[d].total - paidTo[d]
    BY <1>5, <2>1 DEF Balance
  <2>4. d # None => doc[d].state \in Ended /\ doc[d].quote = q
    BY <1>5 DEF IssuedOf, Active, Ended
  <2>5. IssuedOf(q)' = IssuedOf(q)
    BY <1>3
  <2>. QED
    BY <1>2, <1>5, <2>2, <2>3, <2>4, <2>5 DEF PaymentInOrder
<1>7. ASSUME NEW o \in Payer \ {p} PROVE PaymentInOrder(o)'
  <2>1. paying'[o] = paying[o]
    BY <1>1 DEF BeginPayment, MoneyOK
  <2>2. PaymentInOrder(o)
    BY DEF PayInv
  <2>3. PICK r \in Quote \cup {None} : r = paying[o].quote
    BY <1>1 DEF MoneyOK, PaymentRow
  <2>4. r # None => IssuedOf(r)' = IssuedOf(r)
    BY <1>3
  <2>. QED
    BY <1>2, <2>1, <2>2, <2>3, <2>4 DEF PaymentInOrder, Live
<1>. QED
  BY <1>4, <1>6, <1>7 DEF PayInv

\* A payment that is refused at the end.
LEMMA RefusedPays ==
    ASSUME BillingInv, TypesOK, PayInv, NEW p \in Payer,
           paying' = [paying EXCEPT ![p] = NoPayment],
           UNCHANGED <<quote, doc, advance, paidTo, raced>>
    PROVE  PayInv'
<1>1. MoneyOK
  BY DEF TypesOK
<1>2. \A r \in Quote : Active(r)' = Active(r) /\ IssuedOf(r)' = IssuedOf(r) /\ Paid(r)' = Paid(r)
  BY DEF Active, IssuedOf, Paid
<1>3. /\ \A r \in Quote : QuotePaid(r)' /\ DeletedIsFree(r)'
      /\ \A d \in Doc : PaidWhenIssued(d)'
  BY <1>2 DEF PayInv, QuotePaid, DeletedIsFree, PaidWhenIssued
<1>4. PaymentInOrder(p)'
  BY <1>1 DEF MoneyOK, NoPayment, PaymentInOrder
<1>5. ASSUME NEW o \in Payer \ {p} PROVE PaymentInOrder(o)'
  <2>1. paying'[o] = paying[o]
    BY <1>1 DEF MoneyOK
  <2>2. PaymentInOrder(o)
    BY DEF PayInv
  <2>3. PICK r \in Quote \cup {None} : r = paying[o].quote
    BY <1>1 DEF MoneyOK, PaymentRow
  <2>4. r # None => IssuedOf(r)' = IssuedOf(r)
    BY <1>2
  <2>. QED
    BY <2>1, <2>2, <2>3, <2>4 DEF PaymentInOrder, Live
<1>. QED
  BY <1>3, <1>4, <1>5 DEF PayInv

LEMMA CommitPays ==
    ASSUME BillingInv, TypesOK, TypesOK', PayInv, NEW p \in Payer, CommitPayment(p)
    PROVE  PayInv'
<1>1. MoneyOK /\ MoneyOK' /\ DocsOK
  BY DEF TypesOK
<1>2. PICK q \in Quote : q = paying[p].quote
  BY <1>1 DEF CommitPayment, MoneyOK, PaymentRow
<1>3. PICK d \in Doc \cup {None} : d = paying[p].doc
  BY <1>1 DEF MoneyOK, PaymentRow
<1>4. CASE quote[q].state = "deleted" \/ (d # None /\ ~Live(d))
  BY <1>2, <1>3, <1>4, RefusedPays DEF CommitPayment
<1>5. CASE ~(quote[q].state = "deleted" \/ (d # None /\ ~Live(d)))
  <2>. DEFINE n == paying[p].amount
  <2>1. n \in Nat
    BY <1>1 DEF MoneyOK, PaymentRow
  <2>2. /\ \A r \in Quote \ {q} : quote'[r] = quote[r]
        /\ quote'[q].paid = paying[p].seen + n
        /\ quote'[q].state = quote[q].state /\ quote'[q].total = quote[q].total
        /\ UNCHANGED doc /\ raced' = Races(q, Payer \ {p})
        /\ \A o \in Payer \ {p} : paying'[o] = paying[o]
        /\ paying'[p] = NoPayment
    BY <1>1, <1>2, <1>3, <1>5 DEF CommitPayment, MoneyOK, QuoteRow
  <2>3. /\ d = None => /\ advance' = [advance EXCEPT ![q] = @ + n]
                       /\ UNCHANGED paidTo
        /\ d # None => /\ paidTo' = [paidTo EXCEPT ![d] = @ + n]
                       /\ UNCHANGED advance
    BY <1>2, <1>3, <1>5 DEF CommitPayment
  <2>4. PaymentInOrder(p)
    BY DEF PayInv
  <2>5. d # None => d \in Doc /\ doc[d].quote = q /\ doc[d].state \in Ended
    BY <1>2, <1>3, <2>4, BillingAssumption DEF PaymentInOrder
  <2>. HIDE DEF n
  <2>6. /\ \A r \in Quote \ {q} : advance'[r] = advance[r]
        /\ \A e \in Doc : e # d => paidTo'[e] = paidTo[e]
        /\ d = None => advance'[q] = advance[q] + n
        /\ d # None => advance'[q] = advance[q] /\ paidTo'[d] = paidTo[d] + n
    BY <1>1, <2>3, <2>5 DEF MoneyOK
  <2>7. /\ \A r \in Quote \ {q} : r \in raced => r \in raced'
        /\ q \in raced => q \in raced'
        /\ \A o \in Payer \ {p} : paying[o].quote = q => q \in raced'
    BY <2>2, RacesMarks
  <2>8. /\ \A r \in Quote \ {q} : QuotePaid(r)' /\ DeletedIsFree(r)'
        /\ \A o \in Payer \ {p} : PaymentInOrder(o)'
    <3>1. /\ \A e \in Doc : doc'[e].quote = doc[e].quote
          /\ \A e \in Doc : doc[e].quote # q => doc'[e] = doc[e] /\ paidTo'[e] = paidTo[e]
          /\ \A e \in Doc : doc[e].state \in Ended => doc'[e].state \in Ended
      BY <2>2, <2>5, <2>6, BillingAssumption
    <3>. DEFINE P == Payer \ {p}
    <3>2. P \in SUBSET Payer
      OBVIOUS
    <3>3. /\ \A o \in P : paying'[o] = paying[o]
          /\ \A o \in P : paying[o].quote = q => q \in raced' \/ quote'[q].state = "deleted"
      BY <2>2, <2>7
    <3>4. \A r \in Quote \ {q} : /\ quote'[r] = quote[r] /\ advance'[r] = advance[r]
                                 /\ r \in raced => r \in raced'
      BY <2>2, <2>6, <2>7
    <3>. HIDE DEF P
    <3>5. /\ \A r \in Quote \ {q} : QuotePaid(r)' /\ DeletedIsFree(r)'
          /\ \A o \in P : PaymentInOrder(o)'
      BY <1>1, <3>1, <3>2, <3>3, <3>4, OtherQuotes
    <3>. QED
      BY <3>5 DEF P
  <2>9. PaymentInOrder(p)'
    BY <2>2 DEF NoPayment, PaymentInOrder
  <2>10. Active(q)' = Active(q) /\ IssuedOf(q)' = IssuedOf(q)
    BY <2>2 DEF Active, IssuedOf
  <2>11. DeletedIsFree(q)'
    BY <1>1, <2>2, <2>10, PayFacts DEF DeletedIsFree
  <2>12. ASSUME q \notin raced'
         PROVE  /\ quote'[q].paid = advance'[q] + Paid(q)'
                /\ \A e \in IssuedOf(q)' : paidTo'[e] <= doc'[e].total
                /\ advance'[q] <= quote'[q].total
    <3>1. q \notin raced
      BY <2>7, <2>12
    <3>2. /\ quote[q].paid = advance[q] + Paid(q)
          /\ \A e \in IssuedOf(q) : paidTo[e] <= doc[e].total
          /\ advance[q] <= quote[q].total
          /\ advance[q] \in Nat /\ quote[q].total \in Nat /\ Paid(q) \in Nat
      BY <1>1, <3>1, PayFacts DEF QuotePaid
    <3>3. quote'[q].paid = quote[q].paid + n
      BY <1>2, <1>5, <2>2, <2>4, <3>1, BillingAssumption DEF PaymentInOrder
    <3>4. CASE d = None
      <4>1. IssuedOf(q) = {} /\ n <= quote[q].total - quote[q].paid
        BY <1>2, <1>3, <1>5, <2>4, <3>1, <3>4, BillingAssumption DEF PaymentInOrder, n
      <4>2. Paid(q)' = Paid(q)
        <5>1. \A e \in Doc : doc'[e].quote = q <=> doc[e].quote = q
          BY <2>2
        <5>2. \A e \in Doc : doc[e].quote = q => paidTo'[e] = paidTo[e]
          BY <2>6, <3>4, BillingAssumption
        <5>. QED
          BY <1>1, <5>1, <5>2, PaidSame
      <4>3. advance'[q] = advance[q] + n
        BY <2>6, <3>4
      <4>. QED
        BY <2>1, <2>2, <2>10, <3>2, <3>3, <4>1, <4>2, <4>3
    <3>5. CASE d # None
      <4>1. d \in IssuedOf(q) /\ n <= doc[d].total - paidTo[d]
        BY <1>2, <1>3, <1>5, <2>4, <3>1, <3>5, BillingAssumption DEF PaymentInOrder, n
      <4>2. d \in Doc /\ doc[d].quote = q /\ paidTo'[d] = paidTo[d] + n /\ advance'[q] = advance[q]
        BY <2>5, <2>6, <3>5
      <4>3. paidTo[d] \in Nat /\ doc[d].total \in Nat
        BY <1>1, <4>2, PayFacts
      <4>4. Paid(q)' = Paid(q) + n
        <5>1. /\ \A e \in Doc \ {d} : doc'[e].quote = doc[e].quote
              /\ \A e \in Doc \ {d} : paidTo'[e] = paidTo[e]
              /\ doc'[d].quote = q
          BY <2>2, <2>6, <4>2
        <5>2. Paid(q)' = Paid(q) - (IF doc[d].quote = q THEN paidTo[d] ELSE 0)
                                 + (IF doc'[d].quote = q THEN paidTo'[d] ELSE 0)
          BY <1>1, <4>2, <5>1, PaidChange
        <5>. QED
          BY <2>1, <3>2, <4>2, <4>3, <5>1, <5>2
      <4>5. ASSUME NEW e \in IssuedOf(q)' PROVE paidTo'[e] <= doc'[e].total
        <5>1. e = d
          BY <1>1, <2>10, <4>1, <4>5, PayFacts DEF IssuedOf
        <5>. QED
          BY <2>1, <2>2, <4>1, <4>2, <4>3, <5>1
      <4>6. quote'[q].paid = advance'[q] + Paid(q)'
        BY <2>1, <3>2, <3>3, <4>2, <4>4
      <4>. QED
        BY <2>2, <3>2, <4>2, <4>5, <4>6
    <3>. QED
      BY <3>4, <3>5
  <2>13. QuotePaid(q)'
    BY <2>12 DEF QuotePaid
  <2>14. \A e \in Doc : PaidWhenIssued(e)'
    <3>1. \A e \in Doc : PaidWhenIssued(e)
      BY DEF PayInv
    <3>. QED
      BY <2>2, <2>5, <2>6, <3>1, BillingAssumption DEF PaidWhenIssued
  <2>. QED
    BY <2>8, <2>9, <2>11, <2>13, <2>14 DEF PayInv
<1>. QED
  BY <1>4, <1>5

\* What the steps that concern no money do with a document.
LEMMA UntouchedSteps ==
    ASSUME BillingInv, TypesOK, TypesOK', PayInv, NEW d \in Doc,
           \/ \E q \in Quote, sync \in BOOLEAN : AskConversion(d, q, sync)
           \/ CreateDocument(d) \/ EndRequest(d)
           \/ HoldStock(d) \/ RefuseStock(d) \/ RefuseOverride(d)
           \/ EnqueueDocument(d) \/ Submit(d) \/ Unaccepted(d)
           \/ Rejected(d) \/ RetryDocument(d)
    PROVE  PayInv'
<1>1. MoneyOK /\ MoneyOK' /\ DocsOK /\ Sound(d)
  BY DEF TypesOK, BillingInv
<1>2. UNCHANGED <<quote, money>>
  BY DEF AskConversion, CreateDocument, EndRequest, HoldStock, RefuseStock, RefuseOverride,
         EnqueueDocument, Submit, Unaccepted, Rejected, RetryDocument
<1>3. ASSUME NEW q \in Quote, NEW sync \in BOOLEAN, AskConversion(d, q, sync)
      PROVE  PayInv'
  <2>1. /\ \A e \in Doc \ {d} : doc'[e] = doc[e]
        /\ doc[d].state = "none" /\ doc'[d].state = "asked"
    BY <1>1, <1>3 DEF AskConversion, DocsOK, DocRow
  <2>. QED
    BY <1>1, <1>2, <2>1, MoneyUntouched
<1>4. CASE CreateDocument(d)
  <2>1. /\ \A e \in Doc \ {d} : doc'[e] = doc[e]
        /\ doc[d].state = "asked" /\ doc'[d].state = "pendiente"
        /\ doc'[d].quote = doc[d].quote
    BY <1>1, <1>4 DEF CreateDocument, DocsOK, DocRow
  <2>2. quote[doc[d].quote].state # "deleted"
    BY <1>4 DEF CreateDocument, Convertible
  <2>. QED
    BY <1>1, <1>2, <2>1, <2>2, MoneyUntouched
<1>5. CASE EndRequest(d)
  <2>1. CASE doc[d].state = "asked" /\ doc' = [doc EXCEPT ![d] = NewDoc]
    <3>1. (\A e \in Doc \ {d} : doc'[e] = doc[e]) /\ doc'[d].state = "none"
      BY <1>1, <2>1 DEF DocsOK, NewDoc
    <3>. QED
      BY <1>1, <1>2, <2>1, <3>1, MoneyUntouched
  <2>2. CASE doc' = [doc EXCEPT ![d].step = "done"]
    <3>1. /\ \A e \in Doc \ {d} : doc'[e] = doc[e]
          /\ doc'[d].state = doc[d].state /\ doc'[d].quote = doc[d].quote
          /\ doc'[d].total = doc[d].total
      BY <1>1, <2>2 DEF DocsOK, DocRow
    <3>. QED
      BY <1>1, <1>2, <3>1, MoneyUntouched
  <2>. QED
    BY <1>5, <2>1, <2>2 DEF EndRequest
<1>6. CASE RefuseStock(d)
  <2>1. \A e \in Doc \ {d} : doc'[e] = doc[e]
    BY <1>1, <1>6 DEF RefuseStock, DocsOK
  <2>2. \/ /\ doc'[d].state = "deleted" /\ doc'[d].quote = doc[d].quote
           /\ doc[d].state = "pendiente"
        \/ /\ doc'[d].state = doc[d].state /\ doc'[d].quote = doc[d].quote
           /\ doc'[d].total = doc[d].total
    BY <1>1, <1>6 DEF RefuseStock, DocsOK, DocRow
  <2>. QED
    BY <1>1, <1>2, <2>1, <2>2, MoneyUntouched
<1>7. CASE RefuseOverride(d)
  <2>1. \A e \in Doc \ {d} : doc'[e] = doc[e]
    BY <1>1, <1>7 DEF RefuseOverride, DocsOK
  <2>2. \/ /\ doc'[d].state = "deleted" /\ doc'[d].quote = doc[d].quote
           /\ paidTo[d] = 0
        \/ /\ doc'[d].state = doc[d].state /\ doc'[d].quote = doc[d].quote
           /\ doc'[d].total = doc[d].total
    BY <1>1, <1>7 DEF RefuseOverride, DocsOK, DocRow
  <2>. QED
    BY <1>1, <1>2, <2>1, <2>2, MoneyUntouched
<1>8. CASE \/ HoldStock(d) \/ EnqueueDocument(d) \/ Submit(d) \/ Unaccepted(d)
           \/ Rejected(d) \/ RetryDocument(d)
  <2>1. /\ \A e \in Doc \ {d} : doc'[e] = doc[e]
        /\ doc'[d].state = doc[d].state /\ doc'[d].quote = doc[d].quote
        /\ doc'[d].total = doc[d].total
    BY <1>1, <1>8, ProgressRow DEF OnlyRow
  <2>. QED
    BY <1>1, <1>2, <2>1, MoneyUntouched
<1>. QED
  BY <1>3, <1>4, <1>5, <1>6, <1>7, <1>8

LEMMA PayNext ==
    ASSUME BillingInv, TypesOK, PayInv, [Next]_vars
    PROVE  PayInv'
<1>1. TypesOK'
  BY TypesNext
<1>2. CASE UNCHANGED <<quote, doc, money>>
  <2>1. /\ UNCHANGED quote /\ UNCHANGED doc /\ UNCHANGED advance /\ UNCHANGED paidTo
        /\ UNCHANGED paying /\ UNCHANGED raced
    BY <1>2 DEF money
  <2>. QED
    BY <2>1 DEF PayInv, QuotePaid, DeletedIsFree, PaymentInOrder, PaidWhenIssued, Paid,
                IssuedOf, Active, Live
<1>3. \/ UNCHANGED <<quote, doc, money>>
      \/ \E q \in Quote, total \in Totals : EditQuote(q, total)
      \/ \E q \in Quote : DeleteQuote(q)
      \/ \E d \in Doc : Accept(d) \/ VoidDocument(d)
      \/ \E p \in Payer, q \in Quote, amount \in Totals : BeginPayment(p, q, amount)
      \/ \E p \in Payer : CommitPayment(p)
      \/ \E d \in Doc :
             \/ \E q \in Quote, sync \in BOOLEAN : AskConversion(d, q, sync)
             \/ CreateDocument(d) \/ EndRequest(d)
             \/ HoldStock(d) \/ RefuseStock(d) \/ RefuseOverride(d)
             \/ EnqueueDocument(d) \/ Submit(d) \/ Unaccepted(d)
             \/ Rejected(d) \/ RetryDocument(d)
  <2>1. CASE Next
    BY <2>1 DEF Next, AdjustStock
  <2>2. CASE UNCHANGED vars
    BY <2>2 DEF vars, money
  <2>. QED
    BY <2>1, <2>2
<1>. QED
  BY <1>1, <1>2, <1>3, EditPays, DeletePays, AcceptPays, VoidPays, BeginPays, CommitPays,
     UntouchedSteps

-----------------------------------------------------------------------------
(* The whole invariant *)

SalesInv ==
    /\ BillingInv /\ TypesOK /\ NumbersInv /\ HoldsInv
    /\ PromisesStand /\ SoldIsGone /\ PayInv

LEMMA StockInitSums ==
    ASSUME Init
    PROVE  PromisesStand /\ SoldIsGone
<1>1. StockOK
  BY TypesInit DEF TypesOK
<1>2. /\ \A d \in Doc : hold[d].status = "none" /\ hold[d].authorised = FALSE
      /\ \A d \in Doc : doc[d].state = "none"
      /\ committed = 0 /\ onHand = InitialStock /\ taken = 0 /\ counted = 0
  BY DEF Init, StockInit, NoHold, NewDoc
<1>3. Promised = {} /\ Authorised = {} /\ Out = {}
  BY <1>2 DEF Promised, Authorised, Out, Held
<1>4. /\ SumFunctionOnSet(Amounts, Promised) = 0
      /\ SumFunctionOnSet(Amounts, Authorised) = 0
      /\ SumFunctionOnSet(Amounts, Out) = 0
  BY <1>3, SumEmpty
<1>5. InitialStock \in Nat
  BY StockAssumption
<1>. QED
  BY <1>2, <1>4, <1>5, StockParts

LEMMA SalesInit == Init => SalesInv
BY BillingInit, TypesInit, NumbersInit, HoldsInit, StockInitSums, PayInit DEF SalesInv

LEMMA SalesNext == SalesInv /\ [Next]_vars => SalesInv'
<1>. SUFFICES ASSUME SalesInv, [Next]_vars PROVE SalesInv'
  OBVIOUS
<1>1. /\ BillingInv /\ TypesOK /\ NumbersInv /\ HoldsInv
      /\ PromisesStand /\ SoldIsGone /\ PayInv
  BY DEF SalesInv
<1>2. BillingInv'
  BY <1>1, BillingNext
<1>3. TypesOK' /\ NumbersInv' /\ HoldsInv'
  BY <1>1, TypesNext, NumbersNext, HoldsNext
<1>4. PromisesStand' /\ SoldIsGone'
  BY <1>1, PromisesNext, SoldNext
<1>5. PayInv'
  BY <1>1, PayNext
<1>. QED
  BY <1>2, <1>3, <1>4, <1>5 DEF SalesInv

LEMMA SalesAlways == Spec => []SalesInv
BY SalesInit, SalesNext, PTL DEF Spec

\* Every row keeps to its columns, and nothing is promised or paid below zero.
THEOREM TypeCorrect == Spec => []TypesOK
<1>1. SalesInv => TypesOK
  BY DEF SalesInv
<1>. QED
  BY <1>1, SalesAlways, PTL

\* A number that reached the provider belongs to one document for good, unless a
\* synchronous request had it: a document of a job keeps its row from the moment
\* it has a job.
THEOREM SentNumberStandsHolds == Spec => []SentNumberStands
<1>1. SalesInv => SentNumberStands
  BY NumbersSent DEF SalesInv
<1>. QED
  BY <1>1, SalesAlways, PTL

\* What is committed is what the open holds promise, and it is there, except what
\* was taken away by hand and what an administrator authorised.
THEOREM PromisesStandHolds == Spec => []PromisesStand
<1>1. SalesInv => PromisesStand
  BY DEF SalesInv
<1>. QED
  BY <1>1, SalesAlways, PTL

\* The goods that are gone are those of the sales in force, and goods are missing
\* only where somebody took or authorised what was not there.
THEOREM SoldIsGoneHolds == Spec => []SoldIsGone
<1>1. SalesInv => SoldIsGone
  BY DEF SalesInv
<1>. QED
  BY <1>1, SalesAlways, PTL

\* A payment that nothing overlaps counts once and never overpays its document,
\* for any number of payers, quotes and conversions.
THEOREM PaymentsCountOnceHolds == Spec => []PaymentsCountOnce
<1>1. SalesInv => PaymentsCountOnce
  BY PayProperty DEF SalesInv
<1>. QED
  BY <1>1, SalesAlways, PTL

=============================================================================
