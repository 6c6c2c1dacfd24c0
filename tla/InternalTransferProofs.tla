----------------------- MODULE InternalTransferProofs -----------------------
(***************************************************************************)
(* Theorems about InternalTransfer for any transfers, dispatches,          *)
(* quantities and bounds: what each row may become, and from that what the *)
(* goods, the commitments and the claims on a transfer add up to.          *)
(***************************************************************************)
EXTENDS InternalTransfer, SumTheorems

-----------------------------------------------------------------------------
(* Rows *)

TransferRow == [status : TransferStatus, quantity : Nat, cancelled : Nat,
                sameSite : BOOLEAN, controlled : BOOLEAN]

DispatchRow == [status : DispatchStatus, of : Transfer \cup {None}, line : Line,
                quantity : Nat, departed : Nat, received : Nat,
                left : BOOLEAN, guide : Guide]

PapersOK ==
    /\ readers \in [Dispatch -> 0 .. Readers]
    /\ emission \in [Dispatch -> {"none", "queued", "sent", "doubt", "done", "failed"}]
    /\ consult \in [Dispatch -> {"none", "out", "done"}]
    /\ verdict \in [Dispatch -> {"none", "accepted", "rejected"}]

StockOK ==
    /\ stock \in [source : Int, destination : Int]
    /\ committed \in Nat
    /\ adjusted \in [source : Int, destination : Int]
    /\ strayed \subseteq Dispatch

CancellingOK ==
    cancelling \in [t : Transfer \cup {None}, closing : SUBSET Dispatch, drafts : SUBSET Dispatch]

\* The type invariant, with names for its parts.
LEMMA TypeParts ==
    TypeOK <=> /\ transfer \in [Transfer -> TransferRow]
               /\ dispatch \in [Dispatch -> DispatchRow]
               /\ PapersOK /\ StockOK /\ CancellingOK
BY DEF TypeOK, TransferRow, DispatchRow, PapersOK, StockOK, CancellingOK

\* What the columns of a dispatch say of one another: all of it leaves at once,
\* and its line tells whether it has left and arrived.
SoundRow(row) ==
    /\ row.status = "none" => ~row.left /\ row.guide = "none"
    /\ row.status # "none" => row.of \in Transfer /\ row.quantity > 0
    /\ row.left => /\ row.departed = row.quantity /\ row.received <= row.quantity
                   /\ row.line = IF row.received = row.quantity THEN "received" ELSE "departed"
    /\ ~row.left => /\ row.departed = 0 /\ row.received = 0
                    /\ row.line \in {"active", "covered", "released"}

\* A row may follow another one.
Follows(new, old) ==
    /\ new \in DispatchRow /\ SoundRow(new)
    /\ old.status # "none" => /\ new.status # "none" /\ new.of = old.of
                              /\ new.quantity = old.quantity
    /\ old.guide # "none" => new.guide # "none"
    /\ old.left => /\ new.left /\ new.departed = old.departed
                   /\ new.received >= old.received

\* What the guide of a dispatch and the jobs about it say: only a transfer between
\* establishments has guides, nothing is asked of SUNAT without one, and it is
\* issued only on SUNAT's word.
Papers(d) ==
    /\ dispatch[d].status # "none" => transfer[dispatch[d].of].status # "none"
    /\ dispatch[d].guide # "none" => dispatch[d].status # "none" /\ RequiresGre(d)
    /\ readers[d] # 0 \/ emission[d] # "none" \/ consult[d] # "none" \/ verdict[d] # "none"
           => dispatch[d].guide # "none"
    /\ dispatch[d].guide = "emitida" => verdict[d] = "accepted"

\* A cancellation closes dispatches of its own transfer, and cancels guides that
\* are there.
Cancelling ==
    cancelling # Idle => /\ cancelling.t \in Transfer
                         /\ transfer[cancelling.t].status # "none"
                         /\ cancelling.closing \subseteq OfTransfer(dispatch, cancelling.t)
                         /\ \A d \in cancelling.drafts : dispatch[d].guide # "none"

RowInv ==
    /\ TypeOK
    /\ \A d \in Dispatch : SoundRow(dispatch[d]) /\ Papers(d)
    /\ Cancelling

\* The step writes dispatches as they may follow, and the transfer of a dispatch
\* stays the order it was.
RowsFollow ==
    /\ dispatch' \in [Dispatch -> DispatchRow]
    /\ transfer' \in [Transfer -> TransferRow]
    /\ \A d \in Dispatch : Follows(dispatch'[d], dispatch[d])
    /\ \A t \in Transfer : /\ transfer[t].status # "none" => transfer'[t].status # "none"
                           /\ OfTransfer(dispatch, t) # {} =>
                                  /\ transfer'[t].quantity = transfer[t].quantity
                                  /\ transfer'[t].sameSite = transfer[t].sameSite
                                  /\ transfer'[t].controlled = transfer[t].controlled

LEMMA SameFollows ==
    ASSUME NEW row \in DispatchRow, SoundRow(row) PROVE Follows(row, row)
BY DEF Follows, DispatchRow

\* Guide, status and a line that still holds goods may be rewritten.
LEMMA PapersFollow ==
    ASSUME NEW old \in DispatchRow, SoundRow(old), old.status # "none",
           NEW g \in Guide \ {"none"}, NEW s \in DispatchStatus \ {"none"}, NEW l \in Line,
           l = old.line \/ (old.line = "active" /\ l \in {"covered", "released"})
    PROVE  Follows([old EXCEPT !.guide = g, !.status = s, !.line = l], old)
<1>. DEFINE new == [old EXCEPT !.guide = g, !.status = s, !.line = l]
<1>1. new \in DispatchRow
  BY DEF DispatchRow
<1>2. /\ new.status = s /\ new.of = old.of /\ new.quantity = old.quantity
      /\ new.departed = old.departed /\ new.received = old.received
      /\ new.left = old.left /\ new.guide = g /\ new.line = l
  BY DEF DispatchRow
<1>3. /\ old.received \in Nat /\ old.quantity \in Nat /\ old.left \in BOOLEAN
  BY DEF DispatchRow
<1>. HIDE DEF new
<1>4. SoundRow(new)
  BY <1>2, <1>3 DEF SoundRow
<1>. QED
  BY <1>1, <1>2, <1>3, <1>4 DEF Follows, new

\* The status that is computed is one.
LEMMA RefreshedStatus ==
    ASSUME NEW tr, NEW ds, NEW t
    PROVE  Refreshed(tr, ds, t) \in TransferStatus \ {"none"}
BY DEF Refreshed, TransferStatus

LEMMA StatusRow ==
    ASSUME NEW tr \in TransferRow, NEW st \in TransferStatus
    PROVE  /\ [tr EXCEPT !.status = st] \in TransferRow
           /\ [tr EXCEPT !.status = st].status = st
           /\ [tr EXCEPT !.status = st].quantity = tr.quantity
           /\ [tr EXCEPT !.status = st].cancelled = tr.cancelled
           /\ [tr EXCEPT !.status = st].sameSite = tr.sameSite
           /\ [tr EXCEPT !.status = st].controlled = tr.controlled
BY DEF TransferRow

\* Nothing but one transfer is written.
LEMMA OneOrder ==
    ASSUME RowInv, NEW t \in Transfer, NEW row \in TransferRow,
           transfer' = [transfer EXCEPT ![t] = row]
    PROVE  /\ transfer' \in [Transfer -> TransferRow]
           /\ transfer'[t] = row
           /\ \A u \in Transfer \ {t} : transfer'[u] = transfer[u]
BY TypeParts DEF RowInv

\* Nothing but one dispatch is written.
LEMMA OneRow ==
    ASSUME RowInv, NEW d \in Dispatch, NEW row, Follows(row, dispatch[d]),
           dispatch' = [dispatch EXCEPT ![d] = row]
    PROVE  /\ dispatch' \in [Dispatch -> DispatchRow]
           /\ \A e \in Dispatch : Follows(dispatch'[e], dispatch[e])
           /\ dispatch'[d] = row
           /\ \A e \in Dispatch \ {d} : dispatch'[e] = dispatch[e]
<1>0. dispatch \in [Dispatch -> DispatchRow]
  BY TypeParts DEF RowInv
<1>1. row \in DispatchRow
  BY DEF Follows
<1>2. \A e \in Dispatch \ {d} : dispatch'[e] = dispatch[e]
  BY <1>0
<1>3. dispatch'[d] = row
  BY <1>0
<1>. QED
  BY <1>0, <1>1, <1>2, <1>3, SameFollows DEF RowInv

-----------------------------------------------------------------------------
(* Every step rewrites rows that way *)

\* The quantities of dispatches add up to a natural number.
LEMMA SumIsNat ==
    ASSUME NEW ds \in [Dispatch -> DispatchRow], NEW D \in SUBSET Dispatch,
           NEW field \in {"quantity", "departed", "received"}
    PROVE  Sum(ds, D, field) \in Nat
<1>. DEFINE f == [d \in Dispatch |-> ds[d][field]]
<1>1. \A d \in D : f[d] \in Nat
  BY DEF DispatchRow
<1>2. IsFiniteSet(D)
  BY QuantityAssumption, FS_Subset
<1>. HIDE DEF f
<1>3. SumFunctionOnSet(f, D) \in Nat
  BY <1>1, <1>2, SumNat
<1>. QED
  BY <1>3 DEF Sum, f

LEMMA UncommitNat ==
    ASSUME committed \in Nat, NEW q \in Nat PROVE Uncommit(q) \in Nat
BY DEF Uncommit

\* What a step has to show about the dispatch it is about, and what follows
\* for all of them.
Kept(d) ==
    /\ dispatch[d].status # "none"
    /\ dispatch'[d].guide # "none" => RequiresGre(d)
    /\ readers'[d] # 0 \/ emission'[d] # "none" \/ consult'[d] # "none" \/ verdict'[d] # "none"
           => dispatch'[d].guide # "none"
    /\ dispatch'[d].guide = "emitida" => verdict'[d] = "accepted"

Untouched(d) ==
    /\ dispatch'[d] = dispatch[d] /\ readers'[d] = readers[d] /\ emission'[d] = emission[d]
    /\ consult'[d] = consult[d] /\ verdict'[d] = verdict[d]

LEMMA OrderOf ==
    ASSUME RowInv, NEW d \in Dispatch, dispatch[d].status # "none"
    PROVE  dispatch[d].of \in Transfer /\ d \in OfTransfer(dispatch, dispatch[d].of)
BY DEF RowInv, SoundRow, OfTransfer

LEMMA PapersKept ==
    ASSUME RowInv, RowsFollow, NEW d \in Dispatch, Kept(d) \/ Untouched(d)
    PROVE  Papers(d)'
<1>1. CASE dispatch[d].status = "none"
  <2>1. Untouched(d) /\ Papers(d) /\ SoundRow(dispatch[d])
    BY <1>1 DEF Kept, RowInv
  <2>. QED
    BY <1>1, <2>1 DEF Untouched, Papers, SoundRow
<1>2. CASE dispatch[d].status # "none"
  <2>. DEFINE t == dispatch[d].of
  <2>1. t \in Transfer /\ OfTransfer(dispatch, t) # {}
    BY <1>2, OrderOf
  <2>2. /\ transfer[t].status # "none" => transfer'[t].status # "none"
        /\ transfer'[t].sameSite = transfer[t].sameSite
    BY <2>1 DEF RowsFollow
  <2>3. dispatch'[d].status # "none" /\ dispatch'[d].of = t
    BY <1>2 DEF RowsFollow, Follows
  <2>4. RequiresGre(d) = RequiresGre(d)'
    BY <2>2, <2>3 DEF RequiresGre
  <2>5. Papers(d)
    BY DEF RowInv
  <2>. HIDE DEF t
  <2>6. transfer'[dispatch'[d].of].status # "none"
    BY <1>2, <2>2, <2>3, <2>5 DEF Papers, t
  <2>. QED
    BY <2>3, <2>4, <2>5, <2>6 DEF Papers, Kept, Untouched
<1>. QED
  BY <1>1, <1>2

\* A cancellation under way still closes what it read.
LEMMA CancellingKept ==
    ASSUME RowInv, RowsFollow, cancelling' = cancelling
    PROVE  Cancelling'
<1>. SUFFICES ASSUME cancelling # Idle
              PROVE  /\ cancelling.t \in Transfer
                     /\ transfer'[cancelling.t].status # "none"
                     /\ cancelling.closing \subseteq OfTransfer(dispatch', cancelling.t)
                     /\ \A d \in cancelling.drafts : dispatch'[d].guide # "none"
  BY Zenon DEF Cancelling, Idle
<1>1. /\ cancelling.t \in Transfer
      /\ transfer[cancelling.t].status # "none"
      /\ cancelling.closing \subseteq OfTransfer(dispatch, cancelling.t)
      /\ \A d \in cancelling.drafts : dispatch[d].guide # "none"
  BY DEF RowInv, Cancelling
<1>2. cancelling.drafts \subseteq Dispatch
  BY TypeParts DEF RowInv, CancellingOK
<1>3. \A d \in cancelling.drafts : dispatch'[d].guide # "none"
  BY <1>1, <1>2 DEF RowsFollow, Follows
<1>4. OfTransfer(dispatch, cancelling.t) \subseteq OfTransfer(dispatch', cancelling.t)
  BY DEF RowsFollow, Follows, OfTransfer
<1>. QED
  BY <1>1, <1>3, <1>4 DEF RowsFollow

LEMMA RowInvKept ==
    ASSUME RowInv, RowsFollow, PapersOK', StockOK', CancellingOK', Cancelling',
           \A d \in Dispatch : Kept(d) \/ Untouched(d)
    PROVE  RowInv'
<1>1. \A d \in Dispatch : SoundRow(dispatch'[d]) /\ Papers(d)'
  BY PapersKept DEF RowsFollow, Follows
<1>2. TypeOK'
  BY DEF TypeOK, TransferRow, DispatchRow, PapersOK, StockOK, CancellingOK, RowsFollow
<1>. QED
  BY <1>1, <1>2 DEF RowInv

RowStep == RowsFollow /\ RowInv'

\* An order is written; it has no dispatches.
LEMMA OrderWritten ==
    ASSUME RowInv, NEW t \in Transfer, NEW q \in Quantity, NEW s \in BOOLEAN, NEW c \in BOOLEAN,
           CreateTransfer(t, q, s, c) \/ UpdateTransfer(t, q, s, c)
    PROVE  RowStep
<1>0. /\ transfer \in [Transfer -> TransferRow] /\ dispatch \in [Dispatch -> DispatchRow]
      /\ PapersOK /\ StockOK /\ CancellingOK
  BY TypeParts DEF RowInv
<1>1. OfTransfer(dispatch, t) = {}
  BY DEF CreateTransfer, UpdateTransfer, OfTransfer, RowInv, Papers
<1>2. PICK st \in TransferStatus \ {"none"} :
         transfer' = [transfer EXCEPT ![t] = [status |-> st, quantity |-> q, cancelled |-> 0,
                                              sameSite |-> s, controlled |-> c]]
  BY <1>0 DEF CreateTransfer, UpdateTransfer, TransferRow, TransferStatus
<1>. DEFINE row == [status |-> st, quantity |-> q, cancelled |-> 0, sameSite |-> s,
                    controlled |-> c]
<1>3. row \in TransferRow /\ row.status # "none"
  BY QuantityAssumption DEF TransferRow
<1>. HIDE DEF row
<1>4. transfer' = [transfer EXCEPT ![t] = row]
  BY <1>2 DEF row
<1>5. /\ UNCHANGED <<dispatch, stock, committed, cancelling, readers, emission, consult,
                     verdict, adjusted, strayed>>
      /\ cancelling = Idle
  BY DEF CreateTransfer, UpdateTransfer, fiscal, books, Unlocked
<1>6. \A d \in Dispatch : Follows(dispatch'[d], dispatch[d])
  BY <1>0, <1>5, SameFollows DEF RowInv
<1>7. RowsFollow
  BY <1>0, <1>1, <1>3, <1>4, <1>5, <1>6 DEF RowsFollow
<1>8. Cancelling'
  BY <1>5, <1>7, CancellingKept
<1>. QED
  BY <1>0, <1>5, <1>7, <1>8, RowInvKept
  DEF RowStep, PapersOK, StockOK, CancellingOK, Untouched

LEMMA DispatchCreated ==
    ASSUME RowInv, NEW d \in Dispatch, NEW t \in Transfer, NEW q \in Quantity,
           CreateDispatch(d, t, q)
    PROVE  /\ RowStep
           /\ dispatch'[d].of = t /\ dispatch'[d].quantity = q /\ dispatch'[d].line = "active"
           /\ dispatch'[d].status = "reserved" /\ verdict[d] = "none"
           /\ dispatch[d].departed = 0 /\ dispatch[d].received = 0
           /\ dispatch'[d].departed = 0 /\ dispatch'[d].received = 0
           /\ \A e \in Dispatch \ {d} : dispatch'[e] = dispatch[e]
           /\ transfer'[t] = [transfer[t] EXCEPT !.status = "pending"]
           /\ \A u \in Transfer \ {t} : transfer'[u] = transfer[u]
<1>0. /\ transfer \in [Transfer -> TransferRow] /\ dispatch \in [Dispatch -> DispatchRow]
      /\ PapersOK /\ StockOK /\ CancellingOK
  BY TypeParts DEF RowInv
<1>. DEFINE row == [dispatch[d] EXCEPT !.status = "reserved", !.of = t, !.line = "active",
                                       !.quantity = q]
<1>1. /\ dispatch[d] \in DispatchRow /\ dispatch[d].status = "none" /\ ~dispatch[d].left
      /\ dispatch[d].guide = "none" /\ dispatch[d].departed = 0 /\ dispatch[d].received = 0
  BY <1>0 DEF RowInv, SoundRow, CreateDispatch
<1>2. q \in Nat /\ q > 0
  BY QuantityAssumption
<1>3. row \in DispatchRow
  BY <1>1, <1>2 DEF DispatchRow, DispatchStatus, Line
<1>4. /\ row.status = "reserved" /\ row.of = t /\ row.line = "active" /\ row.quantity = q
      /\ row.left = dispatch[d].left /\ row.departed = 0 /\ row.received = 0
      /\ row.guide = "none"
  BY <1>1 DEF DispatchRow
<1>5. dispatch' = [dispatch EXCEPT ![d] = row]
  BY DEF CreateDispatch
<1>. HIDE DEF row
<1>6. Follows(row, dispatch[d])
  BY <1>1, <1>2, <1>3, <1>4 DEF Follows, SoundRow
<1>7. /\ dispatch' \in [Dispatch -> DispatchRow]
      /\ \A e \in Dispatch : Follows(dispatch'[e], dispatch[e])
      /\ dispatch'[d] = row
      /\ \A e \in Dispatch \ {d} : dispatch'[e] = dispatch[e]
  BY <1>5, <1>6, OneRow
<1>8. /\ UNCHANGED <<stock, cancelling, readers, emission, consult, verdict, adjusted, strayed>>
      /\ cancelling = Idle
      /\ transfer[t].status # "none"
      /\ transfer' = [transfer EXCEPT ![t].status = "pending"]
      /\ committed' \in {committed, committed + q}
  BY DEF CreateDispatch, fiscal, books, Unlocked
<1>9. /\ transfer' \in [Transfer -> TransferRow]
      /\ transfer'[t] = [transfer[t] EXCEPT !.status = "pending"]
      /\ \A u \in Transfer \ {t} : transfer'[u] = transfer[u]
      /\ transfer'[t].status # "none" /\ transfer'[t].quantity = transfer[t].quantity
      /\ transfer'[t].sameSite = transfer[t].sameSite
      /\ transfer'[t].controlled = transfer[t].controlled
  BY <1>0, <1>8 DEF TransferRow, TransferStatus
<1>10. RowsFollow
  BY <1>7, <1>9 DEF RowsFollow
<1>11. Cancelling'
  BY <1>8, <1>10, CancellingKept
<1>12. Papers(d) /\ verdict[d] = "none"
  BY <1>1 DEF RowInv, Papers
<1>13. Papers(d)'
  BY <1>1, <1>4, <1>7, <1>8, <1>9, <1>12 DEF Papers
<1>14. ASSUME NEW e \in Dispatch \ {d} PROVE Papers(e)'
  BY <1>7, <1>8, <1>10, PapersKept DEF Untouched
<1>15. TypeOK'
  BY <1>0, <1>2, <1>8, <1>10
  DEF TypeOK, RowsFollow, TransferRow, DispatchRow, PapersOK, StockOK, CancellingOK
<1>16. RowInv'
  BY <1>10, <1>11, <1>13, <1>14, <1>15 DEF RowInv, RowsFollow, Follows
<1>. QED
  BY <1>1, <1>4, <1>7, <1>9, <1>10, <1>12, <1>16 DEF RowStep

\* What the cancellation closes, row by row.
LEMMA CancellationWritten ==
    ASSUME RowInv, CancelCommit, NEW t, t = cancelling.t
    PROVE  /\ RowStep
           /\ t \in Transfer /\ cancelling.closing \subseteq OfTransfer(dispatch, t)
           /\ \A d \in cancelling.closing :
                 /\ dispatch'[d].line = IF dispatch[d].line = "active" THEN "released"
                                        ELSE dispatch[d].line
                 /\ dispatch'[d].of = dispatch[d].of
                 /\ dispatch'[d].status # "none" /\ dispatch[d].status # "none"
                 /\ dispatch'[d].quantity = dispatch[d].quantity
                 /\ dispatch'[d].departed = dispatch[d].departed
                 /\ dispatch'[d].received = dispatch[d].received
           /\ \A d \in Dispatch \ cancelling.closing : dispatch'[d] = dispatch[d]
           /\ transfer'[t].cancelled = CancelledQuantity(t, dispatch')
           /\ transfer'[t].quantity = transfer[t].quantity
           /\ transfer'[t].status = Refreshed(transfer'[t], dispatch', t)
           /\ \A u \in Transfer \ {t} : transfer'[u] = transfer[u]
<1>0. /\ transfer \in [Transfer -> TransferRow] /\ dispatch \in [Dispatch -> DispatchRow]
      /\ PapersOK /\ StockOK /\ CancellingOK /\ TypeOK
  BY TypeParts DEF RowInv
<1>1. /\ cancelling # Idle /\ t \in Transfer
      /\ cancelling.closing \subseteq OfTransfer(dispatch, t)
      /\ \A d \in cancelling.drafts : dispatch[d].guide # "none"
  BY DEF RowInv, Cancelling, CancelCommit, Unlocked
<1>. DEFINE closed(d) == [dispatch[d] EXCEPT
                            !.line = IF @ = "active" THEN "released" ELSE @,
                            !.guide = IF d \in cancelling.drafts THEN "cancelled" ELSE @,
                            !.status = "cancelled"]
            ds == [d \in Dispatch |-> IF d \in cancelling.closing THEN closed(d) ELSE dispatch[d]]
            quantity == CancelledQuantity(t, ds)
            tr == [transfer[t] EXCEPT !.cancelled = quantity]
<1>2. /\ RefreshTransferStatus(tr, ds, t)
      /\ committed' = Uncommit(ReleasedQuantity(cancelling.closing))
      /\ cancelling' = Idle
      /\ UNCHANGED <<stock, readers, emission, consult, verdict, adjusted, strayed>>
  BY Zenon DEF CancelCommit, fiscal, books
<1>3. ASSUME NEW d \in cancelling.closing
      PROVE  /\ d \in Dispatch /\ dispatch[d] \in DispatchRow /\ SoundRow(dispatch[d])
             /\ dispatch[d].status # "none"
             /\ closed(d) \in DispatchRow /\ closed(d).status = "cancelled"
             /\ closed(d).line = IF dispatch[d].line = "active" THEN "released"
                                 ELSE dispatch[d].line
             /\ closed(d).guide = IF d \in cancelling.drafts THEN "cancelled"
                                  ELSE dispatch[d].guide
             /\ closed(d).of = dispatch[d].of /\ closed(d).quantity = dispatch[d].quantity
             /\ closed(d).departed = dispatch[d].departed
             /\ closed(d).received = dispatch[d].received
             /\ closed(d).left = dispatch[d].left
  <2>1. d \in Dispatch /\ dispatch[d].status # "none"
    BY <1>1 DEF OfTransfer
  <2>2. dispatch[d] \in DispatchRow /\ SoundRow(dispatch[d])
    BY <1>0, <2>1 DEF RowInv
  <2>. QED
    BY <2>1, <2>2 DEF DispatchRow, DispatchStatus, Line, Guide
<1>4. /\ \A d \in cancelling.closing : ds[d] = closed(d)
      /\ \A d \in Dispatch \ cancelling.closing : ds[d] = dispatch[d]
      /\ ds \in [Dispatch -> DispatchRow]
  BY <1>0, <1>3
<1>. HIDE DEF closed, ds
<1>5. quantity \in Nat
  <2>1. Allocated(ds, t) \in Nat
    BY <1>4, SumIsNat DEF Allocated, OfTransfer
  <2>2. transfer[t].quantity \in Nat
    BY <1>0, <1>1 DEF TransferRow
  <2>. QED
    BY <2>1, <2>2 DEF CancelledQuantity
<1>6. tr \in TransferRow /\ tr.cancelled = quantity /\ tr.quantity = transfer[t].quantity
      /\ tr.sameSite = transfer[t].sameSite /\ tr.controlled = transfer[t].controlled
  BY <1>0, <1>1, <1>5 DEF TransferRow
<1>. HIDE DEF tr, quantity
<1>7. /\ dispatch' = ds
      /\ transfer' \in [Transfer -> TransferRow]
      /\ \A u \in Transfer \ {t} : transfer'[u] = transfer[u]
      /\ transfer'[t].status = Refreshed(tr, ds, t) /\ transfer'[t].status # "none"
      /\ transfer'[t].quantity = tr.quantity /\ transfer'[t].cancelled = tr.cancelled
      /\ transfer'[t].sameSite = tr.sameSite /\ transfer'[t].controlled = tr.controlled
  <2>1. /\ dispatch' = ds
        /\ transfer' = [transfer EXCEPT ![t] = [tr EXCEPT !.status = Refreshed(tr, ds, t)]]
    BY <1>2 DEF RefreshTransferStatus
  <2>2. Refreshed(tr, ds, t) \in TransferStatus \ {"none"}
    BY RefreshedStatus
  <2>. QED
    <3>. DEFINE st == Refreshed(tr, ds, t)
                row == [tr EXCEPT !.status = st]
    <3>1. /\ row \in TransferRow /\ row.status = st
          /\ row.quantity = tr.quantity /\ row.cancelled = tr.cancelled
          /\ row.sameSite = tr.sameSite /\ row.controlled = tr.controlled
      BY <1>6, <2>2, StatusRow
    <3>2. transfer' = [transfer EXCEPT ![t] = row]
      BY <2>1
    <3>. HIDE DEF row
    <3>3. /\ transfer' \in [Transfer -> TransferRow]
          /\ transfer'[t] = row
          /\ \A u \in Transfer \ {t} : transfer'[u] = transfer[u]
      BY <1>1, <3>1, <3>2, OneOrder
    <3>. QED
      BY <2>1, <2>2, <3>1, <3>3
<1>8. ASSUME NEW d \in Dispatch PROVE Follows(ds[d], dispatch[d])
  <2>1. CASE d \in cancelling.closing
    <3>. DEFINE new == closed(d)
    <3>1. new \in DispatchRow
      BY <1>3, <2>1
    <3>2. /\ new.status # "none" /\ new.of = dispatch[d].of
          /\ new.quantity = dispatch[d].quantity /\ new.departed = dispatch[d].departed
          /\ new.received = dispatch[d].received /\ new.left = dispatch[d].left
          /\ dispatch[d].guide # "none" => new.guide # "none"
          /\ new.line = IF dispatch[d].line = "active" THEN "released" ELSE dispatch[d].line
      BY <1>3, <2>1
    <3>3. SoundRow(dispatch[d]) /\ dispatch[d].status # "none"
      BY <1>3, <2>1
    <3>4. dispatch[d].received \in Nat /\ dispatch[d].quantity \in Nat
      BY <1>0 DEF DispatchRow
    <3>. HIDE DEF new
    <3>5. SoundRow(new)
      BY <3>2, <3>3, <3>4 DEF SoundRow
    <3>6. Follows(new, dispatch[d])
      BY <3>1, <3>2, <3>3, <3>4, <3>5 DEF Follows
    <3>. QED
      BY <1>4, <2>1, <3>6 DEF new
  <2>2. CASE d \notin cancelling.closing
    BY <1>0, <1>4, <2>2, SameFollows DEF RowInv
  <2>. QED
    BY <2>1, <2>2
<1>9. RowsFollow
  <2>1. \A u \in Transfer : /\ transfer[u].status # "none" => transfer'[u].status # "none"
                            /\ transfer'[u].quantity = transfer[u].quantity
                            /\ transfer'[u].sameSite = transfer[u].sameSite
                            /\ transfer'[u].controlled = transfer[u].controlled
    BY <1>6, <1>7
  <2>. QED
    BY <1>4, <1>7, <1>8, <2>1 DEF RowsFollow
<1>10. ASSUME NEW d \in Dispatch PROVE Kept(d) \/ Untouched(d)
  <2>1. CASE d \in cancelling.closing
    <3>1. Papers(d)
      BY DEF RowInv
    <3>2. /\ dispatch'[d].guide = IF d \in cancelling.drafts THEN "cancelled"
                                  ELSE dispatch[d].guide
          /\ dispatch[d].status # "none"
      BY <1>3, <1>4, <1>7, <2>1
    <3>. QED
      BY <1>1, <1>2, <3>1, <3>2 DEF Papers, Kept
  <2>2. CASE d \notin cancelling.closing
    BY <1>2, <1>4, <1>7, <2>2 DEF Untouched
  <2>. QED
    BY <2>1, <2>2
<1>11. committed' \in Nat
  <2>1. {d \in cancelling.closing : dispatch[d].line = "active" /\ Controlled(d)} \subseteq Dispatch
    BY <1>3
  <2>2. ReleasedQuantity(cancelling.closing) \in Nat
    BY <1>0, <2>1, SumIsNat DEF ReleasedQuantity
  <2>. QED
    BY <1>0, <1>2, <2>2, UncommitNat DEF StockOK
<1>12. RowInv'
  <2>1. PapersOK' /\ StockOK'
    BY <1>0, <1>2, <1>11 DEF PapersOK, StockOK
  <2>2. CancellingOK' /\ Cancelling'
    BY <1>2 DEF CancellingOK, Cancelling, Idle
  <2>. QED
    BY <1>9, <1>10, <2>1, <2>2, RowInvKept
<1>13. \A d \in cancelling.closing :
          /\ dispatch'[d].line = IF dispatch[d].line = "active" THEN "released"
                                 ELSE dispatch[d].line
          /\ dispatch'[d].of = dispatch[d].of
          /\ dispatch'[d].status # "none" /\ dispatch[d].status # "none"
          /\ dispatch'[d].quantity = dispatch[d].quantity
          /\ dispatch'[d].departed = dispatch[d].departed
          /\ dispatch'[d].received = dispatch[d].received
  BY <1>3, <1>4, <1>7
<1>14. transfer'[t].status = Refreshed(transfer'[t], dispatch', t)
  BY <1>6, <1>7 DEF Refreshed
<1>. QED
  BY <1>1, <1>4, <1>6, <1>7, <1>9, <1>12, <1>13, <1>14 DEF RowStep, quantity

\* Reading what is to be cancelled writes no row.
LEMMA CancellationRead ==
    ASSUME RowInv, NEW t \in Transfer, CancelRead(t)
    PROVE  RowStep
<1>0. /\ transfer \in [Transfer -> TransferRow] /\ dispatch \in [Dispatch -> DispatchRow]
      /\ PapersOK /\ StockOK
  BY TypeParts DEF RowInv
<1>. DEFINE open == {d \in OfTransfer(dispatch, t) : dispatch[d].status \notin BlockingStates}
            drafts == {d \in open : dispatch[d].guide = "pendiente"}
<1>1. /\ cancelling' = [t |-> t, closing |-> open, drafts |-> drafts]
      /\ UNCHANGED <<transfer, dispatch, stock, committed, readers, emission, consult, verdict,
                     adjusted, strayed>>
      /\ transfer[t].status # "none"
  BY DEF CancelRead, fiscal, books
<1>2. open \subseteq OfTransfer(dispatch, t) /\ open \subseteq Dispatch /\ drafts \subseteq open
  BY DEF OfTransfer
<1>3. RowsFollow
  BY <1>0, <1>1, SameFollows DEF RowsFollow, RowInv
<1>. HIDE DEF open
<1>4. CancellingOK' /\ Cancelling'
  BY <1>1, <1>2 DEF CancellingOK, Cancelling
<1>. QED
  BY <1>0, <1>1, <1>3, <1>4, RowInvKept DEF RowStep, PapersOK, StockOK, Untouched

\* A step about the guide of d, or about its goods: what it has to show.
LEMMA DispatchWritten ==
    ASSUME RowInv, NEW d \in Dispatch, NEW row, Follows(row, dispatch[d]),
           dispatch' = [dispatch EXCEPT ![d] = row], Kept(d), PapersOK', StockOK',
           UNCHANGED cancelling,
           \A e \in Dispatch \ {d} : /\ readers'[e] = readers[e] /\ emission'[e] = emission[e]
                                     /\ consult'[e] = consult[e] /\ verdict'[e] = verdict[e],
           transfer' \in [Transfer -> TransferRow],
           \A t \in Transfer : /\ transfer[t].status # "none" => transfer'[t].status # "none"
                               /\ transfer'[t].quantity = transfer[t].quantity
                               /\ transfer'[t].sameSite = transfer[t].sameSite
                               /\ transfer'[t].controlled = transfer[t].controlled
    PROVE  RowStep
<1>1. RowsFollow
  BY OneRow DEF RowsFollow
<1>2. Cancelling' /\ CancellingOK'
  BY <1>1, CancellingKept, TypeParts DEF RowInv, CancellingOK
<1>3. \A e \in Dispatch : Kept(e) \/ Untouched(e)
  BY OneRow DEF Untouched
<1>. QED
  BY <1>1, <1>2, <1>3, RowInvKept DEF RowStep

\* Steps of the jobs write no dispatch.
JobStep(d) ==
    \/ ReadForEmission(d) \/ SubmitGuide(d) \/ SubmissionUnanswered(d) \/ Consult(d)
    \/ ConsultUnanswered(d) \/ \E decision \in {"accepted", "rejected"} : Decide(d, decision)

LEMMA JobStepped ==
    ASSUME RowInv, NEW d \in Dispatch, JobStep(d)
    PROVE  /\ RowStep /\ UNCHANGED <<transfer, dispatch, stock, committed, adjusted, strayed>>
           /\ verdict[d] # "none" => verdict'[d] = verdict[d]
           /\ \A e \in Dispatch \ {d} : verdict'[e] = verdict[e]
<1>0. /\ transfer \in [Transfer -> TransferRow] /\ dispatch \in [Dispatch -> DispatchRow]
      /\ PapersOK /\ StockOK
  BY TypeParts DEF RowInv
<1>1. UNCHANGED <<transfer, dispatch, cancelling, stock, committed, adjusted, strayed>>
  BY DEF JobStep, ReadForEmission, SubmitGuide, SubmissionUnanswered, Consult, ConsultUnanswered,
         Decide, books
<1>2. /\ dispatch[d].guide # "none"
      /\ verdict[d] # "none" => verdict'[d] = verdict[d]
      /\ \A e \in Dispatch \ {d} : /\ readers'[e] = readers[e] /\ emission'[e] = emission[e]
                                   /\ consult'[e] = consult[e] /\ verdict'[e] = verdict[e]
      /\ PapersOK'
  <2>1. Papers(d)
    BY DEF RowInv
  <2>2. CASE ReadForEmission(d)
    <3>1. readers'[d] \in 0 .. Readers /\ readers' = [readers EXCEPT ![d] = readers[d] + 1]
      BY <1>0, <2>2, QuantityAssumption DEF ReadForEmission, PapersOK
    <3>. QED
      BY <1>0, <2>1, <2>2, <3>1 DEF ReadForEmission, PapersOK, Papers
  <2>3. CASE SubmitGuide(d) \/ SubmissionUnanswered(d)
    <3>1. PICK end \in {"sent", "failed", "doubt", "queued"} :
             emission' = [emission EXCEPT ![d] = end]
      BY <2>3 DEF SubmitGuide, SubmissionUnanswered
    <3>. QED
      BY <1>0, <2>1, <2>3, <3>1 DEF SubmitGuide, SubmissionUnanswered, PapersOK, Papers
  <2>4. CASE Consult(d) \/ ConsultUnanswered(d)
    BY <1>0, <2>1, <2>4 DEF Consult, ConsultUnanswered, PapersOK, Papers
  <2>5. CASE \E decision \in {"accepted", "rejected"} : Decide(d, decision)
    BY <1>0, <2>1, <2>5 DEF Decide, PapersOK, Papers
  <2>. QED
    BY <2>2, <2>3, <2>4, <2>5 DEF JobStep
<1>3. Kept(d)
  BY <1>1, <1>2 DEF RowInv, Papers, Kept
<1>4. RowsFollow
  BY <1>0, <1>1, SameFollows DEF RowsFollow, RowInv
<1>5. Cancelling' /\ CancellingOK' /\ StockOK'
  BY <1>0, <1>1, <1>4, CancellingKept, TypeParts DEF RowInv, CancellingOK, StockOK
<1>6. \A e \in Dispatch : Kept(e) \/ Untouched(e)
  BY <1>1, <1>2, <1>3 DEF Untouched
<1>. QED
  BY <1>1, <1>2, <1>4, <1>5, <1>6, RowInvKept DEF RowStep

\* Steps that write the guide write nothing else that counts goods.
PaperStep(d) ==
    CreateGuide(d) \/ MarkGuidePending(d) \/ SubmissionPending(d) \/ ConsultPending(d)

LEMMA PaperStepped ==
    ASSUME RowInv, NEW d \in Dispatch, PaperStep(d)
    PROVE  /\ RowStep
           /\ UNCHANGED <<transfer, verdict, stock, committed, adjusted, strayed>>
           /\ \A e \in Dispatch \ {d} : dispatch'[e] = dispatch[e]
           /\ dispatch'[d].line = dispatch[d].line /\ dispatch'[d].of = dispatch[d].of
           /\ dispatch'[d].status # "none" /\ dispatch[d].status # "none"
           /\ dispatch'[d].quantity = dispatch[d].quantity
           /\ dispatch'[d].departed = dispatch[d].departed
           /\ dispatch'[d].received = dispatch[d].received
<1>0. /\ transfer \in [Transfer -> TransferRow] /\ dispatch \in [Dispatch -> DispatchRow]
      /\ PapersOK /\ StockOK
  BY TypeParts DEF RowInv
<1>1. dispatch[d] \in DispatchRow /\ SoundRow(dispatch[d]) /\ Papers(d)
  BY <1>0 DEF RowInv
<1>2. /\ UNCHANGED <<transfer, verdict, cancelling, stock, committed, adjusted, strayed>>
      /\ dispatch[d].status # "none" /\ RequiresGre(d)
  BY <1>1 DEF PaperStep, CreateGuide, MarkGuidePending, SubmissionPending, ConsultPending,
              PendingStored, Papers, PapersOK, fiscal, books
<1>3. /\ PapersOK'
      /\ \A e \in Dispatch \ {d} : /\ readers'[e] = readers[e] /\ emission'[e] = emission[e]
                                   /\ consult'[e] = consult[e]
  <2>1. CASE CreateGuide(d) \/ SubmissionPending(d) \/ ConsultPending(d)
    BY <1>0, <2>1 DEF CreateGuide, SubmissionPending, ConsultPending, PendingStored, PapersOK, fiscal
  <2>2. CASE MarkGuidePending(d)
    <3>1. PICK job \in {"queued", "doubt", emission[d]} : emission' = [emission EXCEPT ![d] = job]
      BY <2>2 DEF MarkGuidePending
    <3>2. readers[d] - 1 \in 0 .. Readers /\ readers' = [readers EXCEPT ![d] = readers[d] - 1]
      BY <1>0, <2>2, QuantityAssumption DEF MarkGuidePending, PapersOK
    <3>. QED
      BY <1>0, <2>2, <3>1, <3>2 DEF MarkGuidePending, PapersOK
  <2>. QED
    BY <2>1, <2>2 DEF PaperStep
<1>4. PICK g \in {"pendiente", "pendiente_smartpse"}, s \in DispatchStatus \ {"none"} :
         dispatch' = [dispatch EXCEPT ![d] = [dispatch[d] EXCEPT !.guide = g, !.status = s]]
  <2>1. CASE CreateGuide(d) \/ MarkGuidePending(d)
    <3>1. PICK g \in {"pendiente", "pendiente_smartpse"}, s \in DispatchStatus \ {"none"} :
             dispatch' = [dispatch EXCEPT ![d].guide = g, ![d].status = s]
      BY <2>1 DEF CreateGuide, MarkGuidePending, DispatchStatus
    <3>2. dispatch' = [dispatch EXCEPT ![d] = [dispatch[d] EXCEPT !.guide = g, !.status = s]]
      BY <1>0, <3>1 DEF DispatchRow
    <3>. QED
      BY <3>2
  <2>2. CASE SubmissionPending(d) \/ ConsultPending(d)
    <3>1. dispatch' = [dispatch EXCEPT ![d] = [dispatch[d] EXCEPT !.guide = "pendiente_smartpse"]]
      BY <2>2 DEF SubmissionPending, ConsultPending, PendingStored
    <3>2. /\ dispatch[d].status \in DispatchStatus \ {"none"}
          /\ [dispatch[d] EXCEPT !.guide = "pendiente_smartpse"]
               = [dispatch[d] EXCEPT !.guide = "pendiente_smartpse", !.status = dispatch[d].status]
      BY <1>1, <1>2 DEF DispatchRow
    <3>. QED
      BY <3>1, <3>2
  <2>. QED
    BY <2>1, <2>2 DEF PaperStep
<1>. DEFINE row == [dispatch[d] EXCEPT !.guide = g, !.status = s]
<1>5. row = [dispatch[d] EXCEPT !.guide = g, !.status = s, !.line = dispatch[d].line]
  BY <1>1 DEF DispatchRow
<1>6. Follows([dispatch[d] EXCEPT !.guide = g, !.status = s, !.line = dispatch[d].line],
              dispatch[d])
  <2>1. g \in Guide \ {"none"} /\ dispatch[d].line \in Line
    BY <1>1 DEF Guide, DispatchRow
  <2>. QED
    BY <1>1, <1>2, <2>1, PapersFollow
<1>7. /\ row.guide = g /\ row.line = dispatch[d].line /\ row.of = dispatch[d].of
      /\ row.quantity = dispatch[d].quantity /\ row.departed = dispatch[d].departed
      /\ row.received = dispatch[d].received /\ row.status = s
  BY <1>1 DEF DispatchRow
<1>8. Follows(row, dispatch[d]) /\ dispatch' = [dispatch EXCEPT ![d] = row]
  BY <1>4, <1>5, <1>6
<1>. HIDE DEF row
<1>9. /\ dispatch'[d] = row
      /\ \A e \in Dispatch \ {d} : dispatch'[e] = dispatch[e]
  BY <1>8, OneRow
<1>10. Kept(d)
  BY <1>2, <1>7, <1>9 DEF Kept
<1>11. StockOK'
  BY <1>0, <1>2 DEF StockOK
<1>12. RowStep
  BY <1>0, <1>2, <1>3, <1>8, <1>10, <1>11, DispatchWritten
<1>. QED
  BY <1>2, <1>7, <1>9, <1>12

\* The order of one dispatch gets a new status.
LEMMA OrderRefreshed ==
    ASSUME RowInv, NEW t \in Transfer, NEW st \in TransferStatus \ {"none"},
           transfer' = [transfer EXCEPT ![t] = [transfer[t] EXCEPT !.status = st]]
    PROVE  /\ transfer' \in [Transfer -> TransferRow]
           /\ transfer'[t].status = st
           /\ \A u \in Transfer \ {t} : transfer'[u] = transfer[u]
           /\ \A u \in Transfer : /\ transfer[u].status # "none" => transfer'[u].status # "none"
                                  /\ transfer'[u].quantity = transfer[u].quantity
                                  /\ transfer'[u].cancelled = transfer[u].cancelled
                                  /\ transfer'[u].sameSite = transfer[u].sameSite
                                  /\ transfer'[u].controlled = transfer[u].controlled
<1>. DEFINE row == [transfer[t] EXCEPT !.status = st]
<1>1. transfer[t] \in TransferRow
  BY TypeParts DEF RowInv
<1>2. /\ row \in TransferRow /\ row.status = st
      /\ row.quantity = transfer[t].quantity /\ row.cancelled = transfer[t].cancelled
      /\ row.sameSite = transfer[t].sameSite /\ row.controlled = transfer[t].controlled
  BY <1>1, StatusRow
<1>3. transfer' = [transfer EXCEPT ![t] = row]
  OBVIOUS
<1>. HIDE DEF row
<1>4. /\ transfer' \in [Transfer -> TransferRow]
      /\ transfer'[t] = row
      /\ \A u \in Transfer \ {t} : transfer'[u] = transfer[u]
  BY <1>2, <1>3, OneOrder
<1>. QED
  BY <1>2, <1>4

\* The status computed for t depends on the quantities of its row only.
LEMMA SameRefreshed ==
    ASSUME NEW tr, NEW new, NEW ds, NEW t,
           new.quantity = tr.quantity, new.cancelled = tr.cancelled
    PROVE  Refreshed(new, ds, t) = Refreshed(tr, ds, t)
BY DEF Refreshed

\* A step that refreshes the order of the dispatch it writes.
LEMMA RefreshStepped ==
    ASSUME RowInv, NEW d \in Dispatch, dispatch[d].status # "none",
           RefreshTransferStatus(transfer[dispatch[d].of], dispatch', dispatch[d].of)
    PROVE  /\ transfer' \in [Transfer -> TransferRow]
           /\ transfer'[dispatch[d].of].status
                = Refreshed(transfer'[dispatch[d].of], dispatch', dispatch[d].of)
           /\ \A u \in Transfer \ {dispatch[d].of} : transfer'[u] = transfer[u]
           /\ \A u \in Transfer : /\ transfer[u].status # "none" => transfer'[u].status # "none"
                                  /\ transfer'[u].quantity = transfer[u].quantity
                                  /\ transfer'[u].cancelled = transfer[u].cancelled
                                  /\ transfer'[u].sameSite = transfer[u].sameSite
                                  /\ transfer'[u].controlled = transfer[u].controlled
<1>. DEFINE t == dispatch[d].of
            st == Refreshed(transfer[t], dispatch', t)
<1>1. t \in Transfer
  BY OrderOf
<1>2. st \in TransferStatus \ {"none"}
  BY RefreshedStatus
<1>3. transfer' = [transfer EXCEPT ![t] = [transfer[t] EXCEPT !.status = st]]
  BY DEF RefreshTransferStatus
<1>. HIDE DEF t, st
<1>4. /\ transfer' \in [Transfer -> TransferRow]
      /\ transfer'[t].status = st
      /\ \A u \in Transfer \ {t} : transfer'[u] = transfer[u]
      /\ \A u \in Transfer : /\ transfer[u].status # "none" => transfer'[u].status # "none"
                             /\ transfer'[u].quantity = transfer[u].quantity
                             /\ transfer'[u].cancelled = transfer[u].cancelled
                             /\ transfer'[u].sameSite = transfer[u].sameSite
                             /\ transfer'[u].controlled = transfer[u].controlled
  BY <1>1, <1>2, <1>3, OrderRefreshed
<1>5. st = Refreshed(transfer'[t], dispatch', t)
  BY <1>1, <1>4 DEF Refreshed, st
<1>. QED
  BY <1>4, <1>5 DEF t

AnswerStep(d) == SubmissionAnswered(d) \/ ConsultAnswered(d)

\* What an answer to the job or to a consultation makes of the dispatch.
LEMMA AnswerStepped ==
    ASSUME RowInv, NEW d \in Dispatch, AnswerStep(d), NEW t, t = dispatch[d].of
    PROVE  /\ RowStep
           /\ UNCHANGED <<verdict, stock, adjusted, strayed>>
           /\ \A e \in Dispatch \ {d} : dispatch'[e] = dispatch[e]
           /\ dispatch'[d].of = dispatch[d].of
           /\ dispatch'[d].status # "none" /\ dispatch[d].status # "none"
           /\ dispatch'[d].quantity = dispatch[d].quantity
           /\ dispatch'[d].departed = dispatch[d].departed
           /\ dispatch'[d].received = dispatch[d].received
           /\ \/ /\ verdict[d] = "accepted"
                 /\ dispatch'[d].line = IF dispatch[d].line = "active" THEN "covered"
                                        ELSE dispatch[d].line
                 /\ committed' = committed
              \/ /\ verdict[d] = "rejected"
                 /\ dispatch'[d].line = IF dispatch[d].line = "active" THEN "released"
                                        ELSE dispatch[d].line
                 /\ committed' = IF dispatch[d].line = "active" /\ Controlled(d)
                                 THEN Uncommit(dispatch[d].quantity) ELSE committed
           /\ transfer'[t].status = Refreshed(transfer'[t], dispatch', t)
           /\ \A u \in Transfer \ {t} : transfer'[u] = transfer[u]
           /\ \A u \in Transfer : /\ transfer'[u].quantity = transfer[u].quantity
                                  /\ transfer'[u].cancelled = transfer[u].cancelled
                                  /\ transfer'[u].controlled = transfer[u].controlled
<1>0. /\ transfer \in [Transfer -> TransferRow] /\ dispatch \in [Dispatch -> DispatchRow]
      /\ PapersOK /\ StockOK
  BY TypeParts DEF RowInv
<1>1. dispatch[d] \in DispatchRow /\ SoundRow(dispatch[d]) /\ Papers(d)
  BY <1>0 DEF RowInv
<1>2. /\ ApplyGuideResult(d)
      /\ UNCHANGED <<cancelling, readers, verdict, stock, adjusted, strayed>>
      /\ verdict[d] \in {"accepted", "rejected"}
  BY <1>0 DEF AnswerStep, SubmissionAnswered, ConsultAnswered, ApplyGuideResult, books, PapersOK
<1>3. dispatch[d].status # "none" /\ dispatch[d].guide # "none" /\ RequiresGre(d)
  BY <1>1, <1>2 DEF Papers
<1>4. /\ PapersOK'
      /\ \A e \in Dispatch \ {d} : emission'[e] = emission[e] /\ consult'[e] = consult[e]
  BY <1>0, <1>2 DEF AnswerStep, SubmissionAnswered, ConsultAnswered, PapersOK
<1>. DEFINE row == IF verdict[d] = "accepted" THEN Accepted(dispatch[d]) ELSE Rejected(dispatch[d])
<1>5. /\ dispatch' = [dispatch EXCEPT ![d] = row]
      /\ RefreshTransferStatus(transfer[dispatch[d].of], [dispatch EXCEPT ![d] = row],
                               dispatch[d].of)
      /\ committed' = IF /\ verdict[d] = "rejected" /\ dispatch[d].line = "active"
                         /\ Controlled(d)
                      THEN Uncommit(dispatch[d].quantity) ELSE committed
  BY Zenon, <1>2 DEF ApplyGuideResult, RefreshTransferStatus
<1>6. PICK l \in Line, g \in Guide \ {"none"}, s \in DispatchStatus \ {"none"} :
         /\ row = [dispatch[d] EXCEPT !.guide = g, !.status = s, !.line = l]
         /\ g = "emitida" => verdict[d] = "accepted"
         /\ l = IF dispatch[d].line = "active"
                THEN IF verdict[d] = "accepted" THEN "covered" ELSE "released"
                ELSE dispatch[d].line
  <2>1. dispatch[d].line \in Line
    BY <1>1 DEF DispatchRow
  <2>2. CASE verdict[d] = "accepted"
    <3>. DEFINE l0 == IF dispatch[d].line = "active" THEN "covered" ELSE dispatch[d].line
    <3>1. row = [dispatch[d] EXCEPT !.guide = "emitida", !.status = "guide_accepted", !.line = l0]
      BY <2>2 DEF Accepted
    <3>2. /\ "emitida" \in Guide \ {"none"} /\ "guide_accepted" \in DispatchStatus \ {"none"}
          /\ l0 \in Line
      BY <2>1 DEF DispatchStatus, Guide, Line
    <3>3. l0 = IF dispatch[d].line = "active"
               THEN IF verdict[d] = "accepted" THEN "covered" ELSE "released"
               ELSE dispatch[d].line
      BY <2>2
    <3>. HIDE DEF l0, row
    <3>. QED
      BY <2>2, <3>1, <3>2, <3>3
  <2>3. CASE verdict[d] = "rejected"
    <3>. DEFINE l0 == IF dispatch[d].line = "active" THEN "released" ELSE dispatch[d].line
    <3>1. row = [dispatch[d] EXCEPT !.guide = "rechazada", !.status = "guide_rejected", !.line = l0]
      BY <2>3 DEF Rejected
    <3>2. /\ "rechazada" \in Guide \ {"none"} /\ "guide_rejected" \in DispatchStatus \ {"none"}
          /\ l0 \in Line
      BY <2>1 DEF DispatchStatus, Guide, Line
    <3>3. l0 = IF dispatch[d].line = "active"
               THEN IF verdict[d] = "accepted" THEN "covered" ELSE "released"
               ELSE dispatch[d].line
      BY <2>3
    <3>. HIDE DEF l0, row
    <3>. QED
      BY <2>3, <3>1, <3>2, <3>3
  <2>. QED
    BY <1>2, <2>2, <2>3
<1>. HIDE DEF row
<1>7. Follows(row, dispatch[d])
  <2>1. l = dispatch[d].line \/ (dispatch[d].line = "active" /\ l \in {"covered", "released"})
    BY <1>6
  <2>. QED
    BY <1>1, <1>3, <1>6, <2>1, PapersFollow
<1>8. /\ row.guide = g /\ row.line = l /\ row.of = dispatch[d].of
      /\ row.quantity = dispatch[d].quantity /\ row.departed = dispatch[d].departed
      /\ row.received = dispatch[d].received /\ row.status = s
  BY <1>1, <1>6 DEF DispatchRow
<1>9. /\ dispatch'[d] = row
      /\ \A e \in Dispatch \ {d} : dispatch'[e] = dispatch[e]
  BY <1>5, <1>7, OneRow
<1>10. Kept(d)
  BY <1>2, <1>3, <1>6, <1>8, <1>9 DEF Kept
<1>11. committed' \in Nat
  BY <1>0, <1>1, <1>5, UncommitNat DEF DispatchRow, StockOK
<1>12. RefreshTransferStatus(transfer[dispatch[d].of], dispatch', dispatch[d].of)
  BY <1>5 DEF RefreshTransferStatus
<1>13. /\ transfer' \in [Transfer -> TransferRow]
       /\ transfer'[t].status = Refreshed(transfer'[t], dispatch', t)
       /\ \A u \in Transfer \ {t} : transfer'[u] = transfer[u]
       /\ \A u \in Transfer : /\ transfer[u].status # "none" => transfer'[u].status # "none"
                              /\ transfer'[u].quantity = transfer[u].quantity
                              /\ transfer'[u].cancelled = transfer[u].cancelled
                              /\ transfer'[u].sameSite = transfer[u].sameSite
                              /\ transfer'[u].controlled = transfer[u].controlled
  BY <1>3, <1>12, RefreshStepped
<1>14. StockOK'
  BY <1>0, <1>2, <1>11 DEF StockOK
<1>15. RowStep
  BY <1>2, <1>4, <1>5, <1>7, <1>10, <1>13, <1>14, DispatchWritten
<1>. QED
  BY <1>2, <1>3, <1>5, <1>6, <1>8, <1>9, <1>13, <1>15

\* Goods leave all at once, under a guide that SUNAT accepted where one is needed.
LEMMA DepartureStepped ==
    ASSUME RowInv, NEW d \in Dispatch, ConfirmDeparture(d), NEW t, t = dispatch[d].of
    PROVE  /\ RowStep
           /\ UNCHANGED <<verdict, adjusted>>
           /\ \A e \in Dispatch \ {d} : dispatch'[e] = dispatch[e]
           /\ dispatch'[d].of = dispatch[d].of /\ dispatch'[d].line = "departed"
           /\ dispatch'[d].status # "none" /\ dispatch[d].status # "none"
           /\ dispatch'[d].quantity = dispatch[d].quantity
           /\ dispatch[d].departed = 0 /\ dispatch'[d].departed = dispatch[d].quantity
           /\ dispatch[d].received = 0 /\ dispatch'[d].received = 0
           /\ dispatch[d].line \in {"active", "covered", "released"}
           /\ verdict[d] # "rejected"
           /\ IF Controlled(d)
              THEN /\ stock'.source = stock.source - dispatch[d].quantity
                   /\ stock'.destination = stock.destination
                   /\ committed' = Uncommit(dispatch[d].quantity)
              ELSE UNCHANGED <<stock, committed>>
           /\ strayed' = IF dispatch[d].line \in Reserving THEN strayed ELSE strayed \cup {d}
           /\ transfer'[t].status = Refreshed(transfer'[t], dispatch', t)
           /\ \A u \in Transfer \ {t} : transfer'[u] = transfer[u]
           /\ \A u \in Transfer : /\ transfer'[u].quantity = transfer[u].quantity
                                  /\ transfer'[u].cancelled = transfer[u].cancelled
                                  /\ transfer'[u].controlled = transfer[u].controlled
<1>0. /\ transfer \in [Transfer -> TransferRow] /\ dispatch \in [Dispatch -> DispatchRow]
      /\ PapersOK /\ StockOK
  BY TypeParts DEF RowInv
<1>1. dispatch[d] \in DispatchRow /\ SoundRow(dispatch[d]) /\ Papers(d)
  BY <1>0 DEF RowInv
<1>. DEFINE row == [dispatch[d] EXCEPT !.departed = dispatch[d].quantity, !.line = "departed",
                                       !.left = TRUE, !.status = "departed"]
<1>2. /\ dispatch[d].status # "none" /\ ~dispatch[d].left
      /\ RequiresGre(d) => dispatch[d].guide = "emitida"
      /\ IF Controlled(d)
         THEN /\ stock' = [stock EXCEPT !["source"] = @ + (-dispatch[d].quantity)]
              /\ committed' = Uncommit(dispatch[d].quantity)
         ELSE UNCHANGED <<stock, committed>>
      /\ dispatch' = [dispatch EXCEPT ![d] = row]
      /\ RefreshTransferStatus(transfer[dispatch[d].of], [dispatch EXCEPT ![d] = row],
                               dispatch[d].of)
      /\ strayed' = IF dispatch[d].line \in Reserving THEN strayed ELSE strayed \cup {d}
      /\ UNCHANGED <<cancelling, readers, emission, consult, verdict, adjusted>>
  BY Zenon DEF ConfirmDeparture, RecordMovement, RefreshTransferStatus, fiscal
<1>3. /\ dispatch[d].departed = 0 /\ dispatch[d].received = 0
      /\ dispatch[d].line \in {"active", "covered", "released"}
      /\ dispatch[d].quantity \in Nat /\ dispatch[d].quantity > 0
  BY <1>1, <1>2 DEF SoundRow, DispatchRow
<1>4. verdict[d] # "rejected" /\ (dispatch[d].guide # "none" => RequiresGre(d))
  BY <1>1, <1>2 DEF Papers
<1>5. /\ row \in DispatchRow
      /\ row.departed = dispatch[d].quantity /\ row.line = "departed" /\ row.left
      /\ row.status = "departed" /\ row.of = dispatch[d].of /\ row.received = 0
      /\ row.quantity = dispatch[d].quantity /\ row.guide = dispatch[d].guide
  BY <1>1, <1>3 DEF DispatchRow, DispatchStatus, Line
<1>. HIDE DEF row
<1>6. Follows(row, dispatch[d])
  <2>1. SoundRow(row)
    BY <1>1, <1>2, <1>3, <1>5 DEF SoundRow
  <2>. QED
    BY <1>2, <1>3, <1>5, <2>1 DEF Follows
<1>7. /\ dispatch'[d] = row
      /\ \A e \in Dispatch \ {d} : dispatch'[e] = dispatch[e]
  BY <1>2, <1>6, OneRow
<1>8. Kept(d)
  BY <1>1, <1>2, <1>5, <1>7 DEF Kept, Papers
<1>9. PapersOK' /\ StockOK'
  <2>1. Uncommit(dispatch[d].quantity) \in Nat
    BY <1>0, <1>3, UncommitNat DEF StockOK
  <2>. QED
    BY <1>0, <1>2, <1>3, <2>1 DEF PapersOK, StockOK
<1>10. RefreshTransferStatus(transfer[dispatch[d].of], dispatch', dispatch[d].of)
  BY <1>2 DEF RefreshTransferStatus
<1>11. /\ transfer' \in [Transfer -> TransferRow]
       /\ transfer'[t].status = Refreshed(transfer'[t], dispatch', t)
       /\ \A u \in Transfer \ {t} : transfer'[u] = transfer[u]
       /\ \A u \in Transfer : /\ transfer[u].status # "none" => transfer'[u].status # "none"
                              /\ transfer'[u].quantity = transfer[u].quantity
                              /\ transfer'[u].cancelled = transfer[u].cancelled
                              /\ transfer'[u].sameSite = transfer[u].sameSite
                              /\ transfer'[u].controlled = transfer[u].controlled
  BY <1>2, <1>10, RefreshStepped
<1>12. RowStep
  BY <1>2, <1>6, <1>8, <1>9, <1>11, DispatchWritten
<1>13. Controlled(d) => /\ stock'.source = stock.source - dispatch[d].quantity
                        /\ stock'.destination = stock.destination
  BY <1>0, <1>2, <1>3 DEF StockOK
<1>. QED
  BY <1>2, <1>3, <1>4, <1>5, <1>7, <1>11, <1>12, <1>13

\* Goods arrive in parts, never more than left.
LEMMA ReceiptStepped ==
    ASSUME RowInv, NEW d \in Dispatch, NEW q \in Quantity, ReceiveDispatch(d, q),
           NEW t, t = dispatch[d].of
    PROVE  /\ RowStep
           /\ UNCHANGED <<verdict, committed, adjusted, strayed>>
           /\ \A e \in Dispatch \ {d} : dispatch'[e] = dispatch[e]
           /\ dispatch'[d].of = dispatch[d].of
           /\ dispatch'[d].status # "none" /\ dispatch[d].status # "none"
           /\ dispatch'[d].quantity = dispatch[d].quantity
           /\ dispatch'[d].departed = dispatch[d].departed
           /\ dispatch'[d].received = dispatch[d].received + q
           /\ dispatch[d].line = "departed" /\ dispatch'[d].line \in {"departed", "received"}
           /\ IF Controlled(d)
              THEN /\ stock'.source = stock.source
                   /\ stock'.destination = stock.destination + q
              ELSE UNCHANGED stock
           /\ transfer'[t].status = Refreshed(transfer'[t], dispatch', t)
           /\ \A u \in Transfer \ {t} : transfer'[u] = transfer[u]
           /\ \A u \in Transfer : /\ transfer'[u].quantity = transfer[u].quantity
                                  /\ transfer'[u].cancelled = transfer[u].cancelled
                                  /\ transfer'[u].controlled = transfer[u].controlled
<1>0. /\ transfer \in [Transfer -> TransferRow] /\ dispatch \in [Dispatch -> DispatchRow]
      /\ PapersOK /\ StockOK
  BY TypeParts DEF RowInv
<1>1. dispatch[d] \in DispatchRow /\ SoundRow(dispatch[d]) /\ Papers(d)
  BY <1>0 DEF RowInv
<1>. DEFINE received == dispatch[d].received + q
            all == received >= dispatch[d].departed
            l == IF all THEN "received" ELSE dispatch[d].line
            s == IF all THEN "received" ELSE "partially_received"
            row == [dispatch[d] EXCEPT !.received = received, !.line = l, !.status = s]
<1>2. /\ dispatch[d].left /\ q <= dispatch[d].departed - dispatch[d].received
      /\ IF Controlled(d) THEN stock' = [stock EXCEPT !["destination"] = @ + q]
         ELSE UNCHANGED stock
      /\ dispatch' = [dispatch EXCEPT ![d] = row]
      /\ RefreshTransferStatus(transfer[dispatch[d].of], [dispatch EXCEPT ![d] = row],
                               dispatch[d].of)
      /\ UNCHANGED <<committed, cancelling, readers, emission, consult, verdict, adjusted, strayed>>
  BY Zenon DEF ReceiveDispatch, Pending, RecordMovement, RefreshTransferStatus, fiscal, books
<1>3. q \in Nat /\ q > 0
  BY QuantityAssumption
<1>4. /\ dispatch[d].status # "none" /\ dispatch[d].departed = dispatch[d].quantity
      /\ dispatch[d].received \in Nat /\ dispatch[d].quantity \in Nat
      /\ dispatch[d].line = IF dispatch[d].received = dispatch[d].quantity THEN "received"
                            ELSE "departed"
  BY <1>1, <1>2 DEF SoundRow, DispatchRow
<1>5. /\ received \in Nat /\ received <= dispatch[d].quantity
      /\ dispatch[d].line = "departed"
      /\ received >= dispatch[d].received
      /\ l = IF received = dispatch[d].quantity THEN "received" ELSE "departed"
      /\ s \in DispatchStatus \ {"none"}
  BY <1>2, <1>3, <1>4 DEF DispatchStatus
<1>. HIDE DEF received, l, s
<1>6. /\ row \in DispatchRow
      /\ row.received = received /\ row.line = l /\ row.status = s /\ row.of = dispatch[d].of
      /\ row.departed = dispatch[d].departed /\ row.quantity = dispatch[d].quantity
      /\ row.guide = dispatch[d].guide /\ row.left = dispatch[d].left
  BY <1>1, <1>5 DEF DispatchRow, Line
<1>. HIDE DEF row
<1>7. Follows(row, dispatch[d])
  <2>1. SoundRow(row)
    BY <1>1, <1>2, <1>4, <1>5, <1>6 DEF SoundRow
  <2>. QED
    BY <1>2, <1>4, <1>5, <1>6, <2>1 DEF Follows
<1>8. /\ dispatch'[d] = row
      /\ \A e \in Dispatch \ {d} : dispatch'[e] = dispatch[e]
  BY <1>2, <1>7, OneRow
<1>9. Kept(d)
  BY <1>1, <1>2, <1>4, <1>6, <1>8 DEF Kept, Papers
<1>10. PapersOK' /\ StockOK'
  BY <1>0, <1>2, <1>3 DEF PapersOK, StockOK
<1>11. RefreshTransferStatus(transfer[dispatch[d].of], dispatch', dispatch[d].of)
  BY <1>2 DEF RefreshTransferStatus
<1>12. /\ transfer' \in [Transfer -> TransferRow]
       /\ transfer'[t].status = Refreshed(transfer'[t], dispatch', t)
       /\ \A u \in Transfer \ {t} : transfer'[u] = transfer[u]
       /\ \A u \in Transfer : /\ transfer[u].status # "none" => transfer'[u].status # "none"
                              /\ transfer'[u].quantity = transfer[u].quantity
                              /\ transfer'[u].cancelled = transfer[u].cancelled
                              /\ transfer'[u].sameSite = transfer[u].sameSite
                              /\ transfer'[u].controlled = transfer[u].controlled
  BY <1>4, <1>11, RefreshStepped
<1>13. RowStep
  BY <1>2, <1>7, <1>9, <1>10, <1>12, DispatchWritten
<1>14. Controlled(d) => /\ stock'.source = stock.source
                        /\ stock'.destination = stock.destination + q
  BY <1>0, <1>2, <1>3 DEF StockOK
<1>. QED
  BY <1>2, <1>4, <1>5, <1>6, <1>8, <1>12, <1>13, <1>14 DEF received

\* Manual adjustments write no row.
LEMMA AdjustmentStepped ==
    ASSUME RowInv, NEW w \in {"source", "destination"}, NEW q \in {-1, 1},
           NEW allowNegative \in BOOLEAN, AdjustStock(w, q, allowNegative)
    PROVE  /\ RowStep
           /\ UNCHANGED <<transfer, dispatch, verdict, committed, strayed>>
           /\ stock'.source + stock'.destination - adjusted'.source - adjusted'.destination
                = stock.source + stock.destination - adjusted.source - adjusted.destination
<1>0. /\ transfer \in [Transfer -> TransferRow] /\ dispatch \in [Dispatch -> DispatchRow]
      /\ PapersOK /\ StockOK
  BY TypeParts DEF RowInv
<1>1. /\ UNCHANGED <<transfer, dispatch, committed, cancelling, readers, emission, consult, verdict,
                     strayed>>
      /\ stock' = [stock EXCEPT ![w] = @ + q] /\ adjusted' = [adjusted EXCEPT ![w] = @ + q]
  BY DEF AdjustStock, RecordMovement, fiscal
<1>2. StockOK' /\ PapersOK'
  BY <1>0, <1>1 DEF StockOK, PapersOK
<1>3. RowsFollow
  BY <1>0, <1>1, SameFollows DEF RowsFollow, RowInv
<1>4. Cancelling' /\ CancellingOK'
  BY <1>1, <1>3, CancellingKept, TypeParts DEF RowInv, CancellingOK
<1>5. RowStep
  BY <1>1, <1>2, <1>3, <1>4, RowInvKept DEF RowStep, Untouched
<1>6. stock'.source + stock'.destination - adjusted'.source - adjusted'.destination
        = stock.source + stock.destination - adjusted.source - adjusted.destination
  <2>1. CASE w = "source"
    BY <1>0, <1>1, <2>1 DEF StockOK
  <2>2. CASE w = "destination"
    BY <1>0, <1>1, <2>2 DEF StockOK
  <2>. QED
    BY <2>1, <2>2
<1>. QED
  BY <1>1, <1>5, <1>6

LEMMA Stuttered ==
    ASSUME RowInv, UNCHANGED vars
    PROVE  RowStep
<1>0. /\ transfer \in [Transfer -> TransferRow] /\ dispatch \in [Dispatch -> DispatchRow]
      /\ PapersOK /\ StockOK /\ CancellingOK
  BY TypeParts DEF RowInv
<1>1. RowsFollow
  BY <1>0, SameFollows DEF vars, RowsFollow, RowInv
<1>2. Cancelling'
  BY <1>1, CancellingKept DEF vars
<1>. QED
  BY <1>0, <1>1, <1>2, RowInvKept
  DEF vars, RowStep, PapersOK, StockOK, CancellingOK, Untouched

-----------------------------------------------------------------------------
(* The invariant of the rows *)

LEMMA RowInit == Init => RowInv
<1>. SUFFICES ASSUME Init PROVE RowInv
  OBVIOUS
<1>1. TypeOK
  BY QuantityAssumption
  DEF Init, TypeOK, TransferStatus, DispatchStatus, Line, Guide, Idle
<1>2. \A d \in Dispatch : SoundRow(dispatch[d])
  BY DEF Init, SoundRow
<1>3. \A d \in Dispatch : Papers(d)
  BY DEF Init, Papers
<1>. QED
  BY <1>1, <1>2, <1>3 DEF RowInv, Cancelling, Init

LEMMA RowNext ==
    ASSUME RowInv, [Next]_vars PROVE RowStep
<1>1. ASSUME Orders PROVE RowStep
  BY <1>1, OrderWritten, DispatchCreated, CancellationRead, CancellationWritten DEF Orders
<1>2. ASSUME Guides PROVE RowStep
  <2>1. PICK d \in Dispatch : JobStep(d) \/ PaperStep(d) \/ AnswerStep(d)
    BY <1>2 DEF Guides, JobStep, PaperStep, AnswerStep
  <2>. QED
    BY <2>1, JobStepped, PaperStepped, AnswerStepped
<1>3. ASSUME Goods PROVE RowStep
  BY <1>3, DepartureStepped, ReceiptStepped, AdjustmentStepped DEF Goods
<1>. QED
  BY <1>1, <1>2, <1>3, Stuttered DEF Next

-----------------------------------------------------------------------------
(* Sums over dispatches *)

LEMMA SumOneRow ==
    ASSUME NEW ds \in [Dispatch -> DispatchRow], NEW new \in [Dispatch -> DispatchRow],
           NEW d \in Dispatch, \A e \in Dispatch \ {d} : new[e] = ds[e],
           NEW P \in SUBSET Dispatch, NEW Q \in SUBSET Dispatch, P \ {d} = Q \ {d},
           NEW field \in {"quantity", "departed", "received"}
    PROVE  Sum(new, Q, field) = Sum(ds, P, field) - (IF d \in P THEN ds[d][field] ELSE 0)
                                                  + (IF d \in Q THEN new[d][field] ELSE 0)
<1>. DEFINE f == [e \in Dispatch |-> ds[e][field]]
            g == [e \in Dispatch |-> new[e][field]]
<1>1. /\ \A e \in P : f[e] \in Int
      /\ \A e \in Q : g[e] \in Int
  BY DEF DispatchRow
<1>2. /\ f[d] = ds[d][field] /\ g[d] = new[d][field]
      /\ \A e \in P \ {d} : f[e] = g[e]
  OBVIOUS
<1>. HIDE DEF f, g
<1>3. SumFunctionOnSet(g, Q) = SumFunctionOnSet(f, P) - Share(f, P, d) + Share(g, Q, d)
  BY <1>1, <1>2, SumChange, QuantityAssumption
<1>. QED
  BY <1>2, <1>3 DEF Sum, Share, f, g

\* Rows that agree in the field have the same sum.
LEMMA SumSameRows ==
    ASSUME NEW ds, NEW new, NEW D \in SUBSET Dispatch, NEW field,
           \A d \in D : new[d][field] = ds[d][field]
    PROVE  Sum(new, D, field) = Sum(ds, D, field)
<1>. DEFINE f == [e \in Dispatch |-> ds[e][field]]
            g == [e \in Dispatch |-> new[e][field]]
<1>1. \A e \in D : f[e] = g[e]
  OBVIOUS
<1>2. IsFiniteSet(D)
  BY QuantityAssumption, FS_Subset
<1>. HIDE DEF f, g
<1>3. SumFunctionOnSet(f, D) = SumFunctionOnSet(g, D)
  BY <1>1, <1>2, SumSame
<1>. QED
  BY <1>3 DEF Sum, f, g

\* What is summed over D is summed over a part of it and the rest.
LEMMA SumParts ==
    ASSUME NEW ds \in [Dispatch -> DispatchRow], NEW D \in SUBSET Dispatch, NEW P \in SUBSET D,
           NEW field \in {"quantity", "departed", "received"}
    PROVE  /\ Sum(ds, D, field) = Sum(ds, P, field) + Sum(ds, D \ P, field)
           /\ Sum(ds, P, field) \in Nat /\ Sum(ds, D \ P, field) \in Nat
           /\ Sum(ds, P, field) <= Sum(ds, D, field)
<1>. DEFINE f == [e \in Dispatch |-> ds[e][field]]
<1>1. \A e \in D : f[e] \in Int
  BY DEF DispatchRow
<1>2. IsFiniteSet(D)
  BY QuantityAssumption, FS_Subset
<1>3. P \in SUBSET Dispatch /\ D \ P \in SUBSET Dispatch
  OBVIOUS
<1>4. Sum(ds, P, field) \in Nat /\ Sum(ds, D \ P, field) \in Nat
  BY <1>3, SumIsNat
<1>. HIDE DEF f
<1>5. SumFunctionOnSet(f, D) = SumFunctionOnSet(f, P) + SumFunctionOnSet(f, D \ P)
  BY <1>1, <1>2, SumSplit
<1>6. Sum(ds, D, field) = Sum(ds, P, field) + Sum(ds, D \ P, field)
  BY <1>5 DEF Sum, f
<1>. QED
  BY <1>4, <1>6

\* A field that is nowhere more than another one does not sum to more.
LEMMA SumFieldLeq ==
    ASSUME NEW ds \in [Dispatch -> DispatchRow], NEW D \in SUBSET Dispatch,
           NEW f1 \in {"quantity", "departed", "received"},
           NEW f2 \in {"quantity", "departed", "received"},
           \A d \in D : ds[d][f1] <= ds[d][f2]
    PROVE  Sum(ds, D, f1) <= Sum(ds, D, f2)
<1>. DEFINE f == [e \in Dispatch |-> ds[e][f1]]
            g == [e \in Dispatch |-> ds[e][f2]]
<1>1. \A e \in D : f[e] \in Int /\ g[e] \in Int /\ f[e] <= g[e]
  BY DEF DispatchRow
<1>2. IsFiniteSet(D)
  BY QuantityAssumption, FS_Subset
<1>. HIDE DEF f, g
<1>3. SumFunctionOnSet(f, D) <= SumFunctionOnSet(g, D)
  BY <1>1, <1>2, SumMonotone
<1>. QED
  BY <1>3 DEF Sum, f, g

\* Where nothing is counted, the sum is nothing.
LEMMA SumNothing ==
    ASSUME NEW ds, NEW D \in SUBSET Dispatch, NEW field, \A d \in D : ds[d][field] = 0
    PROVE  Sum(ds, D, field) = 0
<1>. DEFINE f == [e \in Dispatch |-> ds[e][field]]
<1>1. \A e \in D : f[e] = 0
  OBVIOUS
<1>2. IsFiniteSet(D)
  BY QuantityAssumption, FS_Subset
<1>. HIDE DEF f
<1>3. SumFunctionOnSet(f, D) = 0
  BY <1>1, <1>2, SumZero
<1>. QED
  BY <1>3 DEF Sum, f

-----------------------------------------------------------------------------
(* What a completed transfer has received *)

\* What counts as assigned to transfer t.
Assigned(ds, t) == {d \in OfTransfer(ds, t) : ds[d].line \in ACTIVE_ALLOCATION_STATES}

\* If all that is left of a transfer once its cancellations are taken off was received,
\* nothing of it is reserved or on its way.
LEMMA CompletedSettled ==
    ASSUME NEW ds \in [Dispatch -> DispatchRow], \A d \in Dispatch : SoundRow(ds[d]),
           NEW t, NEW tr \in TransferRow,
           Allocated(ds, t) + tr.cancelled <= tr.quantity,
           Refreshed(tr, ds, t) = "completed",
           NEW d \in OfTransfer(ds, t)
    PROVE  ds[d].line \in {"received", "released"}
<1>. DEFINE A == Assigned(ds, t)
            O == OfTransfer(ds, t)
            f == [e \in Dispatch |-> ds[e]["received"]]
            g == [e \in Dispatch |-> ds[e]["quantity"]]
<1>1. A \in SUBSET O /\ O \in SUBSET Dispatch /\ A \in SUBSET Dispatch
  BY DEF OfTransfer, Assigned
<1>2. \A e \in Dispatch : /\ ds[e] \in DispatchRow
                          /\ ds[e].received \in Nat /\ ds[e].quantity \in Nat
                          /\ ds[e].line \in Line
  BY DEF DispatchRow
<1>3. Sum(ds, O, "received") >= tr.quantity - tr.cancelled
  BY DEF Refreshed
<1>4. Allocated(ds, t) = Sum(ds, A, "quantity")
  BY DEF Allocated, Assigned
<1>5. \A e \in O \ A : ds[e].received = 0
  BY <1>1, <1>2 DEF SoundRow, Assigned, ACTIVE_ALLOCATION_STATES, Line
<1>6. \A e \in A : ds[e].received <= ds[e].quantity
  BY <1>1, <1>2 DEF SoundRow
<1>. HIDE DEF A, O
<1>7. Sum(ds, O \ A, "received") = 0
  BY <1>1, <1>5, SumNothing
<1>8. /\ Sum(ds, O, "received") = Sum(ds, A, "received") + Sum(ds, O \ A, "received")
      /\ Sum(ds, A, "received") \in Nat
  BY <1>1, SumParts
<1>9. Sum(ds, A, "quantity") \in Nat
  BY <1>1, SumIsNat
<1>10. Sum(ds, A, "quantity") <= Sum(ds, A, "received")
  BY <1>3, <1>4, <1>7, <1>8, <1>9 DEF TransferRow
<1>11. ASSUME d \in A PROVE ds[d].line = "received"
  <2>1. /\ \A e \in A : f[e] \in Int /\ g[e] \in Int /\ f[e] <= g[e]
        /\ f[d] = ds[d].received /\ g[d] = ds[d].quantity
    BY <1>1, <1>2, <1>6, <1>11
  <2>2. IsFiniteSet(A)
    BY <1>1, QuantityAssumption, FS_Subset
  <2>3. SumFunctionOnSet(g, A) <= SumFunctionOnSet(f, A)
    BY <1>10 DEF Sum
  <2>. HIDE DEF f, g
  <2>4. f[d] = g[d]
    BY <1>11, <2>1, <2>2, <2>3, SumTight
  <2>5. SoundRow(ds[d]) /\ ds[d].status # "none"
    BY <1>1, <1>11 DEF OfTransfer, O
  <2>6. ds[d].received = ds[d].quantity /\ ds[d].quantity > 0
    BY <2>1, <2>4, <2>5 DEF SoundRow
  <2>. QED
    BY <2>5, <2>6 DEF SoundRow
<1>12. ASSUME d \notin A PROVE ds[d].line = "released"
  BY <1>1, <1>2, <1>12 DEF A, O, Assigned, ACTIVE_ALLOCATION_STATES, Line
<1>. QED
  BY <1>11, <1>12

-----------------------------------------------------------------------------
(* What the goods, the commitments and the claims add up to *)

\* Dispatches whose goods are counted in the stock, and those that reserve it.
Moving == {d \in Existing : Controlled(d)}

Standing == {d \in Existing : Controlled(d) /\ dispatch[d].line \in Reserving}

\* What may still be sent or was sent for transfer t: a dispatch released by a
\* cancellation while its guide was being decided may leave yet, one that SUNAT
\* rejected never does.
Claimed(t) == {d \in OfTransfer(dispatch, t) : dispatch[d].line # "released" \/ verdict[d] # "rejected"}

Departed == Sum(dispatch, Moving, "departed")

Arrived == Sum(dispatch, Moving, "received")

ClaimedOf(t) == Sum(dispatch, Claimed(t), "quantity")

GoodsInv ==
    stock.source + stock.destination + Departed - Arrived =
        InitialStock + adjusted.source + adjusted.destination

\* What is claimed of transfer t fits in it, and so does what is assigned with what
\* was cancelled; what is claimed without being assigned was cancelled.
Fits(t) ==
    /\ ClaimedOf(t) <= transfer[t].quantity
    /\ ClaimedOf(t) - Allocated(dispatch, t) <= transfer[t].cancelled
    /\ strayed = {} => Allocated(dispatch, t) + transfer[t].cancelled <= transfer[t].quantity

Settled(t) ==
    strayed = {} /\ transfer[t].status = "completed" =>
        \A d \in OfTransfer(dispatch, t) : dispatch[d].line \in {"received", "released"}

Inv ==
    /\ RowInv
    /\ GoodsInv
    /\ CommittedIsReserved
    /\ \A t \in Transfer : Fits(t) /\ Settled(t)

\* The sets and what they sum to.
LEMMA SumTypes ==
    ASSUME RowInv
    PROVE  /\ Moving \in SUBSET Dispatch /\ Standing \in SUBSET Dispatch
           /\ Departed \in Nat /\ Arrived \in Nat /\ Reserved \in Nat
           /\ Reserved = Sum(dispatch, Standing, "quantity")
           /\ \A t \in Transfer :
                 /\ OfTransfer(dispatch, t) \in SUBSET Dispatch
                 /\ Claimed(t) \in SUBSET OfTransfer(dispatch, t)
                 /\ Assigned(dispatch, t) \in SUBSET Claimed(t)
                 /\ Assigned(dispatch, t) \in SUBSET OfTransfer(dispatch, t)
                 /\ ClaimedOf(t) \in Nat /\ Allocated(dispatch, t) \in Nat
                 /\ Allocated(dispatch, t) = Sum(dispatch, Assigned(dispatch, t), "quantity")
                 /\ Allocated(dispatch, t) <= ClaimedOf(t)
                 /\ transfer[t].quantity \in Nat /\ transfer[t].cancelled \in Nat
<1>1. transfer \in [Transfer -> TransferRow] /\ dispatch \in [Dispatch -> DispatchRow]
  BY TypeParts DEF RowInv
<1>2. Moving \in SUBSET Dispatch /\ Standing \in SUBSET Dispatch
  BY DEF Moving, Standing, Existing
<1>3. Reserved = Sum(dispatch, Standing, "quantity")
  BY DEF Reserved, Standing
<1>4. ASSUME NEW t \in Transfer
      PROVE  /\ OfTransfer(dispatch, t) \in SUBSET Dispatch
             /\ Claimed(t) \in SUBSET OfTransfer(dispatch, t)
             /\ Assigned(dispatch, t) \in SUBSET Claimed(t)
             /\ Assigned(dispatch, t) \in SUBSET OfTransfer(dispatch, t)
             /\ Claimed(t) \in SUBSET Dispatch
             /\ Allocated(dispatch, t) = Sum(dispatch, Assigned(dispatch, t), "quantity")
  BY DEF Claimed, OfTransfer, Assigned, Allocated, ACTIVE_ALLOCATION_STATES
<1>5. ASSUME NEW t \in Transfer
      PROVE  /\ ClaimedOf(t) \in Nat /\ Allocated(dispatch, t) \in Nat
             /\ Allocated(dispatch, t) <= ClaimedOf(t)
  <2>1. ClaimedOf(t) \in Nat
    BY <1>1, <1>4, SumIsNat DEF ClaimedOf
  <2>2. Allocated(dispatch, t) \in Nat /\ Allocated(dispatch, t) <= ClaimedOf(t)
    <3>. DEFINE A == Assigned(dispatch, t)
                C == Claimed(t)
    <3>1. C \in SUBSET Dispatch /\ A \in SUBSET C
      BY <1>4
    <3>2. Allocated(dispatch, t) = Sum(dispatch, A, "quantity")
      BY <1>4
    <3>. HIDE DEF A, C
    <3>3. Sum(dispatch, A, "quantity") \in Nat
          /\ Sum(dispatch, A, "quantity") <= Sum(dispatch, C, "quantity")
      BY <1>1, <3>1, SumParts
    <3>. QED
      BY <3>2, <3>3 DEF ClaimedOf, C
  <2>. QED
    BY <2>1, <2>2
<1>6. Departed \in Nat /\ Arrived \in Nat /\ Reserved \in Nat
  BY <1>1, <1>2, <1>3, SumIsNat DEF Departed, Arrived
<1>7. \A t \in Transfer : transfer[t].quantity \in Nat /\ transfer[t].cancelled \in Nat
  BY <1>1 DEF TransferRow
<1>. QED
  BY <1>2, <1>3, <1>4, <1>5, <1>6, <1>7

\* One reservation is at most all of them.
LEMMA ReservedMember ==
    ASSUME RowInv, NEW d \in Standing
    PROVE  dispatch[d].quantity <= Reserved
<1>. DEFINE f == [e \in Dispatch |-> dispatch[e]["quantity"]]
<1>1. Standing \in SUBSET Dispatch /\ Reserved = Sum(dispatch, Standing, "quantity")
  BY SumTypes
<1>2. \A e \in Standing : f[e] \in Nat /\ f[e] = dispatch[e].quantity
  BY <1>1, TypeParts DEF RowInv, DispatchRow
<1>3. IsFiniteSet(Standing) /\ IsFiniteSet(Standing \ {d})
  BY <1>1, QuantityAssumption, FS_Subset
<1>. HIDE DEF f
<1>4. SumFunctionOnSet(f, Standing) = f[d] + SumFunctionOnSet(f, Standing \ {d})
  BY <1>2, <1>3, SumRemove
<1>5. SumFunctionOnSet(f, Standing \ {d}) \in Nat
  BY <1>2, <1>3, SumNat
<1>6. Reserved = SumFunctionOnSet(f, Standing)
  BY <1>1 DEF Sum, f
<1>. QED
  BY <1>2, <1>4, <1>5, <1>6

\* A dispatch that is left as it was, with its verdict, stays in the sets it was in.
LEMMA OthersStay ==
    ASSUME RowInv, RowStep, NEW e \in Dispatch, dispatch'[e] = dispatch[e], verdict'[e] = verdict[e]
    PROVE  /\ e \in Moving' <=> e \in Moving
           /\ e \in Standing' <=> e \in Standing
           /\ \A t \in Transfer : /\ e \in Claimed(t)' <=> e \in Claimed(t)
                                  /\ e \in Assigned(dispatch', t) <=> e \in Assigned(dispatch, t)
                                  /\ e \in OfTransfer(dispatch', t) <=> e \in OfTransfer(dispatch, t)
<1>1. dispatch[e].status # "none" => Controlled(e)' = Controlled(e)
  BY OrderOf DEF RowStep, RowsFollow, Controlled
<1>. QED
  BY <1>1 DEF Moving, Standing, Claimed, Assigned, OfTransfer, Existing

\* What the sums become when one dispatch is written.
LEMMA SumsChange ==
    ASSUME RowInv, RowStep, NEW d \in Dispatch,
           \A e \in Dispatch \ {d} : dispatch'[e] = dispatch[e] /\ verdict'[e] = verdict[e]
    PROVE  /\ Departed' = Departed - (IF d \in Moving THEN dispatch[d].departed ELSE 0)
                                   + (IF d \in Moving' THEN dispatch'[d].departed ELSE 0)
           /\ Arrived' = Arrived - (IF d \in Moving THEN dispatch[d].received ELSE 0)
                                 + (IF d \in Moving' THEN dispatch'[d].received ELSE 0)
           /\ Reserved' = Reserved - (IF d \in Standing THEN dispatch[d].quantity ELSE 0)
                                   + (IF d \in Standing' THEN dispatch'[d].quantity ELSE 0)
           /\ \A t \in Transfer :
                 /\ ClaimedOf(t)' = ClaimedOf(t)
                       - (IF d \in Claimed(t) THEN dispatch[d].quantity ELSE 0)
                       + (IF d \in Claimed(t)' THEN dispatch'[d].quantity ELSE 0)
                 /\ Allocated(dispatch', t) = Allocated(dispatch, t)
                       - (IF d \in Assigned(dispatch, t) THEN dispatch[d].quantity ELSE 0)
                       + (IF d \in Assigned(dispatch', t) THEN dispatch'[d].quantity ELSE 0)
<1>1. /\ dispatch \in [Dispatch -> DispatchRow] /\ dispatch' \in [Dispatch -> DispatchRow]
      /\ \A e \in Dispatch \ {d} : dispatch'[e] = dispatch[e]
  BY TypeParts DEF RowInv, RowStep, RowsFollow
<1>2. /\ Moving \in SUBSET Dispatch /\ Standing \in SUBSET Dispatch
      /\ Moving' \in SUBSET Dispatch /\ Standing' \in SUBSET Dispatch
  BY DEF Moving, Standing, Existing
<1>3. Moving \ {d} = Moving' \ {d} /\ Standing \ {d} = Standing' \ {d}
  BY <1>2, OthersStay
<1>4. Departed' = Departed - (IF d \in Moving THEN dispatch[d].departed ELSE 0)
                           + (IF d \in Moving' THEN dispatch'[d].departed ELSE 0)
  BY <1>1, <1>2, <1>3, SumOneRow DEF Departed
<1>5. Arrived' = Arrived - (IF d \in Moving THEN dispatch[d].received ELSE 0)
                         + (IF d \in Moving' THEN dispatch'[d].received ELSE 0)
  BY <1>1, <1>2, <1>3, SumOneRow DEF Arrived
<1>6. Reserved' = Reserved - (IF d \in Standing THEN dispatch[d].quantity ELSE 0)
                           + (IF d \in Standing' THEN dispatch'[d].quantity ELSE 0)
  <2>1. /\ Reserved = Sum(dispatch, Standing, "quantity")
        /\ Reserved' = Sum(dispatch', Standing', "quantity")
    BY DEF Reserved, Standing
  <2>. QED
    BY <1>1, <1>2, <1>3, <2>1, SumOneRow
<1>7. ASSUME NEW t \in Transfer
      PROVE  /\ ClaimedOf(t)' = ClaimedOf(t)
                   - (IF d \in Claimed(t) THEN dispatch[d].quantity ELSE 0)
                   + (IF d \in Claimed(t)' THEN dispatch'[d].quantity ELSE 0)
             /\ Allocated(dispatch', t) = Allocated(dispatch, t)
                   - (IF d \in Assigned(dispatch, t) THEN dispatch[d].quantity ELSE 0)
                   + (IF d \in Assigned(dispatch', t) THEN dispatch'[d].quantity ELSE 0)
  <2>1. /\ Claimed(t) \in SUBSET Dispatch /\ Claimed(t)' \in SUBSET Dispatch
        /\ Assigned(dispatch, t) \in SUBSET Dispatch
        /\ Assigned(dispatch', t) \in SUBSET Dispatch
    BY DEF Claimed, Assigned, OfTransfer
  <2>2. Claimed(t) \ {d} = Claimed(t)' \ {d}
    BY <2>1, OthersStay
  <2>3. Assigned(dispatch, t) \ {d} = Assigned(dispatch', t) \ {d}
    BY <2>1, OthersStay
  <2>4. /\ Allocated(dispatch, t) = Sum(dispatch, Assigned(dispatch, t), "quantity")
        /\ Allocated(dispatch', t) = Sum(dispatch', Assigned(dispatch', t), "quantity")
    BY DEF Allocated, Assigned
  <2>5. ClaimedOf(t)' = ClaimedOf(t)
           - (IF d \in Claimed(t) THEN dispatch[d].quantity ELSE 0)
           + (IF d \in Claimed(t)' THEN dispatch'[d].quantity ELSE 0)
    BY <1>1, <2>1, <2>2, SumOneRow DEF ClaimedOf
  <2>6. Allocated(dispatch', t) = Allocated(dispatch, t)
           - (IF d \in Assigned(dispatch, t) THEN dispatch[d].quantity ELSE 0)
           + (IF d \in Assigned(dispatch', t) THEN dispatch'[d].quantity ELSE 0)
    BY <1>1, <2>1, <2>3, <2>4, SumOneRow
  <2>. QED
    BY <2>5, <2>6
<1>. QED
  BY <1>4, <1>5, <1>6, <1>7

\* Which sets the dispatch of a step is in, before and after it.
LEMMA Memberships ==
    ASSUME RowInv, RowStep, NEW d \in Dispatch, dispatch[d].status # "none",
           NEW t, t = dispatch[d].of
    PROVE  /\ t \in Transfer
           /\ d \in Moving <=> Controlled(d)
           /\ d \in Moving' <=> Controlled(d)
           /\ d \in Standing <=> Controlled(d) /\ dispatch[d].line \in Reserving
           /\ d \in Standing' <=> Controlled(d) /\ dispatch'[d].line \in Reserving
           /\ dispatch[d].quantity \in Nat /\ dispatch[d].quantity > 0
           /\ dispatch'[d].quantity = dispatch[d].quantity
           /\ dispatch[d].line \in Line
           /\ \A u \in Transfer :
                 /\ d \in Claimed(u) <=> u = t /\ (dispatch[d].line # "released" \/ verdict[d] # "rejected")
                 /\ d \in Claimed(u)' <=> u = t /\ (dispatch'[d].line # "released" \/ verdict'[d] # "rejected")
                 /\ d \in Assigned(dispatch, u) <=> u = t /\ dispatch[d].line \in ACTIVE_ALLOCATION_STATES
                 /\ d \in Assigned(dispatch', u) <=> u = t /\ dispatch'[d].line \in ACTIVE_ALLOCATION_STATES
<1>1. t \in Transfer /\ OfTransfer(dispatch, t) # {}
  BY OrderOf
<1>2. dispatch'[d].status # "none" /\ dispatch'[d].of = t
      /\ dispatch'[d].quantity = dispatch[d].quantity
  BY DEF RowStep, RowsFollow, Follows
<1>3. Controlled(d)' = Controlled(d)
  <2>1. transfer'[t].controlled = transfer[t].controlled
    BY <1>1 DEF RowStep, RowsFollow
  <2>. QED
    BY <1>2, <2>1 DEF Controlled
<1>4. /\ dispatch[d].quantity \in Nat /\ dispatch[d].quantity > 0 /\ dispatch[d].line \in Line
  <2>1. dispatch[d] \in DispatchRow /\ SoundRow(dispatch[d])
    BY TypeParts DEF RowInv
  <2>. QED
    BY <2>1 DEF DispatchRow, SoundRow
<1>5. /\ d \in Moving <=> Controlled(d)
      /\ d \in Moving' <=> Controlled(d)
      /\ d \in Standing <=> Controlled(d) /\ dispatch[d].line \in Reserving
      /\ d \in Standing' <=> Controlled(d) /\ dispatch'[d].line \in Reserving
  BY <1>2, <1>3 DEF Moving, Standing, Existing
<1>6. ASSUME NEW u \in Transfer
      PROVE  /\ d \in OfTransfer(dispatch, u) <=> u = t
             /\ d \in OfTransfer(dispatch', u) <=> u = t
  BY <1>2 DEF OfTransfer
<1>7. ASSUME NEW u \in Transfer
      PROVE  /\ d \in Claimed(u) <=> u = t /\ (dispatch[d].line # "released" \/ verdict[d] # "rejected")
             /\ d \in Claimed(u)' <=> u = t /\ (dispatch'[d].line # "released" \/ verdict'[d] # "rejected")
             /\ d \in Assigned(dispatch, u) <=> u = t /\ dispatch[d].line \in ACTIVE_ALLOCATION_STATES
             /\ d \in Assigned(dispatch', u) <=> u = t /\ dispatch'[d].line \in ACTIVE_ALLOCATION_STATES
  BY <1>6 DEF Claimed, Assigned
<1>. QED
  BY <1>1, <1>2, <1>4, <1>5, <1>7

\* A transfer whose dispatches are left alone, and its own row, stays as it was.
LEMMA OthersFit ==
    ASSUME Inv, RowStep, NEW d \in Dispatch,
           \A e \in Dispatch \ {d} : dispatch'[e] = dispatch[e] /\ verdict'[e] = verdict[e],
           NEW u \in Transfer, d \notin OfTransfer(dispatch, u), d \notin OfTransfer(dispatch', u),
           transfer'[u] = transfer[u], strayed \subseteq strayed'
    PROVE  Fits(u)' /\ Settled(u)'
<1>1. /\ d \notin Claimed(u) /\ d \notin Claimed(u)'
      /\ d \notin Assigned(dispatch, u) /\ d \notin Assigned(dispatch', u)
  BY DEF Claimed, Assigned
<1>2. RowInv /\ Fits(u) /\ Settled(u)
  BY DEF Inv
<1>3. ClaimedOf(u) \in Nat /\ Allocated(dispatch, u) \in Nat
  BY <1>2, SumTypes
<1>4. ClaimedOf(u)' = ClaimedOf(u) /\ Allocated(dispatch', u) = Allocated(dispatch, u)
  BY <1>1, <1>2, <1>3, SumsChange
<1>5. strayed' = {} => strayed = {}
  OBVIOUS
<1>6. Fits(u)'
  BY <1>2, <1>4, <1>5 DEF Fits
<1>7. \A e \in OfTransfer(dispatch', u) : e \in OfTransfer(dispatch, u) /\ dispatch'[e] = dispatch[e]
  BY DEF OfTransfer
<1>8. Settled(u)'
  BY <1>2, <1>5, <1>7 DEF Settled
<1>. QED
  BY <1>6, <1>8

\* The order whose status was computed is settled if it is completed.
LEMMA RefreshedSettled ==
    ASSUME RowStep, NEW t \in Transfer, Fits(t)',
           transfer'[t].status = Refreshed(transfer'[t], dispatch', t)
    PROVE  Settled(t)'
<1>1. /\ dispatch' \in [Dispatch -> DispatchRow] /\ transfer'[t] \in TransferRow
      /\ \A d \in Dispatch : SoundRow(dispatch'[d])
  BY DEF RowStep, RowsFollow, Follows
<1>2. strayed' = {} => Allocated(dispatch', t) + transfer'[t].cancelled <= transfer'[t].quantity
  BY DEF Fits
<1>. SUFFICES ASSUME strayed' = {}, transfer'[t].status = "completed",
                     NEW d \in OfTransfer(dispatch', t)
              PROVE  dispatch'[d].line \in {"received", "released"}
  BY DEF Settled
<1>. QED
  BY <1>1, <1>2, CompletedSettled

\* Releasing q of what is reserved keeps what is committed within it.
LEMMA UncommitFits ==
    ASSUME committed \in Nat, NEW r \in Nat, NEW q \in Nat, committed <= r, q <= r
    PROVE  /\ Uncommit(q) <= r - q
           /\ committed = r => Uncommit(q) = r - q
BY DEF Uncommit

\* The books after a step: what is left of the invariant once its rows are sound.
Books == GoodsInv /\ CommittedIsReserved /\ \A t \in Transfer : Fits(t) /\ Settled(t)

LEMMA InvTypes ==
    ASSUME Inv
    PROVE  /\ RowInv
           /\ stock.source \in Int /\ stock.destination \in Int
           /\ adjusted.source \in Int /\ adjusted.destination \in Int
           /\ committed \in Nat /\ InitialStock \in Nat
           /\ GoodsInv /\ CommittedIsReserved
           /\ \A t \in Transfer : Fits(t) /\ Settled(t)
BY QuantityAssumption, TypeParts DEF Inv, RowInv, StockOK

LEMMA JobBooks ==
    ASSUME Inv, NEW d \in Dispatch, JobStep(d)
    PROVE  Books'
<1>1. /\ RowStep /\ UNCHANGED <<transfer, dispatch, stock, committed, adjusted, strayed>>
      /\ verdict[d] # "none" => verdict'[d] = verdict[d]
      /\ \A e \in Dispatch \ {d} : dispatch'[e] = dispatch[e] /\ verdict'[e] = verdict[e]
      /\ RowInv
  BY InvTypes, JobStepped
<1>2. Moving' = Moving /\ Standing' = Standing
  BY <1>1 DEF Moving, Standing, Existing, Controlled
<1>3. GoodsInv' /\ CommittedIsReserved'
  BY <1>1, <1>2, InvTypes
  DEF GoodsInv, CommittedIsReserved, Departed, Arrived, Reserved, Existing, Controlled
<1>4. ASSUME NEW t \in Transfer PROVE Fits(t)' /\ Settled(t)'
  <2>1. /\ ClaimedOf(t) \in Nat /\ Allocated(dispatch, t) \in Nat
        /\ transfer[t].quantity \in Nat /\ transfer[t].cancelled \in Nat
    BY <1>1, SumTypes
  <2>2. d \in Claimed(t)' => d \in Claimed(t) /\ dispatch[d].quantity \in Nat
    BY <1>1, TypeParts DEF Claimed, OfTransfer, RowInv, DispatchRow
  <2>3. d \in Claimed(t) => dispatch[d].quantity \in Nat
    BY <1>1, TypeParts DEF RowInv, DispatchRow
  <2>4. ClaimedOf(t)' = ClaimedOf(t) - (IF d \in Claimed(t) THEN dispatch[d].quantity ELSE 0)
                                     + (IF d \in Claimed(t)' THEN dispatch'[d].quantity ELSE 0)
    BY <1>1, SumsChange
  <2>5. ClaimedOf(t)' <= ClaimedOf(t) /\ ClaimedOf(t)' \in Int
    BY <1>1, <2>1, <2>2, <2>3, <2>4
  <2>6. Fits(t) /\ Settled(t)
    BY InvTypes
  <2>. QED
    BY <1>1, <2>1, <2>5, <2>6 DEF Fits, Settled
<1>. QED
  BY <1>3, <1>4 DEF Books

LEMMA PaperBooks ==
    ASSUME Inv, NEW d \in Dispatch, PaperStep(d)
    PROVE  Books'
<1>1. /\ RowStep /\ RowInv
      /\ UNCHANGED <<transfer, verdict, stock, committed, adjusted, strayed>>
      /\ \A e \in Dispatch \ {d} : dispatch'[e] = dispatch[e] /\ verdict'[e] = verdict[e]
      /\ dispatch'[d].line = dispatch[d].line /\ dispatch'[d].of = dispatch[d].of
      /\ dispatch'[d].status # "none" /\ dispatch[d].status # "none"
      /\ dispatch'[d].departed = dispatch[d].departed
      /\ dispatch'[d].received = dispatch[d].received
  BY InvTypes, PaperStepped
<1>2. /\ d \in Moving' <=> d \in Moving
      /\ d \in Standing' <=> d \in Standing
      /\ dispatch[d].quantity \in Nat /\ dispatch'[d].quantity = dispatch[d].quantity
      /\ \A u \in Transfer : /\ d \in Claimed(u)' <=> d \in Claimed(u)
                             /\ d \in Assigned(dispatch', u) <=> d \in Assigned(dispatch, u)
  BY <1>1, Memberships
<1>3. dispatch[d].departed \in Nat /\ dispatch[d].received \in Nat
  BY <1>1, TypeParts DEF RowInv, DispatchRow
<1>4. /\ Departed' = Departed /\ Arrived' = Arrived /\ Reserved' = Reserved
      /\ \A u \in Transfer : /\ ClaimedOf(u)' = ClaimedOf(u)
                             /\ Allocated(dispatch', u) = Allocated(dispatch, u)
  BY <1>1, <1>2, <1>3, SumTypes, SumsChange
<1>5. GoodsInv' /\ CommittedIsReserved'
  BY <1>1, <1>4, InvTypes DEF GoodsInv, CommittedIsReserved
<1>6. ASSUME NEW u \in Transfer PROVE Fits(u)' /\ Settled(u)'
  <2>1. Fits(u) /\ Settled(u)
    BY InvTypes
  <2>2. \A e \in OfTransfer(dispatch', u) : /\ e \in OfTransfer(dispatch, u)
                                            /\ dispatch'[e].line = dispatch[e].line
    BY <1>1 DEF OfTransfer
  <2>. QED
    BY <1>1, <1>4, <2>1, <2>2 DEF Fits, Settled
<1>. QED
  BY <1>5, <1>6 DEF Books

LEMMA AnswerBooks ==
    ASSUME Inv, NEW d \in Dispatch, AnswerStep(d), NEW t, t = dispatch[d].of
    PROVE  Books'
<1>1. /\ RowStep /\ RowInv
      /\ UNCHANGED <<verdict, stock, adjusted, strayed>>
      /\ \A e \in Dispatch \ {d} : dispatch'[e] = dispatch[e] /\ verdict'[e] = verdict[e]
      /\ dispatch'[d].of = dispatch[d].of
      /\ dispatch'[d].status # "none" /\ dispatch[d].status # "none"
      /\ dispatch'[d].departed = dispatch[d].departed
      /\ dispatch'[d].received = dispatch[d].received
  BY InvTypes, AnswerStepped
<1>2. \/ /\ verdict[d] = "accepted"
         /\ dispatch'[d].line = IF dispatch[d].line = "active" THEN "covered"
                                ELSE dispatch[d].line
         /\ committed' = committed
      \/ /\ verdict[d] = "rejected"
         /\ dispatch'[d].line = IF dispatch[d].line = "active" THEN "released"
                                ELSE dispatch[d].line
         /\ committed' = IF dispatch[d].line = "active" /\ Controlled(d)
                         THEN Uncommit(dispatch[d].quantity) ELSE committed
  BY <1>1, AnswerStepped
<1>3. /\ transfer'[t].status = Refreshed(transfer'[t], dispatch', t)
      /\ \A u \in Transfer \ {t} : transfer'[u] = transfer[u]
      /\ \A u \in Transfer : /\ transfer'[u].quantity = transfer[u].quantity
                             /\ transfer'[u].cancelled = transfer[u].cancelled
  BY <1>1, AnswerStepped
<1>4. /\ t \in Transfer
      /\ d \in Moving <=> Controlled(d)
      /\ d \in Moving' <=> Controlled(d)
      /\ d \in Standing <=> Controlled(d) /\ dispatch[d].line \in Reserving
      /\ d \in Standing' <=> Controlled(d) /\ dispatch'[d].line \in Reserving
      /\ dispatch[d].quantity \in Nat /\ dispatch'[d].quantity = dispatch[d].quantity
      /\ d \in Claimed(t) <=> (dispatch[d].line # "released" \/ verdict[d] # "rejected")
      /\ d \in Claimed(t)' <=> (dispatch'[d].line # "released" \/ verdict'[d] # "rejected")
      /\ d \in Assigned(dispatch, t) <=> dispatch[d].line \in ACTIVE_ALLOCATION_STATES
      /\ d \in Assigned(dispatch', t) <=> dispatch'[d].line \in ACTIVE_ALLOCATION_STATES
  BY <1>1, Memberships
<1>5. dispatch[d].departed \in Nat /\ dispatch[d].received \in Nat
  BY <1>1, TypeParts DEF RowInv, DispatchRow
<1>6. GoodsInv'
  <2>1. Departed' = Departed /\ Arrived' = Arrived
    BY <1>1, <1>4, <1>5, SumTypes, SumsChange
  <2>. QED
    BY <1>1, <2>1, InvTypes DEF GoodsInv
<1>. DEFINE gone == dispatch[d].line = "active" /\ verdict[d] = "rejected"
            q == dispatch[d].quantity
<1>7. CommittedIsReserved'
  <2>1. committed \in Nat /\ Reserved \in Nat /\ CommittedIsReserved
    BY <1>1, InvTypes, SumTypes
  <2>2. Reserved' = Reserved - (IF d \in Standing THEN q ELSE 0)
                             + (IF d \in Standing' THEN q ELSE 0)
    BY <1>1, <1>4, SumsChange
  <2>3. CASE gone /\ Controlled(d)
    <3>1. Reserved' = Reserved - q /\ committed' = Uncommit(q)
      BY <1>2, <1>4, <2>1, <2>2, <2>3 DEF Reserving
    <3>2. d \in Standing
      BY <1>4, <2>3 DEF Reserving
    <3>3. q <= Reserved
      <4>1. Reserved = Sum(dispatch, Standing, "quantity")
        BY <1>1, SumTypes
      <4>. QED
        BY <1>1, <3>2, <4>1, ReservedMember
    <3>. QED
      BY <1>1, <1>4, <2>1, <3>1, <3>3, UncommitFits DEF CommittedIsReserved
  <2>4. CASE ~(gone /\ Controlled(d))
    <3>1. committed' = committed /\ (d \in Standing' <=> d \in Standing)
      BY <1>2, <1>4, <2>4 DEF Reserving
    <3>2. Reserved' = Reserved
      BY <1>4, <2>1, <2>2, <3>1
    <3>. QED
      BY <1>1, <2>1, <3>1, <3>2 DEF CommittedIsReserved
  <2>. QED
    BY <2>3, <2>4
<1>8. Fits(t)'
  <2>1. /\ ClaimedOf(t) \in Nat /\ Allocated(dispatch, t) \in Nat
        /\ transfer[t].quantity \in Nat /\ transfer[t].cancelled \in Nat /\ Fits(t)
    BY <1>1, <1>4, InvTypes, SumTypes
  <2>2. /\ ClaimedOf(t)' = ClaimedOf(t) - (IF d \in Claimed(t) THEN q ELSE 0)
                                        + (IF d \in Claimed(t)' THEN q ELSE 0)
        /\ Allocated(dispatch', t) = Allocated(dispatch, t)
              - (IF d \in Assigned(dispatch, t) THEN q ELSE 0)
              + (IF d \in Assigned(dispatch', t) THEN q ELSE 0)
    BY <1>1, <1>4, SumsChange
  <2>3. CASE gone
    <3>1. /\ d \in Claimed(t) /\ d \notin Claimed(t)'
          /\ d \in Assigned(dispatch, t) /\ d \notin Assigned(dispatch', t)
      BY <1>1, <1>2, <1>4, <2>3 DEF ACTIVE_ALLOCATION_STATES
    <3>. QED
      BY <1>1, <1>3, <1>4, <2>1, <2>2, <3>1 DEF Fits
  <2>4. CASE ~gone
    <3>1. /\ d \in Claimed(t)' <=> d \in Claimed(t)
          /\ d \in Assigned(dispatch', t) <=> d \in Assigned(dispatch, t)
      BY <1>1, <1>2, <1>4, <2>4 DEF ACTIVE_ALLOCATION_STATES
    <3>. QED
      BY <1>1, <1>3, <1>4, <2>1, <2>2, <3>1 DEF Fits
  <2>. QED
    BY <2>3, <2>4
<1>9. ASSUME NEW u \in Transfer, u # t PROVE Fits(u)' /\ Settled(u)'
  BY <1>1, <1>3, <1>9, OthersFit DEF OfTransfer
<1>10. Settled(t)'
  BY <1>1, <1>3, <1>4, <1>8, RefreshedSettled
<1>. QED
  BY <1>4, <1>6, <1>7, <1>8, <1>9, <1>10 DEF Books

LEMMA DepartureBooks ==
    ASSUME Inv, NEW d \in Dispatch, ConfirmDeparture(d), NEW t, t = dispatch[d].of
    PROVE  Books'
<1>. DEFINE q == dispatch[d].quantity
<1>1. /\ RowStep /\ RowInv
      /\ UNCHANGED <<verdict, adjusted>>
      /\ \A e \in Dispatch \ {d} : dispatch'[e] = dispatch[e] /\ verdict'[e] = verdict[e]
      /\ dispatch'[d].of = dispatch[d].of /\ dispatch'[d].line = "departed"
      /\ dispatch'[d].status # "none" /\ dispatch[d].status # "none"
      /\ dispatch[d].departed = 0 /\ dispatch'[d].departed = q
      /\ dispatch[d].received = 0 /\ dispatch'[d].received = 0
      /\ dispatch[d].line \in {"active", "covered", "released"}
      /\ verdict[d] # "rejected"
  BY InvTypes, DepartureStepped
<1>2. /\ IF Controlled(d)
         THEN /\ stock'.source = stock.source - q
              /\ stock'.destination = stock.destination
              /\ committed' = Uncommit(q)
         ELSE UNCHANGED <<stock, committed>>
      /\ strayed' = IF dispatch[d].line \in Reserving THEN strayed ELSE strayed \cup {d}
  BY <1>1, DepartureStepped
<1>3. /\ transfer'[t].status = Refreshed(transfer'[t], dispatch', t)
      /\ \A u \in Transfer \ {t} : transfer'[u] = transfer[u]
      /\ \A u \in Transfer : /\ transfer'[u].quantity = transfer[u].quantity
                             /\ transfer'[u].cancelled = transfer[u].cancelled
  BY <1>1, DepartureStepped
<1>4. /\ t \in Transfer
      /\ d \in Moving <=> Controlled(d)
      /\ d \in Moving' <=> Controlled(d)
      /\ d \in Standing <=> Controlled(d) /\ dispatch[d].line \in Reserving
      /\ d \in Standing' <=> Controlled(d) /\ dispatch'[d].line \in Reserving
      /\ q \in Nat /\ dispatch'[d].quantity = q
      /\ d \in Claimed(t) <=> (dispatch[d].line # "released" \/ verdict[d] # "rejected")
      /\ d \in Claimed(t)' <=> (dispatch'[d].line # "released" \/ verdict'[d] # "rejected")
      /\ d \in Assigned(dispatch, t) <=> dispatch[d].line \in ACTIVE_ALLOCATION_STATES
      /\ d \in Assigned(dispatch', t) <=> dispatch'[d].line \in ACTIVE_ALLOCATION_STATES
  BY <1>1, Memberships
<1>5. GoodsInv'
  <2>1. /\ Departed' = Departed + (IF Controlled(d) THEN q ELSE 0) /\ Arrived' = Arrived
        /\ Departed \in Nat /\ Arrived \in Nat
    BY <1>1, <1>4, SumTypes, SumsChange
  <2>2. CASE Controlled(d)
    BY <1>1, <1>2, <1>4, <2>1, <2>2, InvTypes DEF GoodsInv
  <2>3. CASE ~Controlled(d)
    BY <1>1, <1>2, <2>1, <2>3, InvTypes DEF GoodsInv
  <2>. QED
    BY <2>2, <2>3
<1>6. CommittedIsReserved'
  <2>1. committed \in Nat /\ Reserved \in Nat /\ CommittedIsReserved
    BY <1>1, InvTypes, SumTypes
  <2>2. Reserved' = Reserved - (IF d \in Standing THEN q ELSE 0)
    <3>1. d \notin Standing'
      BY <1>1, <1>4 DEF Reserving
    <3>. QED
      BY <1>1, <1>4, <2>1, <3>1, SumsChange
  <2>3. CASE d \in Standing
    <3>1. Reserved' = Reserved - q /\ committed' = Uncommit(q) /\ strayed' = strayed
      BY <1>2, <1>4, <2>2, <2>3
    <3>2. q <= Reserved
      BY <1>1, <2>3, ReservedMember
    <3>. QED
      BY <1>4, <2>1, <3>1, <3>2, UncommitFits DEF CommittedIsReserved
  <2>4. CASE d \notin Standing /\ Controlled(d)
    <3>1. d \in strayed' /\ committed' = Uncommit(q) /\ Reserved' = Reserved
      BY <1>2, <1>4, <2>1, <2>2, <2>4
    <3>2. Uncommit(q) <= committed
      BY <1>4, <2>1 DEF Uncommit
    <3>3. Uncommit(q) \in Nat
      BY <1>4, <2>1, UncommitNat
    <3>. QED
      BY <2>1, <3>1, <3>2, <3>3 DEF CommittedIsReserved
  <2>5. CASE ~Controlled(d)
    <3>1. committed' = committed /\ Reserved' = Reserved /\ (strayed' = {} => strayed = {})
      BY <1>2, <1>4, <2>1, <2>2, <2>5
    <3>. QED
      BY <2>1, <3>1 DEF CommittedIsReserved
  <2>. QED
    BY <2>3, <2>4, <2>5
<1>7. Fits(t)'
  <2>1. /\ ClaimedOf(t) \in Nat /\ Allocated(dispatch, t) \in Nat
        /\ transfer[t].quantity \in Nat /\ transfer[t].cancelled \in Nat /\ Fits(t)
    BY <1>1, <1>4, InvTypes, SumTypes
  <2>2. /\ d \in Claimed(t) /\ d \in Claimed(t)'
        /\ d \in Assigned(dispatch', t)
        /\ d \in Assigned(dispatch, t) <=> dispatch[d].line \in Reserving
    BY <1>1, <1>4 DEF ACTIVE_ALLOCATION_STATES, Reserving
  <2>3. /\ ClaimedOf(t)' = ClaimedOf(t)
        /\ Allocated(dispatch', t) = Allocated(dispatch, t)
              + (IF d \in Assigned(dispatch, t) THEN 0 ELSE q)
    BY <1>1, <1>4, <2>1, <2>2, SumsChange
  <2>4. CASE dispatch[d].line \in Reserving
    BY <1>2, <1>3, <1>4, <2>1, <2>2, <2>3, <2>4 DEF Fits
  <2>5. CASE dispatch[d].line \notin Reserving
    <3>1. strayed' # {} /\ Allocated(dispatch', t) >= Allocated(dispatch, t)
          /\ Allocated(dispatch', t) \in Nat
      BY <1>2, <1>4, <2>1, <2>3, <2>5
    <3>. QED
      BY <1>3, <1>4, <2>1, <2>3, <3>1 DEF Fits
  <2>. QED
    BY <2>4, <2>5
<1>8. ASSUME NEW u \in Transfer, u # t PROVE Fits(u)' /\ Settled(u)'
  <2>1. strayed \subseteq strayed'
    BY <1>2
  <2>. QED
    BY <1>1, <1>3, <1>8, <2>1, OthersFit DEF OfTransfer
<1>9. Settled(t)'
  BY <1>1, <1>3, <1>4, <1>7, RefreshedSettled
<1>. QED
  BY <1>4, <1>5, <1>6, <1>7, <1>8, <1>9 DEF Books

LEMMA ReceiptBooks ==
    ASSUME Inv, NEW d \in Dispatch, NEW q \in Quantity, ReceiveDispatch(d, q),
           NEW t, t = dispatch[d].of
    PROVE  Books'
<1>1. /\ RowStep /\ RowInv
      /\ UNCHANGED <<verdict, committed, adjusted, strayed>>
      /\ \A e \in Dispatch \ {d} : dispatch'[e] = dispatch[e] /\ verdict'[e] = verdict[e]
      /\ dispatch'[d].of = dispatch[d].of
      /\ dispatch'[d].status # "none" /\ dispatch[d].status # "none"
      /\ dispatch'[d].departed = dispatch[d].departed
      /\ dispatch'[d].received = dispatch[d].received + q
      /\ dispatch[d].line = "departed" /\ dispatch'[d].line \in {"departed", "received"}
  BY InvTypes, ReceiptStepped
<1>2. IF Controlled(d)
      THEN /\ stock'.source = stock.source
           /\ stock'.destination = stock.destination + q
      ELSE UNCHANGED stock
  BY <1>1, ReceiptStepped
<1>3. /\ transfer'[t].status = Refreshed(transfer'[t], dispatch', t)
      /\ \A u \in Transfer \ {t} : transfer'[u] = transfer[u]
      /\ \A u \in Transfer : /\ transfer'[u].quantity = transfer[u].quantity
                             /\ transfer'[u].cancelled = transfer[u].cancelled
  BY <1>1, ReceiptStepped
<1>4. /\ t \in Transfer
      /\ d \in Moving <=> Controlled(d)
      /\ d \in Moving' <=> Controlled(d)
      /\ d \in Standing <=> Controlled(d) /\ dispatch[d].line \in Reserving
      /\ d \in Standing' <=> Controlled(d) /\ dispatch'[d].line \in Reserving
      /\ dispatch[d].quantity \in Nat /\ dispatch'[d].quantity = dispatch[d].quantity
      /\ d \in Claimed(t) <=> (dispatch[d].line # "released" \/ verdict[d] # "rejected")
      /\ d \in Claimed(t)' <=> (dispatch'[d].line # "released" \/ verdict'[d] # "rejected")
      /\ d \in Assigned(dispatch, t) <=> dispatch[d].line \in ACTIVE_ALLOCATION_STATES
      /\ d \in Assigned(dispatch', t) <=> dispatch'[d].line \in ACTIVE_ALLOCATION_STATES
  BY <1>1, Memberships
<1>5. q \in Nat /\ dispatch[d].departed \in Nat /\ dispatch[d].received \in Nat
  BY <1>1, QuantityAssumption, TypeParts DEF RowInv, DispatchRow
<1>6. /\ d \notin Standing /\ d \notin Standing'
      /\ d \in Claimed(t) /\ d \in Claimed(t)'
      /\ d \in Assigned(dispatch, t) /\ d \in Assigned(dispatch', t)
  BY <1>1, <1>4 DEF Reserving, ACTIVE_ALLOCATION_STATES
<1>7. GoodsInv'
  <2>1. /\ Departed' = Departed /\ Arrived' = Arrived + (IF Controlled(d) THEN q ELSE 0)
        /\ Departed \in Nat /\ Arrived \in Nat
    BY <1>1, <1>4, <1>5, SumTypes, SumsChange
  <2>2. CASE Controlled(d)
    BY <1>1, <1>2, <1>5, <2>1, <2>2, InvTypes DEF GoodsInv
  <2>3. CASE ~Controlled(d)
    BY <1>1, <1>2, <2>1, <2>3, InvTypes DEF GoodsInv
  <2>. QED
    BY <2>2, <2>3
<1>8. CommittedIsReserved'
  <2>1. Reserved' = Reserved
    BY <1>1, <1>6, SumTypes, SumsChange
  <2>. QED
    BY <1>1, <2>1, InvTypes DEF CommittedIsReserved
<1>9. Fits(t)'
  <2>1. ClaimedOf(t)' = ClaimedOf(t) /\ Allocated(dispatch', t) = Allocated(dispatch, t)
    BY <1>1, <1>4, <1>6, SumTypes, SumsChange
  <2>. QED
    BY <1>1, <1>3, <1>4, <2>1, InvTypes DEF Fits
<1>10. ASSUME NEW u \in Transfer, u # t PROVE Fits(u)' /\ Settled(u)'
  BY <1>1, <1>3, <1>10, OthersFit DEF OfTransfer
<1>11. Settled(t)'
  BY <1>1, <1>3, <1>4, <1>9, RefreshedSettled
<1>. QED
  BY <1>4, <1>7, <1>8, <1>9, <1>10, <1>11 DEF Books

\* A new dispatch takes at most what is available and what remains of its order.
LEMMA CreationBooks ==
    ASSUME Inv, NEW d \in Dispatch, NEW t \in Transfer, NEW q \in Quantity, CreateDispatch(d, t, q)
    PROVE  Books'
<1>1. /\ RowStep /\ RowInv /\ UNCHANGED <<stock, verdict, adjusted, strayed>>
      /\ \A e \in Dispatch \ {d} : dispatch'[e] = dispatch[e] /\ verdict'[e] = verdict[e]
      /\ dispatch[d].status = "none" /\ dispatch'[d].status = "reserved"
      /\ dispatch'[d].of = t /\ dispatch'[d].quantity = q /\ dispatch'[d].line = "active"
      /\ dispatch'[d].departed = 0 /\ dispatch'[d].received = 0
      /\ \A u \in Transfer \ {t} : transfer'[u] = transfer[u]
      /\ q \in Nat
  <2>1. RowInv /\ q \in Nat
    BY InvTypes, QuantityAssumption
  <2>2. UNCHANGED <<stock, verdict, adjusted, strayed>> /\ dispatch[d].status = "none"
    BY DEF CreateDispatch, fiscal, books
  <2>. QED
    BY <2>1, <2>2, DispatchCreated
<1>2. /\ transfer'[t].quantity = transfer[t].quantity
      /\ transfer'[t].cancelled = transfer[t].cancelled
      /\ transfer'[t].controlled = transfer[t].controlled
      /\ transfer'[t].status = "pending"
  <2>1. transfer'[t] = [transfer[t] EXCEPT !.status = "pending"]
    BY <1>1, DispatchCreated
  <2>2. transfer[t] \in TransferRow
    BY <1>1, TypeParts DEF RowInv
  <2>. QED
    BY <2>1, <2>2 DEF TransferRow
<1>3. /\ q <= transfer[t].quantity - transfer[t].cancelled - Allocated(dispatch, t)
      /\ committed' = IF transfer[t].controlled THEN committed + q ELSE committed
  BY DEF CreateDispatch, Remaining
<1>4. /\ d \notin Moving /\ d \notin Standing
      /\ d \in Moving' <=> transfer[t].controlled
      /\ d \in Standing' <=> transfer[t].controlled
  BY <1>1, <1>2 DEF Moving, Standing, Existing, Controlled, Reserving
<1>5. /\ d \notin Claimed(t) /\ d \in Claimed(t)'
      /\ d \notin Assigned(dispatch, t) /\ d \in Assigned(dispatch', t)
  BY <1>1 DEF Claimed, Assigned, OfTransfer, ACTIVE_ALLOCATION_STATES
<1>6. GoodsInv'
  <2>1. Departed' = Departed /\ Arrived' = Arrived
    BY <1>1, <1>4, SumTypes, SumsChange
  <2>. QED
    BY <1>1, <2>1, InvTypes DEF GoodsInv
<1>7. CommittedIsReserved'
  <2>1. /\ Reserved' = Reserved + (IF transfer[t].controlled THEN q ELSE 0)
        /\ Reserved \in Nat /\ committed \in Nat /\ CommittedIsReserved
    BY <1>1, <1>4, InvTypes, SumTypes, SumsChange
  <2>2. CASE transfer[t].controlled
    BY <1>1, <1>3, <2>1, <2>2 DEF CommittedIsReserved
  <2>3. CASE ~transfer[t].controlled
    BY <1>1, <1>3, <2>1, <2>3 DEF CommittedIsReserved
  <2>. QED
    BY <2>2, <2>3
<1>8. Fits(t)'
  <2>1. /\ ClaimedOf(t)' = ClaimedOf(t) + q
        /\ Allocated(dispatch', t) = Allocated(dispatch, t) + q
        /\ ClaimedOf(t) \in Nat /\ Allocated(dispatch, t) \in Nat
        /\ transfer[t].quantity \in Nat /\ transfer[t].cancelled \in Nat /\ Fits(t)
    BY <1>1, <1>5, InvTypes, SumTypes, SumsChange
  <2>. QED
    BY <1>1, <1>2, <1>3, <2>1 DEF Fits
<1>9. Settled(t)'
  BY <1>2 DEF Settled
<1>10. ASSUME NEW u \in Transfer, u # t PROVE Fits(u)' /\ Settled(u)'
  BY <1>1, <1>10, OthersFit DEF OfTransfer
<1>. QED
  BY <1>6, <1>7, <1>8, <1>9, <1>10 DEF Books

\* An order that is written has no dispatches.
LEMMA OrderBooks ==
    ASSUME Inv, NEW t \in Transfer, NEW q \in Quantity, NEW s \in BOOLEAN, NEW c \in BOOLEAN,
           CreateTransfer(t, q, s, c) \/ UpdateTransfer(t, q, s, c)
    PROVE  Books'
<1>1. /\ RowStep /\ RowInv
      /\ UNCHANGED <<dispatch, verdict, stock, committed, adjusted, strayed>>
      /\ transfer \in [Transfer -> TransferRow] /\ q \in Nat
  BY InvTypes, OrderWritten, TypeParts, QuantityAssumption
  DEF RowInv, CreateTransfer, UpdateTransfer, fiscal, books
<1>2. OfTransfer(dispatch, t) = {}
  BY <1>1 DEF CreateTransfer, UpdateTransfer, OfTransfer, RowInv, Papers
<1>3. PICK st \in TransferStatus :
         transfer' = [transfer EXCEPT ![t] = [status |-> st, quantity |-> q, cancelled |-> 0,
                                              sameSite |-> s, controlled |-> c]]
  BY <1>1 DEF CreateTransfer, UpdateTransfer, TransferRow, TransferStatus
<1>4. /\ transfer'[t].quantity = q /\ transfer'[t].cancelled = 0
      /\ \A u \in Transfer \ {t} : transfer'[u] = transfer[u]
  BY <1>1, <1>3
<1>5. ASSUME NEW d \in Dispatch, dispatch[d].status # "none"
      PROVE  Controlled(d)' = Controlled(d)
  BY <1>1, <1>5, OrderOf DEF RowStep, RowsFollow, Controlled
<1>6. Moving' = Moving /\ Standing' = Standing
  BY <1>1, <1>5 DEF Moving, Standing, Existing
<1>7. Reserved' = Reserved /\ Departed' = Departed /\ Arrived' = Arrived
  <2>1. /\ Reserved = Sum(dispatch, Standing, "quantity")
        /\ Reserved' = Sum(dispatch', Standing', "quantity")
    BY DEF Reserved, Standing
  <2>. QED
    BY <1>1, <1>6, <2>1 DEF Departed, Arrived
<1>8. GoodsInv' /\ CommittedIsReserved'
  BY <1>1, <1>7, InvTypes DEF GoodsInv, CommittedIsReserved
<1>9. Fits(t)' /\ Settled(t)'
  <2>1. Claimed(t)' = {} /\ Assigned(dispatch', t) = {} /\ OfTransfer(dispatch', t) = {}
    BY <1>1, <1>2 DEF Claimed, Assigned
  <2>2. ClaimedOf(t)' = 0
    BY <2>1, SumNothing DEF ClaimedOf
  <2>3. Allocated(dispatch', t) = 0
    BY <2>1, SumNothing DEF Allocated, Assigned
  <2>. QED
    BY <1>1, <1>4, <2>1, <2>2, <2>3 DEF Fits, Settled
<1>10. ASSUME NEW u \in Transfer, u # t PROVE Fits(u)' /\ Settled(u)'
  <2>1. ClaimedOf(u)' = ClaimedOf(u)
    BY <1>1 DEF ClaimedOf, Claimed
  <2>. QED
    BY <1>1, <1>4, <1>10, <2>1, InvTypes DEF Fits, Settled
<1>. QED
  BY <1>8, <1>9, <1>10 DEF Books

LEMMA AdjustmentBooks ==
    ASSUME Inv, NEW w \in {"source", "destination"}, NEW q \in {-1, 1},
           NEW allowNegative \in BOOLEAN, AdjustStock(w, q, allowNegative)
    PROVE  Books'
<1>1. /\ RowInv /\ RowStep /\ UNCHANGED <<transfer, dispatch, verdict, committed, strayed>>
      /\ stock'.source + stock'.destination - adjusted'.source - adjusted'.destination
           = stock.source + stock.destination - adjusted.source - adjusted.destination
  BY InvTypes, AdjustmentStepped
<1>2. /\ stock.source \in Int /\ stock.destination \in Int
      /\ adjusted.source \in Int /\ adjusted.destination \in Int
      /\ stock'.source \in Int /\ stock'.destination \in Int
      /\ adjusted'.source \in Int /\ adjusted'.destination \in Int
      /\ Departed \in Nat /\ Arrived \in Nat /\ InitialStock \in Nat
  BY <1>1, InvTypes, SumTypes DEF RowStep, RowInv, TypeOK
<1>3. Departed' = Departed /\ Arrived' = Arrived /\ Reserved' = Reserved
  BY <1>1 DEF Departed, Arrived, Moving, Reserved, Existing, Controlled
<1>4. GoodsInv'
  <2>1. stock.source + stock.destination + Departed - Arrived
          = InitialStock + adjusted.source + adjusted.destination
    BY InvTypes DEF GoodsInv
  <2>2. stock'.source + stock'.destination + Departed - Arrived
          = InitialStock + adjusted'.source + adjusted'.destination
    BY <1>1, <1>2, <2>1
  <2>. QED
    BY <1>3, <2>2 DEF GoodsInv
<1>5. CommittedIsReserved'
  BY <1>1, <1>3, InvTypes DEF CommittedIsReserved
<1>6. ASSUME NEW t \in Transfer PROVE Fits(t)' /\ Settled(t)'
  BY <1>1, InvTypes DEF Fits, Settled, ClaimedOf, Claimed
<1>. QED
  BY <1>4, <1>5, <1>6 DEF Books

\* Reading what is to be cancelled, and doing nothing.
LEMMA StillBooks ==
    ASSUME Inv, UNCHANGED <<transfer, dispatch, stock, committed, verdict, adjusted, strayed>>
    PROVE  Books'
<1>1. Departed' = Departed /\ Arrived' = Arrived /\ Reserved' = Reserved
  BY DEF Departed, Arrived, Moving, Reserved, Existing, Controlled
<1>2. GoodsInv' /\ CommittedIsReserved'
  BY <1>1, InvTypes DEF GoodsInv, CommittedIsReserved
<1>3. ASSUME NEW t \in Transfer PROVE Fits(t)' /\ Settled(t)'
  BY InvTypes DEF Fits, Settled, ClaimedOf, Claimed
<1>. QED
  BY <1>2, <1>3 DEF Books

\* A cancellation gives back what its reservations hold, and what it cancels fits.
LEMMA CancellationBooks ==
    ASSUME Inv, CancelCommit, NEW t, t = cancelling.t
    PROVE  Books'
<1>. DEFINE C == cancelling.closing
            R == {d \in C : dispatch[d].line = "active" /\ Controlled(d)}
<1>1. /\ RowStep /\ RowInv
      /\ UNCHANGED <<verdict, stock, adjusted, strayed>>
      /\ committed' = Uncommit(Sum(dispatch, R, "quantity"))
      /\ t \in Transfer /\ C \subseteq OfTransfer(dispatch, t) /\ C \subseteq Dispatch
      /\ transfer'[t].cancelled = CancelledQuantity(t, dispatch')
      /\ transfer'[t].quantity = transfer[t].quantity
      /\ transfer'[t].status = Refreshed(transfer'[t], dispatch', t)
      /\ \A u \in Transfer \ {t} : transfer'[u] = transfer[u]
  <2>1. RowInv /\ UNCHANGED <<verdict, stock, adjusted, strayed>>
    BY InvTypes DEF CancelCommit, fiscal, books
  <2>2. committed' = Uncommit(Sum(dispatch, R, "quantity"))
    BY DEF CancelCommit, ReleasedQuantity
  <2>. QED
    BY <2>1, <2>2, CancellationWritten DEF OfTransfer
<1>2. /\ \A d \in C : /\ dispatch'[d].line = IF dispatch[d].line = "active" THEN "released"
                                             ELSE dispatch[d].line
                      /\ dispatch'[d].of = t /\ dispatch[d].of = t
                      /\ dispatch'[d].status # "none" /\ dispatch[d].status # "none"
                      /\ dispatch'[d].quantity = dispatch[d].quantity
                      /\ dispatch'[d].departed = dispatch[d].departed
                      /\ dispatch'[d].received = dispatch[d].received
      /\ \A d \in Dispatch \ C : dispatch'[d] = dispatch[d]
  BY <1>1, CancellationWritten DEF OfTransfer
<1>3. /\ dispatch \in [Dispatch -> DispatchRow] /\ dispatch' \in [Dispatch -> DispatchRow]
      /\ transfer[t].quantity \in Nat
      /\ Moving \in SUBSET Dispatch /\ Standing \in SUBSET Dispatch
      /\ Departed \in Nat /\ Arrived \in Nat /\ Reserved \in Nat
      /\ committed \in Nat
  BY <1>1, InvTypes, SumTypes, TypeParts DEF RowInv, RowStep, RowsFollow
<1>. HIDE DEF C
<1>4. ASSUME NEW d \in Dispatch
      PROVE  /\ dispatch'[d]["quantity"] = dispatch[d]["quantity"]
             /\ dispatch'[d]["departed"] = dispatch[d]["departed"]
             /\ dispatch'[d]["received"] = dispatch[d]["received"]
             /\ dispatch'[d].of = dispatch[d].of
             /\ dispatch'[d].status # "none" <=> dispatch[d].status # "none"
             /\ \/ dispatch'[d].line = dispatch[d].line
                \/ dispatch[d].line = "active" /\ dispatch'[d].line = "released" /\ d \in C
             /\ d \in C /\ dispatch[d].line = "active" => dispatch'[d].line = "released"
  BY <1>2
<1>5. ASSUME NEW d \in Dispatch, dispatch[d].status # "none"
      PROVE  Controlled(d)' = Controlled(d)
  <2>1. dispatch[d].of \in Transfer /\ OfTransfer(dispatch, dispatch[d].of) # {}
    BY <1>1, <1>5, OrderOf
  <2>2. transfer'[dispatch[d].of].controlled = transfer[dispatch[d].of].controlled
    BY <1>1, <2>1 DEF RowStep, RowsFollow
  <2>. QED
    BY <1>4, <2>2 DEF Controlled
<1>6. GoodsInv'
  <2>1. Moving' = Moving
    BY <1>4, <1>5 DEF Moving, Existing
  <2>2. /\ Sum(dispatch', Moving, "departed") = Sum(dispatch, Moving, "departed")
        /\ Sum(dispatch', Moving, "received") = Sum(dispatch, Moving, "received")
    BY <1>3, <1>4, SumSameRows
  <2>3. Departed' = Departed /\ Arrived' = Arrived
    BY <2>1, <2>2 DEF Departed, Arrived
  <2>. QED
    BY <1>1, <2>3, InvTypes DEF GoodsInv
<1>7. CommittedIsReserved'
  <2>1. R \in SUBSET Standing
    BY <1>1, <1>2 DEF Standing, Existing, Reserving
  <2>2. Standing' = Standing \ R
    BY <1>4, <1>5 DEF Standing, Existing, Reserving
  <2>3. /\ Reserved = Sum(dispatch, Standing, "quantity")
        /\ Reserved' = Sum(dispatch', Standing', "quantity")
    BY DEF Reserved, Standing
  <2>. DEFINE r == Sum(dispatch, R, "quantity")
  <2>. HIDE DEF R
  <2>4. Standing \ R \in SUBSET Dispatch
    BY <1>3
  <2>5. Sum(dispatch', Standing \ R, "quantity") = Sum(dispatch, Standing \ R, "quantity")
    BY <1>4, <2>4, SumSameRows
  <2>6. /\ Reserved = r + Sum(dispatch, Standing \ R, "quantity")
        /\ r \in Nat /\ Sum(dispatch, Standing \ R, "quantity") \in Nat
    BY <1>3, <2>1, <2>3, SumParts
  <2>7. committed' = Uncommit(r)
    BY <1>1 DEF R
  <2>. HIDE DEF r
  <2>8. Reserved' = Reserved - r /\ r <= Reserved
    BY <2>2, <2>3, <2>5, <2>6
  <2>9. CommittedIsReserved
    BY InvTypes
  <2>. QED
    BY <1>1, <1>3, <2>6, <2>7, <2>8, <2>9, UncommitFits DEF CommittedIsReserved
<1>8. Fits(t)'
  <2>. DEFINE K == Claimed(t)
              L == Claimed(t)'
              A == Assigned(dispatch', t)
  <2>1. /\ K \in SUBSET Dispatch /\ L \in SUBSET K /\ L \in SUBSET Dispatch
        /\ A \in SUBSET L
    BY <1>1, <1>4 DEF Claimed, Assigned, OfTransfer, ACTIVE_ALLOCATION_STATES
  <2>2. /\ ClaimedOf(t) = Sum(dispatch, K, "quantity")
        /\ ClaimedOf(t)' = Sum(dispatch', L, "quantity")
        /\ Allocated(dispatch', t) = Sum(dispatch', A, "quantity")
    BY DEF ClaimedOf, Allocated, Assigned
  <2>. HIDE DEF K, L, A
  <2>3. Sum(dispatch, L, "quantity") <= Sum(dispatch, K, "quantity")
    BY <1>3, <2>1, SumParts
  <2>4. Sum(dispatch', L, "quantity") = Sum(dispatch, L, "quantity")
    BY <1>4, <2>1, SumSameRows
  <2>5. Sum(dispatch', A, "quantity") \in Nat
        /\ Sum(dispatch', A, "quantity") <= Sum(dispatch', L, "quantity")
    BY <1>3, <2>1, SumParts
  <2>6. Sum(dispatch', L, "quantity") \in Nat /\ Sum(dispatch, K, "quantity") \in Nat
    BY <1>3, <2>1, SumIsNat
  <2>7. ClaimedOf(t) <= transfer[t].quantity
    BY <1>1, InvTypes DEF Fits
  <2>8. transfer'[t].cancelled = IF transfer[t].quantity - Allocated(dispatch', t) > 0
                                 THEN transfer[t].quantity - Allocated(dispatch', t) ELSE 0
    BY <1>1 DEF CancelledQuantity
  <2>9. /\ ClaimedOf(t)' \in Nat /\ Allocated(dispatch', t) \in Nat
        /\ Allocated(dispatch', t) <= ClaimedOf(t)' /\ ClaimedOf(t)' <= transfer[t].quantity
    BY <1>3, <2>2, <2>3, <2>4, <2>5, <2>6, <2>7
  <2>. QED
    BY <1>1, <1>3, <2>8, <2>9 DEF Fits
<1>9. Settled(t)'
  BY <1>1, <1>8, RefreshedSettled
<1>10. ASSUME NEW u \in Transfer, u # t PROVE Fits(u)' /\ Settled(u)'
  <2>1. \A d \in Dispatch : d \in OfTransfer(dispatch, u) \/ d \in OfTransfer(dispatch', u)
                                => dispatch'[d] = dispatch[d]
    BY <1>2, <1>4, <1>10 DEF OfTransfer
  <2>2. /\ OfTransfer(dispatch', u) = OfTransfer(dispatch, u)
        /\ Claimed(u)' = Claimed(u)
        /\ Assigned(dispatch', u) = Assigned(dispatch, u)
    BY <1>1, <2>1 DEF Claimed, Assigned, OfTransfer
  <2>3. Claimed(u) \in SUBSET Dispatch /\ Assigned(dispatch, u) \in SUBSET Dispatch
    BY DEF Claimed, Assigned, OfTransfer
  <2>4. /\ Sum(dispatch', Claimed(u), "quantity") = Sum(dispatch, Claimed(u), "quantity")
        /\ Sum(dispatch', Assigned(dispatch, u), "quantity")
             = Sum(dispatch, Assigned(dispatch, u), "quantity")
    BY <1>4, <2>3, SumSameRows
  <2>5. ClaimedOf(u)' = ClaimedOf(u)
    BY <2>2, <2>4 DEF ClaimedOf
  <2>6. Allocated(dispatch', u) = Allocated(dispatch, u)
    BY <2>2, <2>4 DEF Allocated, Assigned
  <2>7. Fits(u) /\ Settled(u) /\ transfer'[u] = transfer[u] /\ strayed' = strayed
    BY <1>1, <1>10, InvTypes
  <2>8. \A d \in OfTransfer(dispatch', u) : d \in OfTransfer(dispatch, u)
                                            /\ dispatch'[d] = dispatch[d]
    BY <2>1, <2>2 DEF OfTransfer
  <2>. QED
    BY <2>5, <2>6, <2>7, <2>8 DEF Fits, Settled
<1>. QED
  BY <1>1, <1>6, <1>7, <1>8, <1>9, <1>10 DEF Books

-----------------------------------------------------------------------------
(* Theorems *)

LEMMA InvInit == Init => Inv
<1>. SUFFICES ASSUME Init PROVE Inv
  OBVIOUS
<1>1. RowInv
  BY RowInit
<1>2. /\ Existing = {} /\ \A t \in Transfer : OfTransfer(dispatch, t) = {}
  BY DEF Init, Existing, OfTransfer
<1>3. Moving = {} /\ Standing = {}
  BY <1>2 DEF Moving, Standing
<1>4. Departed = 0 /\ Arrived = 0 /\ Reserved = 0
  <2>1. Reserved = Sum(dispatch, Standing, "quantity")
    BY <1>1, SumTypes
  <2>. QED
    BY <1>3, <2>1, SumNothing DEF Departed, Arrived
<1>5. GoodsInv
  BY <1>4, QuantityAssumption DEF GoodsInv, Init
<1>6. CommittedIsReserved
  BY <1>4 DEF CommittedIsReserved, Init
<1>7. ASSUME NEW t \in Transfer PROVE Fits(t) /\ Settled(t)
  <2>1. Claimed(t) = {} /\ Assigned(dispatch, t) = {}
    BY <1>2 DEF Claimed, Assigned
  <2>2. ClaimedOf(t) = 0
    BY <2>1, SumNothing DEF ClaimedOf
  <2>3. Allocated(dispatch, t) = 0
    BY <2>1, SumNothing DEF Allocated, Assigned
  <2>4. transfer[t].quantity = 0 /\ transfer[t].cancelled = 0
    BY DEF Init
  <2>. QED
    BY <1>2, <2>2, <2>3, <2>4 DEF Fits, Settled
<1>. QED
  BY <1>1, <1>5, <1>6, <1>7 DEF Inv

LEMMA InvNext ==
    ASSUME Inv, [Next]_vars PROVE Inv' /\ RowStep
<1>1. RowStep
  BY RowNext DEF Inv
<1>2. ASSUME Orders PROVE Books'
  <2>1. ASSUME NEW t \in Transfer, CancelRead(t) PROVE Books'
    BY <2>1, StillBooks DEF CancelRead, fiscal, books
  <2>. QED
    BY <1>2, <2>1, OrderBooks, CreationBooks, CancellationBooks DEF Orders
<1>3. ASSUME Guides PROVE Books'
  <2>1. PICK d \in Dispatch : JobStep(d) \/ PaperStep(d) \/ AnswerStep(d)
    BY <1>3 DEF Guides, JobStep, PaperStep, AnswerStep
  <2>. QED
    BY <2>1, JobBooks, PaperBooks, AnswerBooks
<1>4. ASSUME Goods PROVE Books'
  BY <1>4, DepartureBooks, ReceiptBooks, AdjustmentBooks DEF Goods
<1>5. ASSUME UNCHANGED vars PROVE Books'
  BY <1>5, StillBooks DEF vars
<1>6. Books'
  BY <1>2, <1>3, <1>4, <1>5 DEF Next
<1>. QED
  BY <1>1, <1>6 DEF Inv, Books, RowStep

LEMMA InvHolds == Spec => []Inv
<1>1. Inv /\ [Next]_vars => Inv'
  BY InvNext
<1>. QED
  BY <1>1, InvInit, PTL DEF Spec

\* What is stored is what the columns are for; above all, releasing a reservation
\* twice never takes what is committed below nothing.
THEOREM TypeCorrect == Spec => []TypeOK
<1>1. Inv => TypeOK
  BY DEF Inv, RowInv
<1>. QED
  BY <1>1, InvHolds, PTL

\* Goods are neither made nor lost on the way, whatever their guides go through.
THEOREM GoodsConservedHolds == Spec => []GoodsConserved
<1>1. Inv => GoodsConserved
  <2>. SUFFICES ASSUME Inv PROVE GoodsConserved
    OBVIOUS
  <2>1. stock.source + stock.destination + Departed - Arrived =
            InitialStock + adjusted.source + adjusted.destination
    BY InvTypes DEF GoodsInv
  <2>2. ASSUME NEW d \in Existing PROVE dispatch[d].received <= dispatch[d].departed
    <3>1. dispatch[d] \in DispatchRow /\ SoundRow(dispatch[d])
      BY TypeParts DEF Inv, RowInv, Existing
    <3>. QED
      BY <3>1 DEF DispatchRow, SoundRow
  <2>3. /\ Departed \in Nat /\ Arrived \in Nat
        /\ stock.source \in Int /\ stock.destination \in Int
    BY InvTypes, SumTypes
  <2>4. stock.source + stock.destination + (Departed - Arrived) =
            InitialStock + adjusted.source + adjusted.destination
    BY <2>1, <2>3
  <2>. QED
    BY <2>2, <2>4 DEF GoodsConserved, Departed, Arrived, Moving
<1>. QED
  BY <1>1, InvHolds, PTL

\* Stock is committed for reservations that stand and for nothing else, although a
\* rejection, a departure and a cancellation may each release the same reservation.
THEOREM CommittedIsReservedHolds == Spec => []CommittedIsReserved
<1>1. Inv => CommittedIsReserved
  BY DEF Inv
<1>. QED
  BY <1>1, InvHolds, PTL

\* No more goods leave for a transfer than it asks for, even if they leave without a
\* reservation, and a completed transfer has nothing reserved or on its way.
THEOREM NeverSendsMoreHolds == Spec => []NeverSendsMore
<1>1. Inv => NeverSendsMore
  <2>. SUFFICES ASSUME Inv PROVE NeverSendsMore
    OBVIOUS
  <2>1. ASSUME NEW t \in Transfer
        PROVE  Sum(dispatch, OfTransfer(dispatch, t), "departed") <= transfer[t].quantity
    <3>. DEFINE O == OfTransfer(dispatch, t)
                C == Claimed(t)
    <3>1. /\ C \in SUBSET O /\ O \in SUBSET Dispatch /\ C \in SUBSET Dispatch
          /\ dispatch \in [Dispatch -> DispatchRow] /\ transfer[t].quantity \in Nat
      BY InvTypes, SumTypes, TypeParts DEF RowInv
    <3>2. \A d \in O \ C : dispatch[d]["departed"] = 0
      BY <3>1 DEF Inv, RowInv, SoundRow, Claimed
    <3>3. \A d \in C : dispatch[d]["departed"] <= dispatch[d]["quantity"]
      BY <3>1 DEF Inv, RowInv, SoundRow, DispatchRow
    <3>4. ClaimedOf(t) = Sum(dispatch, C, "quantity") /\ ClaimedOf(t) <= transfer[t].quantity
      BY InvTypes DEF Fits, ClaimedOf
    <3>. HIDE DEF O, C
    <3>5. Sum(dispatch, O \ C, "departed") = 0
      BY <3>1, <3>2, SumNothing
    <3>6. /\ Sum(dispatch, O, "departed")
               = Sum(dispatch, C, "departed") + Sum(dispatch, O \ C, "departed")
          /\ Sum(dispatch, C, "departed") \in Nat
      BY <3>1, SumParts
    <3>7. Sum(dispatch, C, "departed") <= Sum(dispatch, C, "quantity")
      BY <3>1, <3>3, SumFieldLeq
    <3>8. Sum(dispatch, C, "quantity") \in Nat
      BY <3>1, SumIsNat
    <3>9. Sum(dispatch, O, "departed") <= transfer[t].quantity
      BY <3>1, <3>4, <3>5, <3>6, <3>7, <3>8
    <3>. QED
      BY <3>9 DEF O
  <2>. QED
    BY <2>1, InvTypes DEF NeverSendsMore, Fits, Settled
<1>. QED
  BY <1>1, InvHolds, PTL

\* A late answer about the guide, a rejection after the departure or a
\* cancellation never turns goods on their way back into a reservation, and
\* what was received is never taken back.
THEOREM DepartureStandsHolds == Spec => DepartureStands
<1>. DEFINE Stands == \A d \in Dispatch : dispatch[d].left =>
                         /\ dispatch'[d].line \in {"departed", "received"}
                         /\ dispatch'[d].departed = dispatch[d].departed
                         /\ dispatch'[d].received >= dispatch[d].received
<1>1. Inv /\ [Next]_vars => Inv' /\ [Stands]_vars
  <2>. SUFFICES ASSUME Inv, [Next]_vars PROVE Inv' /\ Stands
    OBVIOUS
  <2>1. Inv' /\ RowStep
    BY InvNext
  <2>2. Stands
    BY <2>1 DEF RowStep, RowsFollow, Follows, SoundRow
  <2>. QED
    BY <2>1, <2>2
<1>. QED
  BY <1>1, InvInit, PTL DEF Spec, DepartureStands

=============================================================================
