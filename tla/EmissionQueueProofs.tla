------------------------- MODULE EmissionQueueProofs -------------------------
(***************************************************************************)
(* Theorems about EmissionQueue for every set of jobs, workers, requests,  *)
(* tenants and tokens, every mix of document kinds and every limit: types, *)
(* that the lease fences its writers, and that no sale and no cancellation *)
(* is submitted twice.                                                     *)
(***************************************************************************)
EXTENDS EmissionQueue, TLAPS

-----------------------------------------------------------------------------
(* Types *)

VerdictType == [status : Status, action : Action, class : Class]

\* Closing a row gives a row.
LEMMA ClosedType ==
    ASSUME NEW row \in Row, NEW v \in VerdictType
    PROVE  Closed(row, v) \in Row
<1>1. AddClass(row.history, v.class) \in History
  BY DEF Row, VerdictType, AddClass, History, Class
<1>. QED
  BY <1>1 DEF Closed, Row, VerdictType

\* The contract maps snapshots to snapshots.
LEMMA SnapshotType ==
    /\ PlainSnapshot \in Snapshot /\ initial_state \in Snapshot
    /\ prepare_snapshot \in Snapshot
    /\ \A s \in Snapshot : /\ mark_possible(s) \in Snapshot
                           /\ mark_not_submitted(s) \in Snapshot
                           /\ uncertain(s) \in Snapshot
BY DEF PlainSnapshot, initial_state, prepare_snapshot, Snapshot, Phase, VERSION,
       BatchEvidence, mark_possible, mark_not_submitted, uncertain

LEMMA EmitActionType ==
    ASSUME NEW j \in Job PROVE EmitAction(j) \in Action
BY ConstantsAssumption DEF EmitAction, Action, Kinds, Sale

\* New and legacy rows are rows.
LEMMA NewRowType ==
    ASSUME NEW j \in Job, NEW s \in Status, NEW x \in Snapshot
    PROVE  NewRow(j, s, x) \in Row
BY EmitActionType, ConstantsAssumption DEF NewRow, Row, History

LEMMA InitialSnapshotType ==
    ASSUME NEW j \in Job PROVE InitialSnapshot(j) \in Snapshot
BY SnapshotType DEF InitialSnapshot

LEMMA LegacyRowType ==
    ASSUME NEW j \in Job PROVE LegacyRow(j) \subseteq Row
<1>. SUFFICES ASSUME NEW old \in [status : {"queued", "retry", "pending_confirmation"},
                                  retrySigned : BOOLEAN, history : {"none", "doubt"}]
              PROVE  [NewRow(j, old.status,
                             [PlainSnapshot EXCEPT !.retrySigned = old.retrySigned])
                        EXCEPT !.history = old.history] \in Row
  BY DEF LegacyRow
<1>1. [PlainSnapshot EXCEPT !.retrySigned = old.retrySigned] \in Snapshot
  BY SnapshotType DEF Snapshot
<1>2. NewRow(j, old.status, [PlainSnapshot EXCEPT !.retrySigned = old.retrySigned]) \in Row
  BY <1>1, NewRowType DEF Status
<1>. QED
  BY <1>2 DEF Row, History

LEMMA TypeInit == Init => TypeOK
<1>. SUFFICES ASSUME Init PROVE TypeOK
  OBVIOUS
<1>1. job \in [Job -> Row]
  <2>1. \A j \in Job : job[j] \in Row
    BY NewRowType, InitialSnapshotType, LegacyRowType DEF Init, FirstRow, Status
  <2>. QED
    BY <2>1 DEF Init
<1>2. document \in [Job -> Document]
  BY DEF Init, Document, DocumentState, Other
<1>3. provider \in [Job -> Provider]
  BY DEF Init, Provider, Fate
<1>4. execution \in [Worker -> Execution]
  BY DEF Init, Idle, Execution, PC, Outcome
<1>5. request \in [Client -> Request] /\ contingency \in [Tenant -> BOOLEAN]
  BY DEF Init, NoRequest, Request
<1>. QED
  BY <1>1, <1>2, <1>3, <1>4, <1>5 DEF TypeOK

LEMMA StopType ==
    ASSUME TypeOK, NEW w \in Worker, Stop(w)
    PROVE  execution' \in [Worker -> Execution]
BY DEF TypeOK, Stop, Idle, Execution, PC, Outcome

LEMMA GotoType ==
    ASSUME TypeOK, NEW w \in Worker, NEW pc \in PC, Goto(w, pc)
    PROVE  execution' \in [Worker -> Execution]
BY DEF TypeOK, Goto, Execution

LEMMA AnsweredType ==
    ASSUME TypeOK, NEW w \in Worker, NEW o \in Outcome, Answered(w, o)
    PROVE  execution' \in [Worker -> Execution]
BY DEF TypeOK, Answered, Execution, PC

LEMMA CloseType ==
    ASSUME TypeOK, NEW w \in Worker, NEW j \in Job, NEW v \in VerdictType,
           Close(w, j, v)
    PROVE  TypeOK'
<1>1. job' \in [Job -> Row]
  BY ClosedType DEF TypeOK, Close
<1>. QED
  BY <1>1, StopType DEF TypeOK, Close

\* Rewriting one row keeps the table well typed.
LEMMA JobType ==
    ASSUME TypeOK, NEW j \in Job, NEW row \in Row, job' = [job EXCEPT ![j] = row]
    PROVE  job' \in [Job -> Row]
BY DEF TypeOK

LEMMA SnapshotWriteType ==
    ASSUME TypeOK, NEW j \in Job, NEW x \in Snapshot,
           job' = [job EXCEPT ![j].snapshot = x]
    PROVE  job' \in [Job -> Row]
BY DEF TypeOK, Row

\* What a worker may conclude is a verdict.
LEMMA VerdictsType ==
    ASSUME TypeOK, NEW w \in Worker, NEW j \in Job, NEW v \in Verdicts(w, j)
    PROVE  v \in VerdictType
<1>. DEFINE row == job[j]
            o   == execution[w].outcome
<1>1. row \in Row /\ row.action \in Action /\ o \in Outcome
  BY DEF TypeOK, Row, Execution
<1>2. \A s \in Status, a \in Action, c \in Class : Verdict(s, a, c) \in VerdictType
  BY DEF Verdict, VerdictType
<1>3. \A c \in Class : ByClass(row, c) \in VerdictType
  BY <1>1 DEF ByClass, Verdict, VerdictType, Status
<1>4. Classify(o) \in Class /\ Rejections(row) \subseteq VerdictType
  BY <1>3 DEF Rejections, Classify, Class
<1>5. Succeeded(row) \in VerdictType
  BY <1>1 DEF Succeeded, Verdict, VerdictType, Status, Class
<1>6. CASE Kind[j] \in Sale
  <2>1. v \in SaleVerdicts(row, document[j], o, Kind[j])
    BY <1>6 DEF Verdicts, Sale
  <2>2. \A c \in Class : Reconcile(c) \in VerdictType
    BY <1>2 DEF Reconcile, Status, Action
  <2>3. SignVerdicts(row, o) \subseteq VerdictType
    BY <1>1, <1>2, <1>3, <1>4 DEF SignVerdicts, Status, Class
  <2>4. /\ Verdict("failed", row.action, "terminal") \in VerdictType
        /\ Verdict("retry", row.action, "transient") \in VerdictType
    BY <1>1, <1>2 DEF Status, Class
  <2>5. document[j].state \in DocumentState
    BY DEF TypeOK, Document
  <2>. HIDE DEF row, o
  <2>. QED
    BY <2>1, <2>2, <2>3, <2>4, <2>5, <1>3, <1>4, <1>5
    DEF SaleVerdicts, DocumentState, Class
<1>7. CASE Kind[j] = "note"
  <2>1. v \in NoteVerdicts(row, document[j], o)
    BY <1>7 DEF Verdicts, Sale
  <2>2. Verdict("failed", row.action, "validation") \in VerdictType
    BY <1>1, <1>2 DEF Status, Class
  <2>. HIDE DEF row, o
  <2>. QED
    BY <2>1, <2>2, <1>3, <1>4, <1>5 DEF NoteVerdicts
<1>8. CASE Kind[j] = "guide"
  BY <1>8, <1>1, <1>2, <1>3, <1>4, <1>5 DEF Verdicts, GuideVerdicts, Sale, Class
<1>9. CASE Kind[j] = "void"
  BY <1>9, <1>1, <1>2, <1>3, <1>4, <1>5 DEF Verdicts, VoidVerdicts, Sale, Status, Class
<1>. QED
  BY <1>6, <1>7, <1>8, <1>9, ConstantsAssumption DEF Kinds, Sale

LEMMA RequestsType ==
    ASSUME TypeOK, NEW c \in Client,
           Abandon(c) \/ \E j \in Job : Enqueue(c, j)
    PROVE  TypeOK'
<1>1. ASSUME Abandon(c) PROVE TypeOK'
  BY <1>1 DEF Abandon, TypeOK, NoRequest, Request
<1>2. ASSUME NEW j \in Job, Read(c, j) PROVE TypeOK'
  <2>1. /\ job[j].status \in {"absent", "failed"}
        /\ InitialStatus(j) \in {"queued", "contingency_pending"}
    BY <1>2 DEF Read, InitialStatus
  <2>2. request' \in [Client -> Request]
    BY <1>2, <2>1 DEF Read, TypeOK, Request
  <2>. QED
    BY <1>2, <2>2 DEF Read, TypeOK
<1>3. ASSUME NEW j \in Job, Create(c, j) PROVE TypeOK'
  <2>1. request[c].target \in Status
    BY DEF TypeOK, Request, Status
  <2>2. [job[j] EXCEPT !.status = request[c].target] \in Row
    BY <2>1 DEF TypeOK, Row
  <2>3. request' \in [Client -> Request]
    BY <1>3 DEF Create, TypeOK, NoRequest, Request
  <2>. QED
    BY <1>3, <2>2, <2>3, JobType DEF Create, TypeOK
<1>4. ASSUME NEW j \in Job, Requeue(c, j) PROVE TypeOK'
  <2>1. request[c].target \in Status
    BY DEF TypeOK, Request, Status
  <2>2. 1 \in 0..MaxAttempts
    BY ConstantsAssumption
  <2>3. [job[j] EXCEPT !.status = request[c].target,
                       !.left = IF Kind[j] \in Sale /\ @ = 0 THEN 1 ELSE @] \in Row
    BY <2>1, <2>2 DEF TypeOK, Row
  <2>4. request' \in [Client -> Request]
    BY <1>4 DEF Requeue, TypeOK, NoRequest, Request
  <2>. QED
    BY <1>4, <2>3, <2>4, JobType DEF Requeue, TypeOK
<1>5. ASSUME NEW j \in Job, Load(c, j) \/ Number(c, j) \/ LookUp(c, j) PROVE TypeOK'
  <2>. InitialStatus(j) \in {"queued", "contingency_pending"}
    BY DEF InitialStatus
  <2>1. request' \in [Client -> Request]
    BY <1>5 DEF Load, Number, LookUp, TypeOK, Request
  <2>2. document' \in [Job -> Document]
    BY <1>5 DEF Load, Number, LookUp, TypeOK, Document, DocumentState, Other
  <2>. QED
    BY <1>5, <2>1, <2>2 DEF Load, Number, LookUp, TypeOK
<1>6. ASSUME NEW j \in Job, Reopen(c, j) PROVE TypeOK'
  <2>1. [job[j] EXCEPT !.status = request[c].target] \in Row
    BY DEF TypeOK, Request, Row, Status
  <2>2. request' \in [Client -> Request]
    BY <1>6 DEF Reopen, TypeOK, NoRequest, Request
  <2>3. document' \in [Job -> Document]
    <3>1. \A x \in Other : [document[j] EXCEPT !.other = x] \in Document
      BY DEF TypeOK, Document
    <3>. QED
      BY <1>6, <3>1 DEF Reopen, TypeOK, Other
  <2>. QED
    BY <1>6, <2>1, <2>2, <2>3, JobType DEF Reopen, TypeOK
<1>. QED
  BY <1>1, <1>2, <1>3, <1>4, <1>5, <1>6 DEF Enqueue, NumberNote

LEMMA ContingencyType ==
    ASSUME TypeOK, NEW t \in Tenant,
           EnableContingency(t) \/ DisableContingency(t)
    PROVE  TypeOK'
<1>1. /\ contingency' \in [Tenant -> BOOLEAN]
      /\ UNCHANGED <<document, provider, execution, request>>
  BY DEF TypeOK, EnableContingency, DisableContingency
<1>2. \A j \in Job, s \in {"contingency_pending", "queued"} :
         [job[j] EXCEPT !.status = s] \in Row
  BY DEF TypeOK, Row, Status
<1>3. job' \in [Job -> Row]
  BY <1>2 DEF TypeOK, EnableContingency, DisableContingency
<1>. QED
  BY <1>1, <1>3 DEF TypeOK

\* An answer keeps the document a document.
LEMMA ResultIsDocument ==
    ASSUME NEW d \in Document, NEW o \in Outcome, NEW k \in Kinds
    PROVE  Result(d, o, k) \in Document /\ Accepted(d) \in Document
<1>1. Accepted(d) \in Document
  <2>. DEFINE n == IF d.applied = 2 THEN 2 ELSE d.applied + 1
  <2>1. n \in 0..2
    BY DEF Document
  <2>2. Accepted(d) = [d EXCEPT !.state = "accepted", !.applied = n]
    BY DEF Accepted, Document
  <2>. HIDE DEF n
  <2>. QED
    BY <2>1, <2>2 DEF Document, DocumentState
<1>2. \A x \in DocumentState : [d EXCEPT !.state = x] \in Document
  BY DEF Document
<1>. QED
  BY <1>1, <1>2
  DEF Result, SaleResult, NoteResult, GuideResult, DocumentState, Kinds, Sale

LEMMA LeaseType ==
    ASSUME TypeOK, NEW j \in Job,
           Expire(j) \/ Maintain(j) \/ ProviderDecides(j) \/ ConsultGuide(j)
    PROVE  TypeOK'
<1>1. CASE Expire(j)
  BY <1>1 DEF Expire, TypeOK, Row
<1>2. CASE RecoverExpired(j)
  <2>1. RecoveredStatus(job[j], Kind[j]) \in Status
    BY DEF RecoveredStatus, Status
  <2>2. RecoveredAction(job[j], Kind[j]) \in Action
    BY DEF RecoveredAction, Action, TypeOK, Row
  <2>3. \A h \in History, c \in Class : AddClass(h, c) \in History
    BY DEF AddClass, History, Class
  <2>. DEFINE status == RecoveredStatus(job[j], Kind[j])
              action == RecoveredAction(job[j], Kind[j])
              class  == IF status = "pending_confirmation"
                           \/ action = "consult_fiscal_document"
                        THEN "ambiguous" ELSE "transient"
  <2>4. class \in Class
    BY DEF Class
  <2>5. PICK h \in History :
          job' = [job EXCEPT ![j] = [job[j] EXCEPT !.status = status, !.action = action,
                                                   !.history = h]]
    BY <1>2, <2>3, <2>4 DEF RecoverExpired, TypeOK, Row
  <2>6. [job[j] EXCEPT !.status = status, !.action = action, !.history = h] \in Row
    BY <2>1, <2>2 DEF TypeOK, Row
  <2>. QED
    BY <1>2, <2>5, <2>6, JobType DEF RecoverExpired, TypeOK
<1>3. CASE ReconcilePending(j)
  <2>. DEFINE a == IF Kind[j] = "invoice" /\ can_submit(job[j].snapshot)
                   THEN job[j].action ELSE "consult_fiscal_document"
  <2>1. [job[j] EXCEPT !.status = "retry", !.action = a] \in Row
    BY DEF TypeOK, Row, Status, Action
  <2>. QED
    BY <1>3, <2>1, JobType DEF ReconcilePending, TypeOK
<1>4. CASE ProviderDecides(j)
  BY <1>4 DEF ProviderDecides, TypeOK, Provider, Fate
<1>5. CASE ConsultGuide(j)
  <2>1. PICK o \in Outcome :
           document' = [document EXCEPT
                          ![j] = [GuideResult(document[j], o) EXCEPT !.other = "consultation"]]
    BY <1>5 DEF ConsultGuide, Outcome, TypeOK
  <2>2. Kind[j] = "guide"
    BY <1>5 DEF ConsultGuide
  <2>3. GuideResult(document[j], o) \in Document
    <3>1. Result(document[j], o, "guide") = GuideResult(document[j], o)
      BY DEF Result, Sale
    <3>. QED
      BY <3>1, ResultIsDocument DEF TypeOK, Kinds
  <2>4. [GuideResult(document[j], o) EXCEPT !.other = "consultation"] \in Document
    BY <2>3 DEF Document, Other
  <2>. QED
    BY <1>5, <2>1, <2>4 DEF ConsultGuide, TypeOK
<1>. QED
  BY <1>1, <1>2, <1>3, <1>4, <1>5 DEF Maintain

LEMMA ClaimType ==
    ASSUME TypeOK, NEW w \in Worker, NEW j \in Job, NEW t \in Token, Claim(w, j, t)
    PROVE  TypeOK'
<1>1. [job[j] EXCEPT !.status = "processing", !.token = t,
                     !.live = TRUE, !.started = FALSE] \in Row
  BY DEF TypeOK, Row, Status
<1>2. job' \in [Job -> Row]
  BY <1>1 DEF Claim, TypeOK
<1>3. execution' \in [Worker -> Execution]
  BY DEF TypeOK, Claim, Execution, PC, Outcome
<1>. QED
  BY <1>2, <1>3 DEF TypeOK, Claim

\* The steps of an execution that only close its job.
LEMMA ClosingType ==
    ASSUME TypeOK, NEW w \in Worker, NEW j \in Job,
           \/ ContextFails(w, j) \/ ProviderPauses(w, j) \/ HoldSigned(w, j)
           \/ VoidApplyFails(w, j) \/ Finish(w, j)
    PROVE  TypeOK'
<1>1. job[j].action \in Action
  BY DEF TypeOK, Row
<1>2. \A s \in Status, c \in Class : Verdict(s, job[j].action, c) \in VerdictType
  BY <1>1 DEF Verdict, VerdictType
<1>3. CASE ContextFails(w, j)
  BY <1>3, <1>2, CloseType DEF ContextFails, Status, Class
<1>4. CASE ProviderPauses(w, j) \/ HoldSigned(w, j)
  BY <1>4, <1>2, CloseType DEF ProviderPauses, HoldSigned, Status, Class
<1>5. CASE VoidApplyFails(w, j)
  BY <1>5, <1>2, CloseType DEF VoidApplyFails, Status, Class
<1>6. CASE Finish(w, j)
  BY <1>6, VerdictsType, CloseType DEF Finish
<1>. QED
  BY <1>3, <1>4, <1>5, <1>6

\* The steps up to the provider's answer.
LEMMA SendingType ==
    ASSUME TypeOK, NEW w \in Worker, NEW j \in Job,
           \/ StartAttempt(w, j) \/ TransitionUncertain(w, j)
           \/ Sign(w, j) \/ SignDone(w, j) \/ SignFails(w, j)
           \/ Clear(w, j) \/ BeginSend(w, j) \/ BeginConsult(w, j)
           \/ ResumeVoid(w, j) \/ Post(w, j) \/ NotPosted(w, j) \/ Answer(w, j)
    PROVE  TypeOK'
<1>1. CASE StartAttempt(w, j)
  <2>. DEFINE n == IF job[j].left = 0 THEN 0 ELSE job[j].left - 1
  <2>1. n \in 0..MaxAttempts
    <3>1. job[j].left \in 0..MaxAttempts /\ MaxAttempts \in Nat
      BY ConstantsAssumption DEF TypeOK, Row
    <3>. QED
      BY <3>1
  <2>2. job' \in [Job -> Row]
    <3>1. job' = [job EXCEPT ![j] = [job[j] EXCEPT !.started = TRUE, !.left = n]]
      BY <1>1 DEF StartAttempt, TypeOK
    <3>. HIDE DEF n
    <3>2. [job[j] EXCEPT !.started = TRUE, !.left = n] \in Row
      BY <2>1 DEF TypeOK, Row
    <3>. QED
      BY <3>1, <3>2 DEF TypeOK
  <2>3. execution' \in [Worker -> Execution]
    BY <1>1, GotoType DEF StartAttempt, PC
  <2>. QED
    BY <1>1, <2>2, <2>3 DEF StartAttempt, TypeOK
<1>2. CASE TransitionUncertain(w, j)
  BY <1>2, SnapshotType DEF TransitionUncertain, TypeOK, Row, Action
<1>3. CASE Sign(w, j) \/ Clear(w, j) \/ BeginConsult(w, j) \/ ResumeVoid(w, j)
  BY <1>3, GotoType DEF Sign, Clear, BeginConsult, ResumeVoid, TypeOK, PC
<1>4. CASE SignDone(w, j)
  BY <1>4, GotoType DEF SignDone, TypeOK, Document, PC
<1>5. CASE SignFails(w, j) \/ NotPosted(w, j)
  BY <1>5, AnsweredType DEF SignFails, NotPosted, TypeOK, Outcome
<1>6. CASE Answer(w, j)
  <2>1. Answers(j) \subseteq Outcome
    BY DEF Answers, Outcome
  <2>. QED
    BY <1>6, <2>1, AnsweredType DEF Answer, TypeOK
<1>7. CASE BeginSend(w, j)
  <2>1. Marked(job[j].snapshot, Kind[j]) \in Snapshot
    <3>. job[j].snapshot \in Snapshot
      BY DEF TypeOK, Row
    <3>. QED
      BY SnapshotType, ConstantsAssumption DEF Marked, Snapshot, Kinds
  <2>. QED
    BY <1>7, <2>1, SnapshotWriteType, GotoType DEF BeginSend, TypeOK, PC
<1>8. CASE Post(w, j)
  <2>. DEFINE n == IF provider[j].posts = 2 THEN 2 ELSE provider[j].posts + 1
  <2>1. PICK f \in Fate :
          provider' = [provider EXCEPT ![j] = [provider[j] EXCEPT !.posts = n, !.fate = f]]
    BY <1>8 DEF Post, TypeOK, Provider
  <2>2. n \in 0..2
    <3>1. provider[j].posts \in 0..2
      BY DEF TypeOK, Provider
    <3>. QED
      BY <3>1
  <2>. HIDE DEF n
  <2>3. provider' \in [Job -> Provider]
    BY <2>1, <2>2 DEF TypeOK, Provider
  <2>4. execution' \in [Worker -> Execution]
    BY <1>8, GotoType DEF Post, PC
  <2>. QED
    BY <1>8, <2>3, <2>4 DEF Post, TypeOK
<1>. QED
  BY <1>1, <1>2, <1>3, <1>4, <1>5, <1>6, <1>7, <1>8

\* The steps that write the result.
LEMMA ResultType ==
    ASSUME TypeOK, NEW w \in Worker, NEW j \in Job,
           \/ StoreResult(w, j) \/ WithdrawSend(w, j) \/ ApplyVoid(w, j)
           \/ LoseLease(w, j)
    PROVE  TypeOK'
<1>3. CASE StoreResult(w, j)
  <2>. DEFINE o == execution[w].outcome
  <2>1. o \in Outcome /\ job[j].snapshot \in Snapshot
    BY DEF TypeOK, Execution, Row
  <2>2. Evidence(job[j].snapshot, o, Kind[j]) \in Snapshot
    BY <2>1 DEF Evidence, Snapshot, BatchEvidence
  <2>3. job' \in [Job -> Row]
    BY <1>3, <2>2, SnapshotWriteType DEF StoreResult, TypeOK
  <2>4. document' \in [Job -> Document]
    BY <1>3, <2>1, ResultIsDocument, ConstantsAssumption DEF StoreResult, TypeOK
  <2>5. execution' \in [Worker -> Execution]
    BY <1>3, GotoType DEF StoreResult, PC
  <2>. QED
    BY <1>3, <2>3, <2>4, <2>5 DEF StoreResult, TypeOK
<1>4. CASE WithdrawSend(w, j)
  <2>1. mark_not_submitted(job[j].snapshot) \in Snapshot
    BY SnapshotType DEF TypeOK, Row
  <2>2. job' \in [Job -> Row]
    BY <1>4, <2>1, SnapshotWriteType DEF WithdrawSend, TypeOK
  <2>3. execution' \in [Worker -> Execution]
    BY <1>4, GotoType DEF WithdrawSend, PC
  <2>. QED
    BY <1>4, <2>2, <2>3 DEF WithdrawSend, TypeOK
<1>5. CASE ApplyVoid(w, j)
  <2>1. Accepted(document[j]) \in Document
    BY ResultIsDocument, ConstantsAssumption DEF TypeOK, Outcome
  <2>2. document' = [document EXCEPT ![j] = Accepted(document[j])]
    BY <1>5 DEF ApplyVoid
  <2>. QED
    BY <1>5, <2>1, <2>2 DEF ApplyVoid, TypeOK
<1>6. CASE LoseLease(w, j)
  BY <1>6, StopType DEF LoseLease, TypeOK
<1>. QED
  BY <1>3, <1>4, <1>5, <1>6

\* The shape of the state is kept by every step.
LEMMA TypeNext == TypeOK /\ [Next]_vars => TypeOK'
<1>. SUFFICES ASSUME TypeOK, [Next]_vars PROVE TypeOK'
  OBVIOUS
<1>1. CASE \E c \in Client : Abandon(c) \/ \E j \in Job : Enqueue(c, j)
  BY <1>1, RequestsType
<1>2. CASE \E t \in Tenant : EnableContingency(t) \/ DisableContingency(t)
  BY <1>2, ContingencyType
<1>3. CASE \E w \in Worker : Crash(w)
  BY <1>3, StopType DEF Crash, TypeOK
<1>4. CASE \E w \in Worker, j \in Job : Work(w, j)
  BY <1>4, SendingType, ClosingType, ResultType DEF Work
<1>5. CASE \E w \in Worker, j \in Job, t \in Token : Claim(w, j, t)
  BY <1>5, ClaimType
<1>6. CASE \E j \in Job : Expire(j) \/ Maintain(j) \/ ProviderDecides(j) \/ ConsultGuide(j)
  BY <1>6, LeaseType
<1>7. CASE UNCHANGED vars
  BY <1>7 DEF vars, TypeOK
<1>. QED
  BY <1>1, <1>2, <1>3, <1>4, <1>5, <1>6, <1>7 DEF Next

\* The tables keep their shape: statuses, actions, attempts left (never
\* negative), snapshots and executions stay in the sets the code draws from.
THEOREM TypeCorrect == Spec => []TypeOK
BY TypeInit, TypeNext, PTL DEF Spec

-----------------------------------------------------------------------------
(* What a step of an execution touches: its own row and its own thread *)

OwnThread(w, j) ==
    /\ execution[w].job = j
    /\ execution' \in [Worker -> Execution]
    /\ \A v \in Worker \ {w} : execution'[v] = execution[v]
    /\ \/ execution'[w] = Idle
       \/ /\ execution'[w].job = j
          /\ execution'[w].token = execution[w].token

OwnRow(j) ==
    \A k \in Job \ {j} : job'[k] = job[k] /\ provider'[k] = provider[k]

LEMMA ThreadShapes ==
    ASSUME TypeOK, NEW w \in Worker, NEW j \in Job, execution[w].job = j
    PROVE  /\ Stop(w) => OwnThread(w, j)
           /\ \A pc \in PC : Goto(w, pc) => OwnThread(w, j)
           /\ \A o \in Outcome : Answered(w, o) => OwnThread(w, j)
           /\ execution' = execution => OwnThread(w, j)
<1>1. ASSUME Stop(w) PROVE OwnThread(w, j)
  BY <1>1, StopType DEF OwnThread, Stop, TypeOK
<1>2. ASSUME NEW pc \in PC, Goto(w, pc) PROVE OwnThread(w, j)
  BY <1>2, GotoType DEF OwnThread, Goto, TypeOK, Execution
<1>3. ASSUME NEW o \in Outcome, Answered(w, o) PROVE OwnThread(w, j)
  BY <1>3, AnsweredType DEF OwnThread, Answered, TypeOK, Execution
<1>4. ASSUME execution' = execution PROVE OwnThread(w, j)
  BY <1>4 DEF OwnThread, TypeOK
<1>. QED
  BY <1>1, <1>2, <1>3, <1>4

LEMMA CloseFrame ==
    ASSUME TypeOK, NEW w \in Worker, NEW j \in Job, NEW v,
           execution[w].job = j, Close(w, j, v)
    PROVE  /\ OwnThread(w, j) /\ OwnRow(j)
           /\ UNCHANGED <<document, provider, request, contingency>>
<1>1. Stop(w) /\ UNCHANGED <<document, provider, request, contingency>>
  BY DEF Close
<1>2. OwnRow(j)
  BY DEF Close, OwnRow, TypeOK
<1>. QED
  BY <1>1, <1>2, ThreadShapes

LEMMA WorkFrame ==
    ASSUME TypeOK, NEW w \in Worker, NEW j \in Job, Work(w, j)
    PROVE  OwnThread(w, j) /\ OwnRow(j) /\ UNCHANGED <<request, contingency>>
<1>1. CASE \/ ContextFails(w, j) \/ ProviderPauses(w, j) \/ HoldSigned(w, j)
           \/ VoidApplyFails(w, j) \/ Finish(w, j)
  <2>1. execution[w].job = j /\ \E v : Close(w, j, v)
    BY <1>1 DEF ContextFails, ProviderPauses, HoldSigned, VoidApplyFails, Finish,
                MayEmit, Ready, At
  <2>. QED
    BY <2>1, CloseFrame
<1>2. CASE \/ TransitionUncertain(w, j) \/ ApplyVoid(w, j)
  <2>1. execution[w].job = j /\ execution' = execution
    BY <1>2 DEF TransitionUncertain, ApplyVoid, At
  <2>. QED
    BY <1>2, <2>1, ThreadShapes DEF TransitionUncertain, ApplyVoid, OwnRow, TypeOK
<1>3. CASE LoseLease(w, j)
  BY <1>3, ThreadShapes DEF LoseLease, OwnRow
<1>4. CASE \/ StartAttempt(w, j) \/ Sign(w, j) \/ SignDone(w, j) \/ Clear(w, j)
           \/ BeginSend(w, j) \/ BeginConsult(w, j) \/ ResumeVoid(w, j)
           \/ Post(w, j) \/ StoreResult(w, j) \/ WithdrawSend(w, j)
  <2>1. execution[w].job = j /\ \E pc \in PC : Goto(w, pc)
    BY <1>4 DEF StartAttempt, Sign, SignDone, Clear, BeginSend, BeginConsult,
                ResumeVoid, Post, StoreResult, WithdrawSend, MayEmit, Ready, At, PC
  <2>2. OwnRow(j) /\ UNCHANGED <<request, contingency>>
    BY <1>4 DEF StartAttempt, Sign, SignDone, Clear, BeginSend, BeginConsult,
                ResumeVoid, Post, StoreResult, WithdrawSend, OwnRow, TypeOK
  <2>. QED
    BY <2>1, <2>2, ThreadShapes
<1>5. CASE SignFails(w, j) \/ NotPosted(w, j) \/ Answer(w, j)
  <2>1. Answers(j) \subseteq Outcome
    BY DEF Answers, Outcome
  <2>2. execution[w].job = j /\ \E o \in Outcome : Answered(w, o)
    BY <1>5, <2>1 DEF SignFails, NotPosted, Answer, At, Outcome
  <2>3. OwnRow(j) /\ UNCHANGED <<request, contingency>>
    BY <1>5 DEF SignFails, NotPosted, Answer, OwnRow
  <2>. QED
    BY <2>2, <2>3, ThreadShapes
<1>. QED
  BY <1>1, <1>2, <1>3, <1>4, <1>5 DEF Work

\* A request that numbers a note touches no call, no snapshot and no other job,
\* and never passes for a retry that holds the lock.
LEMMA NumberFrame ==
    ASSUME TypeOK, NEW c \in Client, NEW k \in Job, NumberNote(c, k)
    PROVE  /\ Kind[k] = "note"
           /\ UNCHANGED <<provider, execution, contingency>>
           /\ \A j \in Job \ {k} : job'[j] = job[j] /\ document'[j] = document[j]
           /\ job'[k] = job[k] \/ Reopen(c, k)
           /\ job'[k].snapshot = job[k].snapshot
           /\ \A d \in Client \ {c} : request'[d] = request[d]
           /\ request'[c] = NoRequest \/ (request'[c].job = k /\ request'[c].found # "failed")
<1>1. Kind[k] = "note"
  BY DEF NumberNote
<1>2. CASE Load(c, k)
  BY <1>1, <1>2 DEF Load, TypeOK
<1>3. CASE Number(c, k)
  BY <1>1, <1>3 DEF Number, TypeOK, Request
<1>4. CASE LookUp(c, k)
  BY <1>1, <1>4 DEF LookUp, TypeOK, Request
<1>5. CASE Reopen(c, k)
  BY <1>1, <1>5 DEF Reopen, TypeOK, Row
<1>. QED
  BY <1>2, <1>3, <1>4, <1>5 DEF NumberNote

-----------------------------------------------------------------------------
(* Leases *)

\* Every thread that holds a reservation has a token that is no other's.
TokensDiffer ==
    /\ \A w \in Worker : execution[w].job \in Job => execution[w].token \in Token
    /\ \A v, w \in Worker :
         v # w /\ execution[v].token \in Token => execution[v].token # execution[w].token

LEMMA TokensInit == Init => TokensDiffer
BY ConstantsAssumption DEF Init, TokensDiffer, Idle

LEMMA TokensNext == TypeOK /\ TokensDiffer /\ [Next]_vars => TokensDiffer'
<1>. SUFFICES ASSUME TypeOK, TokensDiffer, [Next]_vars PROVE TokensDiffer'
  OBVIOUS
<1>1. ASSUME UNCHANGED execution PROVE TokensDiffer'
  BY <1>1 DEF TokensDiffer
<1>2. CASE \E c \in Client : Abandon(c) \/ \E j \in Job : Enqueue(c, j)
  BY <1>1, <1>2, NumberFrame DEF Abandon, Enqueue, Read, Create, Requeue
<1>3. CASE \E t \in Tenant : EnableContingency(t) \/ DisableContingency(t)
  BY <1>1, <1>3 DEF EnableContingency, DisableContingency
<1>4. ASSUME NEW w \in Worker, Crash(w) PROVE TokensDiffer'
  BY <1>4, ConstantsAssumption DEF Crash, Stop, TokensDiffer, Idle, TypeOK
<1>5. ASSUME NEW w \in Worker, NEW j \in Job, Work(w, j) PROVE TokensDiffer'
  <2>1. OwnThread(w, j)
    BY <1>5, WorkFrame
  <2>. QED
    BY <2>1, ConstantsAssumption DEF OwnThread, TokensDiffer, Idle
<1>6. ASSUME NEW w \in Worker, NEW j \in Job, NEW t \in Token, Claim(w, j, t)
      PROVE  TokensDiffer'
  <2>1. /\ execution'[w].token = t
        /\ \A v \in Worker \ {w} : execution'[v] = execution[v] /\ execution[v].token # t
    BY <1>6 DEF Claim, Fresh, TypeOK
  <2>. QED
    BY <2>1 DEF TokensDiffer
<1>7. CASE \E j \in Job : Expire(j) \/ Maintain(j) \/ ProviderDecides(j) \/ ConsultGuide(j)
  BY <1>1, <1>7 DEF Expire, Maintain, RecoverExpired, ReconcilePending, ProviderDecides,
     ConsultGuide
<1>8. CASE UNCHANGED vars
  BY <1>1, <1>8 DEF vars
<1>. QED
  BY <1>2, <1>3, <1>4, <1>5, <1>6, <1>7, <1>8 DEF Next

LEMMA TokensFence == TokensDiffer => OneOwner
BY ConstantsAssumption DEF TokensDiffer, OneOwner, Owns

\* The lease fences its writers: whatever expired, crashed or was reserved
\* again, at most one of the threads that work on a job passes
\* emission_leases.check.
THEOREM OneOwnerHolds == Spec => []OneOwner
<1>1. Init => TypeOK /\ TokensDiffer
  BY TypeInit, TokensInit
<1>2. (TypeOK /\ TokensDiffer) /\ [Next]_vars => (TypeOK /\ TokensDiffer)'
  BY TypeNext, TokensNext
<1>. QED
  BY <1>1, <1>2, TokensFence, PTL DEF Spec

-----------------------------------------------------------------------------
(* Invoices and cancellations: the submission permit *)

IsOpen(j) == Open(job[j].snapshot, Kind[j])

\* The inductive invariant.  A thread that may submit excludes another one and
\* finds the document unsent; a document that left is never open again.
FenceOf(j) ==
    /\ \A w \in Worker : Holds(w, j) => ~IsOpen(j) /\ provider[j].posts = 0
    /\ \A v, w \in Worker : Holds(v, j) /\ Holds(w, j) => v = w
    /\ provider[j].posts > 0 => ~IsOpen(j)
    /\ provider[j].posts <= 1

FenceInv == \A j \in Fenced : FenceOf(j)

\* Every other step neither opens a document, nor sends it, nor makes a thread
\* one that may send it.
Quiet(j) ==
    /\ provider'[j].posts = provider[j].posts
    /\ IsOpen(j)' <=> IsOpen(j)
    /\ \A w \in Worker : Holds(w, j)' => Holds(w, j)

LEMMA QuietFence ==
    ASSUME NEW j \in Fenced, FenceOf(j), Quiet(j)
    PROVE  FenceOf(j)'
BY DEF FenceOf, Quiet

LEMMA FenceInit == Init => FenceInv
<1>. SUFFICES ASSUME Init, NEW j \in Fenced PROVE FenceOf(j)
  BY DEF FenceInv
<1>1. j \in Job /\ \A w \in Worker : ~Holds(w, j)
  BY DEF Init, Holds, At, Idle, Fenced
<1>2. CASE job[j].status # "absent"
  <2>1. job[j] \in LegacyRow(j) /\ provider[j].posts = 1
    BY <1>1, <1>2 DEF Init, FirstRow, NewRow
  <2>2. job[j].snapshot.version = 0
    BY <2>1, <1>1, SnapshotType DEF LegacyRow, NewRow, PlainSnapshot
  <2>3. ~IsOpen(j)
    BY <2>2 DEF IsOpen, Open, can_submit, VERSION, Fenced
  <2>. QED
    BY <1>1, <2>1, <2>3 DEF FenceOf
<1>3. CASE job[j].status = "absent"
  <2>1. provider[j].posts = 0
    BY <1>1, <1>3 DEF Init
  <2>. QED
    BY <1>1, <2>1 DEF FenceOf
<1>. QED
  BY <1>2, <1>3

\* A step of another job, of a request or of the coordinator.
LEMMA OtherQuiet ==
    ASSUME TypeOK, NEW j \in Job, NEW k \in Job, NEW w \in Worker, Work(w, k), k # j
    PROVE  Quiet(j)
<1>1. OwnThread(w, k) /\ job'[j] = job[j] /\ provider'[j] = provider[j]
  BY WorkFrame DEF OwnRow
<1>2. ASSUME NEW v \in Worker PROVE Holds(v, j)' => Holds(v, j)
  BY <1>1 DEF OwnThread, Holds, At, Idle
<1>. QED
  BY <1>1, <1>2 DEF Quiet, IsOpen

LEMMA CoordinatorQuiet ==
    ASSUME TypeOK, NEW j \in Job,
           \/ \E c \in Client : Abandon(c) \/ \E k \in Job : Enqueue(c, k)
           \/ \E t \in Tenant : EnableContingency(t) \/ DisableContingency(t)
           \/ \E k \in Job : Expire(k) \/ Maintain(k) \/ ProviderDecides(k) \/ ConsultGuide(k)
           \/ UNCHANGED vars
    PROVE  Quiet(j) /\ job'[j].snapshot = job[j].snapshot /\ execution' = execution
<1>1. execution' = execution
  BY NumberFrame
  DEF Abandon, Enqueue, Read, Create, Requeue, EnableContingency,
      DisableContingency, Expire, Maintain, RecoverExpired, ReconcilePending,
      ProviderDecides, ConsultGuide, vars
<1>2. provider'[j].posts = provider[j].posts
  <2>1. CASE \E k \in Job : ProviderDecides(k)
    BY <2>1 DEF ProviderDecides, TypeOK, Provider
  <2>2. CASE ~ \E k \in Job : ProviderDecides(k)
    BY <2>2, NumberFrame
    DEF Abandon, Enqueue, Read, Create, Requeue, EnableContingency, DisableContingency,
        Expire, Maintain, RecoverExpired, ReconcilePending, ConsultGuide, vars
  <2>. QED
    BY <2>1, <2>2
<1>3. job'[j].snapshot = job[j].snapshot
  <2>. USE DEF TypeOK, Row
  <2>1. CASE \E c \in Client : Abandon(c) \/ \E k \in Job : Enqueue(c, k)
    <3>1. ASSUME NEW c \in Client, NEW k \in Job, Create(c, k)
          PROVE  job'[j].snapshot = job[j].snapshot
      BY <3>1 DEF Create
    <3>2. ASSUME NEW c \in Client, NEW k \in Job, Requeue(c, k)
          PROVE  job'[j].snapshot = job[j].snapshot
      <4>1. CASE k = j
        BY <3>2, <4>1 DEF Requeue
      <4>2. CASE k # j
        BY <3>2, <4>2 DEF Requeue
      <4>. QED
        BY <4>1, <4>2
    <3>3. CASE \E c \in Client : Abandon(c) \/ \E k \in Job : Read(c, k)
      BY <3>3 DEF Abandon, Read
    <3>. QED
      BY <2>1, <3>1, <3>2, <3>3, NumberFrame DEF Enqueue
  <2>2. CASE \E t \in Tenant : EnableContingency(t) \/ DisableContingency(t)
    BY <2>2 DEF EnableContingency, DisableContingency
  <2>3. CASE \E k \in Job : \/ Expire(k) \/ ProviderDecides(k) \/ ReconcilePending(k)
                           \/ ConsultGuide(k)
    BY <2>3 DEF Expire, ReconcilePending, ProviderDecides, ConsultGuide
  <2>4. CASE \E k \in Job : RecoverExpired(k)
    BY <2>4 DEF RecoverExpired
  <2>5. CASE UNCHANGED vars
    BY <2>5 DEF vars
  <2>. QED
    BY <2>1, <2>2, <2>3, <2>4, <2>5 DEF Maintain
<1>. QED
  BY <1>1, <1>2, <1>3 DEF Quiet, IsOpen, Holds, At

\* What the marks do to a document that must not leave twice.
LEMMA Marks ==
    ASSUME NEW j \in Fenced, NEW s \in Snapshot
    PROVE  /\ ~Open(Marked(s, Kind[j]), Kind[j])
           /\ ~can_submit(s) => ~can_submit(uncertain(s))
           /\ \A o : Open(Evidence(s, o, Kind[j]), Kind[j]) <=> Open(s, Kind[j])
<1>1. CASE Kind[j] = "invoice"
  BY <1>1 DEF Open, Marked, mark_possible, can_submit, uncertain, Evidence, Snapshot
<1>2. CASE Kind[j] = "void"
  BY <1>2 DEF Open, Marked, can_submit, uncertain, Evidence, Snapshot
<1>. QED
  BY <1>1, <1>2 DEF Fenced

\* Closing a job keeps its snapshot and ends the thread.
LEMMA CloseQuiet ==
    ASSUME TypeOK, NEW w \in Worker, NEW j \in Job, NEW v, Close(w, j, v)
    PROVE  Quiet(j)
<1>1. job'[j].snapshot = job[j].snapshot
  BY DEF Close, Closed, TypeOK, Row
<1>2. \A u \in Worker : Holds(u, j)' => Holds(u, j)
  BY DEF Close, Stop, Holds, At, Idle, TypeOK
<1>. QED
  BY <1>1, <1>2 DEF Quiet, IsOpen, Close

\* The steps of a job that neither take, spend nor give back its permit.
LEMMA WorkQuiet ==
    ASSUME TypeOK, NEW w \in Worker, NEW j \in Fenced, Work(w, j),
           ~BeginSend(w, j), ~Post(w, j), ~WithdrawSend(w, j)
    PROVE  Quiet(j)
<1>. j \in Job /\ Kind[j] \in {"invoice", "void"} /\ job[j].snapshot \in Snapshot
  BY DEF Fenced, TypeOK, Row
<1>1. CASE \/ ContextFails(w, j) \/ ProviderPauses(w, j) \/ HoldSigned(w, j)
           \/ VoidApplyFails(w, j) \/ Finish(w, j)
  <2>1. \E v : Close(w, j, v)
    BY <1>1 DEF ContextFails, ProviderPauses, HoldSigned, VoidApplyFails, Finish
  <2>. QED
    BY <2>1, CloseQuiet
<1>2. CASE TransitionUncertain(w, j)
  <2>1. ~can_submit(job[j].snapshot) /\ Kind[j] = "invoice"
    BY <1>2 DEF TransitionUncertain, MustConsult
  <2>2. job'[j].snapshot = uncertain(job[j].snapshot)
    BY <1>2 DEF TransitionUncertain, TypeOK, Row
  <2>3. ~IsOpen(j)' /\ ~IsOpen(j)
    BY <2>1, <2>2, Marks DEF IsOpen, Open
  <2>. QED
    BY <1>2, <2>3 DEF TransitionUncertain, Quiet, Holds, At
<1>3. CASE StoreResult(w, j)
  <2>1. job'[j].snapshot = Evidence(job[j].snapshot, execution[w].outcome, Kind[j])
    BY <1>3 DEF StoreResult, TypeOK, Row
  <2>2. IsOpen(j)' <=> IsOpen(j)
    BY <2>1, Marks DEF IsOpen
  <2>3. \A u \in Worker : Holds(u, j)' => Holds(u, j)
    BY <1>3 DEF StoreResult, Goto, Holds, At, TypeOK, Execution
  <2>. QED
    BY <1>3, <2>2, <2>3 DEF Quiet, StoreResult
<1>4. CASE \/ StartAttempt(w, j) \/ Sign(w, j) \/ SignDone(w, j) \/ Clear(w, j)
           \/ BeginConsult(w, j) \/ ResumeVoid(w, j) \/ ApplyVoid(w, j) \/ LoseLease(w, j)
  <2>1. job'[j].snapshot = job[j].snapshot /\ provider' = provider
    BY <1>4 DEF StartAttempt, Sign, SignDone, Clear, BeginConsult, ResumeVoid,
                ApplyVoid, LoseLease, TypeOK, Row
  <2>2. \A u \in Worker : Holds(u, j)' => Holds(u, j)
    BY <1>4 DEF StartAttempt, Sign, SignDone, Clear, BeginConsult, ResumeVoid,
                ApplyVoid, LoseLease, Goto, Stop, Idle, Holds, At, TypeOK, Execution
  <2>. QED
    BY <2>1, <2>2 DEF Quiet, IsOpen
<1>5. CASE SignFails(w, j) \/ Answer(w, j) \/ NotPosted(w, j)
  <2>1. UNCHANGED <<job, provider>>
    BY <1>5 DEF SignFails, Answer, NotPosted
  <2>2. \A u \in Worker \ {w} : execution'[u] = execution[u]
    BY <1>5, WorkFrame DEF OwnThread
  <2>3. CASE NotPosted(w, j)
    BY <2>1, <2>2, <2>3 DEF NotPosted, Quiet, IsOpen, Holds, At
  <2>4. CASE SignFails(w, j) \/ Answer(w, j)
    <3>1. "not_submitted" \notin Answers(j) /\ Answers(j) \subseteq Outcome
      BY DEF Answers, TypeOK, Provider, Fate, Outcome
    <3>2. \E o \in Outcome : o # "not_submitted" /\ Answered(w, o)
      BY <2>4, <3>1 DEF SignFails, Answer, Outcome
    <3>3. ~Holds(w, j)'
      BY <3>2 DEF Answered, Holds, At, TypeOK, Execution
    <3>. QED
      BY <2>1, <2>2, <3>3 DEF Quiet, IsOpen, Holds, At
  <2>. QED
    BY <1>5, <2>3, <2>4
<1>. QED
  BY <1>1, <1>2, <1>3, <1>4, <1>5 DEF Work

LEMMA FenceWork ==
    ASSUME TypeOK, NEW w \in Worker, NEW j \in Fenced, FenceOf(j), Work(w, j)
    PROVE  FenceOf(j)'
<1>. j \in Job /\ job[j].snapshot \in Snapshot
  BY DEF Fenced, TypeOK, Row
<1>0. \A u \in Worker \ {w} : Holds(u, j)' <=> Holds(u, j)
  BY WorkFrame DEF OwnThread, Holds, At
<1>1. CASE BeginSend(w, j)
  <2>1. IsOpen(j) /\ provider' = provider
    BY <1>1 DEF BeginSend, IsOpen
  <2>2. job'[j].snapshot = Marked(job[j].snapshot, Kind[j])
    BY <1>1 DEF BeginSend, TypeOK, Row
  <2>3. ~IsOpen(j)'
    BY <2>2, Marks DEF IsOpen
  <2>. QED
    BY <1>0, <2>1, <2>3 DEF FenceOf, TypeOK, Provider
<1>2. CASE Post(w, j)
  <2>1. Holds(w, j) /\ provider[j].posts = 0 /\ IsOpen(j)' = IsOpen(j)
    BY <1>2 DEF Post, Holds, FenceOf, IsOpen
  <2>2. provider'[j].posts = 1
    BY <1>2, <2>1 DEF Post, TypeOK, Provider
  <2>3. ~Holds(w, j)'
    BY <1>2 DEF Post, Goto, Holds, At, TypeOK, Execution
  <2>. QED
    BY <1>0, <2>1, <2>2, <2>3 DEF FenceOf
<1>3. CASE WithdrawSend(w, j)
  <2>1. Holds(w, j) /\ provider' = provider
    BY <1>3 DEF WithdrawSend, Holds
  <2>2. ~Holds(w, j)'
    BY <1>3 DEF WithdrawSend, Goto, Holds, At, TypeOK, Execution
  <2>. QED
    BY <1>0, <2>1, <2>2 DEF FenceOf
<1>. QED
  BY <1>1, <1>2, <1>3, WorkQuiet, QuietFence

LEMMA FenceNext == TypeOK /\ FenceInv /\ [Next]_vars => FenceInv'
<1>. SUFFICES ASSUME TypeOK, FenceInv, [Next]_vars, NEW j \in Fenced
              PROVE  FenceOf(j)'
  BY DEF FenceInv, Fenced
<1>. FenceOf(j) /\ j \in Job
  BY DEF FenceInv, Fenced
<1>1. ASSUME NEW w \in Worker, NEW k \in Job, Work(w, k) PROVE FenceOf(j)'
  BY <1>1, FenceWork, OtherQuiet, QuietFence
<1>2. ASSUME NEW w \in Worker, Crash(w) PROVE FenceOf(j)'
  <2>1. Quiet(j)
    BY <1>2 DEF Crash, Stop, Idle, Quiet, IsOpen, Holds, At, TypeOK
  <2>. QED
    BY <2>1, QuietFence
<1>3. ASSUME NEW w \in Worker, NEW k \in Job, NEW t \in Token, Claim(w, k, t)
      PROVE  FenceOf(j)'
  <2>1. job'[j].snapshot = job[j].snapshot /\ provider' = provider
    BY <1>3 DEF Claim, TypeOK, Row
  <2>2. \A u \in Worker : Holds(u, j)' => Holds(u, j)
    BY <1>3 DEF Claim, Holds, At, TypeOK
  <2>3. Quiet(j)
    BY <2>1, <2>2 DEF Quiet, IsOpen
  <2>. QED
    BY <2>3, QuietFence
<1>. QED
  BY <1>1, <1>2, <1>3, CoordinatorQuiet, QuietFence DEF Next

LEMMA FenceHolds == Spec => [](TypeOK /\ FenceInv)
BY TypeInit, TypeNext, FenceInit, FenceNext, PTL DEF Spec

\* The durable mark precedes the call: an invoice that may have left is never
\* again one that the contract allows to submit.
THEOREM MarkedBeforeSendHolds == Spec => []MarkedBeforeSend
<1>1. TypeOK /\ FenceInv => MarkedBeforeSend
  BY DEF TypeOK, FenceInv, FenceOf, Fenced, MarkedBeforeSend, Holds, IsOpen, Open
<1>. QED
  BY <1>1, FenceHolds, PTL

-----------------------------------------------------------------------------
(* Boletas: no mark precedes the call, so the job row itself must exclude a *)
(* second emission once the execution that may have submitted is over.      *)

Boletas == {j \in Job : Kind[j] = "boleta"}

Calling == {"sending", "posted", "answered", "stored"}

\* The boleta may have left, or is about to.
Exposed(j) == provider[j].posts > 0 \/ \E w \in Worker : At(w, j, "sending")

\* The row of an exposed boleta: its execution is past the call, it is a
\* consultation, or it ended in a way that no retry accepts.
Guarded(j) ==
    \/ job[j].action = "consult_fiscal_document"
    \/ /\ job[j].status = "processing" /\ job[j].started
       /\ \A w \in Worker :
            execution[w].job = j /\ execution[w].token = job[j].token
            => execution[w].pc \in Calling
    \/ job[j].status = "failed" /\ job[j].history \in {"terminal", "doubt"}
    \/ job[j].status = "succeeded"

\* A retry that was admitted finds the job as it left it.
RetryOf(j) ==
    /\ \A c \in Client :
         request[c].job = j /\ request[c].found = "failed"
         => job[j].status = "failed" /\ job[j].history = "validation"
    /\ \A c, d \in Client :
         /\ request[c].job = j /\ request[c].found = "failed"
         /\ request[d].job = j /\ request[d].found = "failed"
         => c = d

\* The attempt of an owner is open.
StartedOf(j) ==
    \A w \in Worker :
        execution[w].job = j /\ Owns(w, j) /\ execution[w].pc # "claimed"
        => job[j].started

BoletaOf(j) ==
    /\ RetryOf(j) /\ StartedOf(j)
    /\ Exposed(j) => Guarded(j)
    /\ \A w \in Worker : At(w, j, "sending") => provider[j].posts = 0
    /\ \A v, w \in Worker : At(v, j, "sending") /\ At(w, j, "sending") => v = w
    /\ provider[j].posts <= 1

BoletaInv == \A j \in Boletas : BoletaOf(j)

LEMMA BoletaInit == Init => BoletaInv
<1>. SUFFICES ASSUME Init, NEW j \in Boletas PROVE BoletaOf(j)
  BY DEF BoletaInv
<1>1. j \in Job /\ j \notin Legacy
  BY ConstantsAssumption DEF Boletas
<1>2. provider[j].posts = 0
  BY <1>1 DEF Init, FirstRow, NewRow
<1>3. \A w \in Worker : execution[w].job # j /\ execution[w].pc = "idle"
  BY <1>1, ConstantsAssumption DEF Init, Idle
<1>4. \A c \in Client : request[c].job # j
  BY <1>1, ConstantsAssumption DEF Init, NoRequest
<1>. QED
  BY <1>2, <1>3, <1>4 DEF BoletaOf, RetryOf, StartedOf, Exposed, At

\* Nothing about the job or its requests changes; threads of it may end.
Away(j) ==
    /\ job'[j] = job[j] /\ provider'[j].posts = provider[j].posts
    /\ \A c \in Client : request'[c] = request[c] \/ request'[c] = NoRequest
    /\ \A w \in Worker :
         \/ execution'[w] = execution[w]
         \/ execution'[w].job # j

LEMMA AwayKeeps ==
    ASSUME NEW j \in Boletas, BoletaOf(j), Away(j)
    PROVE  BoletaOf(j)'
<1>. j \in Job
  BY DEF Boletas
<1>1. RetryOf(j)'
  BY ConstantsAssumption DEF Away, BoletaOf, RetryOf, NoRequest
<1>2. StartedOf(j)'
  BY DEF Away, BoletaOf, StartedOf, Owns
<1>3. \A w \in Worker : At(w, j, "sending")' => At(w, j, "sending")
  BY DEF Away, At
<1>4. Exposed(j)' => Exposed(j)
  BY <1>3 DEF Away, Exposed
<1>5. Guarded(j) => Guarded(j)'
  BY DEF Away, Guarded
<1>. QED
  BY <1>1, <1>2, <1>3, <1>4, <1>5 DEF Away, BoletaOf

LEMMA CrashKeeps ==
    ASSUME TypeOK, NEW j \in Boletas, BoletaOf(j), NEW w \in Worker, Crash(w)
    PROVE  BoletaOf(j)'
<1>1. Away(j)
  BY ConstantsAssumption DEF Boletas, Crash, Stop, Idle, Away, TypeOK
<1>. QED
  BY <1>1, AwayKeeps

LEMMA OtherKeeps ==
    ASSUME TypeOK, NEW j \in Boletas, BoletaOf(j), NEW w \in Worker, NEW k \in Job,
           Work(w, k), k # j
    PROVE  BoletaOf(j)'
<1>1. OwnThread(w, k) /\ OwnRow(k) /\ request' = request
  BY WorkFrame
<1>2. Away(j)
  BY <1>1, ConstantsAssumption DEF Boletas, OwnThread, OwnRow, Idle, Away
<1>. QED
  BY <1>2, AwayKeeps

LEMMA ClaimKeeps ==
    ASSUME TypeOK, TokensDiffer, NEW j \in Boletas, BoletaOf(j), NEW w \in Worker,
           NEW k \in Job, NEW t \in Token, Claim(w, k, t)
    PROVE  BoletaOf(j)'
<1>1. CASE k # j
  <2>1. Away(j)
    BY <1>1 DEF Boletas, Claim, Away, TypeOK, Execution
  <2>. QED
    BY <2>1, AwayKeeps
<1>2. CASE k = j
  <2>. j \in Job /\ request' = request /\ provider' = provider
    BY <1>2 DEF Claim
  <2>1. /\ job[j].status \in {"queued", "retry"} /\ job'[j].status = "processing"
        /\ job'[j].action = job[j].action /\ job'[j].token = t
    BY <1>2 DEF Claim, TypeOK, Row
  <2>2. /\ execution'[w].pc = "claimed"
        /\ \A v \in Worker \ {w} : execution'[v] = execution[v] /\ execution[v].token # t
    BY <1>2 DEF Claim, Fresh, TypeOK
  <2>3. RetryOf(j)'
    BY <2>1 DEF BoletaOf, RetryOf
  <2>4. StartedOf(j)'
    BY <2>1, <2>2 DEF StartedOf, Owns
  <2>5. \A v \in Worker : At(v, j, "sending")' => At(v, j, "sending")
    BY <2>2 DEF At
  <2>6. Exposed(j)' => Guarded(j)'
    BY <2>1, <2>5 DEF BoletaOf, Exposed, Guarded
  <2>. QED
    BY <2>3, <2>4, <2>5, <2>6 DEF BoletaOf
<1>. QED
  BY <1>1, <1>2

\* Only the row of the job and its requests change, and no thread.
Still(j) == execution' = execution /\ provider'[j].posts = provider[j].posts

LEMMA StillKeeps ==
    ASSUME NEW j \in Boletas, BoletaOf(j), Still(j),
           RetryOf(j)', StartedOf(j)', Exposed(j) => Guarded(j)'
    PROVE  BoletaOf(j)'
<1>1. \A w \in Worker : At(w, j, "sending")' <=> At(w, j, "sending")
  BY DEF Still, At
<1>2. Exposed(j)' <=> Exposed(j)
  BY <1>1 DEF Still, Exposed
<1>. QED
  BY <1>1, <1>2 DEF Still, BoletaOf

LEMMA RequestKeeps ==
    ASSUME TypeOK, NEW j \in Boletas, BoletaOf(j), NEW c \in Client,
           Abandon(c) \/ \E k \in Job : Enqueue(c, k)
    PROVE  BoletaOf(j)'
<1>. j \in Job
  BY DEF Boletas
<1>1. CASE Abandon(c)
  <2>1. Away(j)
    BY <1>1 DEF Abandon, Away, TypeOK
  <2>. QED
    BY <2>1, AwayKeeps
<1>2. ASSUME NEW k \in Job, Read(c, k) PROVE BoletaOf(j)'
  <2>1. /\ job' = job /\ Still(j)
        /\ \A d \in Client \ {c} : request'[d] = request[d]
        /\ request'[c].job = k /\ request'[c].found = job[k].status
    BY <1>2 DEF Read, Still, TypeOK
  <2>2. CASE k # j \/ job[j].status # "failed"
    <3>1. RetryOf(j)'
      BY <2>1, <2>2 DEF BoletaOf, RetryOf
    <3>. QED
      BY <2>1, <3>1, StillKeeps DEF BoletaOf, StartedOf, Owns, Guarded, Still
  <2>3. CASE k = j /\ job[j].status = "failed"
    <3>1. /\ job[j].history = "validation"
          /\ \A d \in Client : ~(request[d].job = j /\ request[d].found = "failed")
      BY <1>2, <2>3 DEF Read, Locked, MayRetry, Boletas, Sale
    <3>2. RetryOf(j)'
      BY <2>1, <2>3, <3>1 DEF RetryOf
    <3>. QED
      BY <2>1, <3>2, StillKeeps DEF BoletaOf, StartedOf, Owns, Guarded, Still
  <2>. QED
    BY <2>2, <2>3
<1>3. ASSUME NEW k \in Job, Create(c, k) PROVE BoletaOf(j)'
  <2>1. \A d \in Client : request'[d] = request[d] \/ request'[d] = NoRequest
    BY <1>3 DEF Create, TypeOK
  <2>2. CASE k # j
    <3>1. Away(j)
      BY <1>3, <2>1, <2>2 DEF Create, Away, TypeOK
    <3>. QED
      BY <3>1, AwayKeeps
  <2>3. CASE k = j
    <3>1. /\ Still(j) /\ job[j].status = "absent"
          /\ job'[j].action = job[j].action
          /\ job'[j].status \in {"queued", "contingency_pending"}
      BY <1>3, <2>3 DEF Create, Still, TypeOK, Row, Request
    <3>2. RetryOf(j)'
      BY <2>1, <3>1, ConstantsAssumption DEF BoletaOf, RetryOf, NoRequest
    <3>3. StartedOf(j)'
      BY <3>1 DEF StartedOf, Owns
    <3>. QED
      BY <3>1, <3>2, <3>3, StillKeeps DEF BoletaOf, Guarded
  <2>. QED
    BY <2>2, <2>3
<1>4. ASSUME NEW k \in Job, Requeue(c, k) PROVE BoletaOf(j)'
  <2>1. /\ \A d \in Client \ {c} : request'[d] = request[d]
        /\ request'[c] = NoRequest
    BY <1>4 DEF Requeue, TypeOK
  <2>2. CASE k # j
    <3>1. Away(j)
      BY <1>4, <2>1, <2>2 DEF Requeue, Away, TypeOK
    <3>. QED
      BY <3>1, AwayKeeps
  <2>3. CASE k = j
    <3>1. /\ request[c].job = j /\ request[c].found = "failed"
          /\ job[j].status = "failed" /\ job[j].history = "validation"
      BY <1>4, <2>3 DEF Requeue, BoletaOf, RetryOf
    <3>2. /\ Still(j) /\ job'[j].action = job[j].action
          /\ job'[j].status \in {"queued", "contingency_pending"}
      BY <1>4, <2>3 DEF Requeue, Still, TypeOK, Row, Request
    <3>3. RetryOf(j)'
      BY <2>1, <3>1, ConstantsAssumption DEF BoletaOf, RetryOf, NoRequest
    <3>4. StartedOf(j)'
      BY <3>2 DEF StartedOf, Owns
    <3>. QED
      BY <3>1, <3>2, <3>3, <3>4, StillKeeps DEF BoletaOf, Guarded
  <2>. QED
    BY <2>2, <2>3
<1>5. ASSUME NEW k \in Job, NumberNote(c, k) PROVE BoletaOf(j)'
  <2>1. Still(j) /\ job'[j] = job[j]
    BY <1>5, NumberFrame DEF Boletas, Still
  <2>2. RetryOf(j)'
    BY <1>5, <2>1, NumberFrame, ConstantsAssumption DEF BoletaOf, RetryOf, Boletas, NoRequest
  <2>. QED
    BY <2>1, <2>2, StillKeeps DEF BoletaOf, StartedOf, Owns, Guarded, Still
<1>. QED
  BY <1>1, <1>2, <1>3, <1>4, <1>5 DEF Enqueue

LEMMA CoordinatorKeeps ==
    ASSUME TypeOK, NEW j \in Boletas, BoletaOf(j),
           \/ \E t \in Tenant : EnableContingency(t) \/ DisableContingency(t)
           \/ \E k \in Job : \/ Expire(k) \/ Maintain(k) \/ ProviderDecides(k)
                             \/ ConsultGuide(k)
    PROVE  BoletaOf(j)'
<1>. j \in Job /\ Kind[j] = "boleta"
  BY DEF Boletas
<1>1. Still(j) /\ request' = request
  BY CoordinatorQuiet DEF Still, Quiet, EnableContingency, DisableContingency, Expire,
     Maintain, RecoverExpired, ReconcilePending, ProviderDecides, ConsultGuide
<1>2. CASE job'[j] = job[j]
  <2>1. Away(j)
    BY <1>1, <1>2 DEF Still, Away
  <2>. QED
    BY <2>1, AwayKeeps
<1>3. CASE Expire(j)
  <2>1. /\ job[j].status = "processing"
        /\ job'[j] = [job[j] EXCEPT !.live = FALSE]
    BY <1>3 DEF Expire, TypeOK
  <2>2. /\ job'[j].status = job[j].status /\ job'[j].action = job[j].action
        /\ job'[j].started = job[j].started /\ job'[j].token = job[j].token
        /\ job'[j].history = job[j].history /\ ~job'[j].live
    BY <2>1 DEF TypeOK, Row
  <2>3. RetryOf(j)' /\ StartedOf(j)'
    BY <1>1, <2>2 DEF BoletaOf, RetryOf, StartedOf, Owns
  <2>. QED
    BY <1>1, <2>2, <2>3, StillKeeps DEF BoletaOf, Guarded, Still
<1>4. ASSUME job[j].status \in {"queued", "retry", "contingency_pending", "pending_confirmation"},
             job'[j].status \in {"queued", "retry", "contingency_pending"},
             job[j].action = "consult_fiscal_document" => job'[j].action = job[j].action
      PROVE  BoletaOf(j)'
  <2>1. RetryOf(j)' /\ StartedOf(j)'
    BY <1>1, <1>4 DEF BoletaOf, RetryOf, StartedOf, Owns
  <2>. QED
    BY <1>1, <1>4, <2>1, StillKeeps DEF BoletaOf, Guarded
<1>5. CASE \E t \in Tenant : EnableContingency(t) \/ DisableContingency(t)
  <2>1. \/ job'[j] = job[j]
        \/ /\ job[j].status \in {"queued", "retry", "contingency_pending"}
           /\ \E s \in {"queued", "contingency_pending"} :
                job'[j] = [job[j] EXCEPT !.status = s]
    BY <1>5 DEF EnableContingency, DisableContingency
  <2>2. \A s : [job[j] EXCEPT !.status = s].status = s
              /\ [job[j] EXCEPT !.status = s].action = job[j].action
    BY DEF TypeOK, Row
  <2>. QED
    BY <1>2, <1>4, <2>1, <2>2
<1>6. CASE ReconcilePending(j)
  BY <1>4, <1>6 DEF ReconcilePending, TypeOK, Row
<1>7. CASE RecoverExpired(j)
  <2>1. /\ job[j].status = "processing" /\ job'[j].status = "retry"
        /\ job'[j].action = RecoveredAction(job[j], "boleta")
    BY <1>7 DEF RecoverExpired, RecoveredStatus, Sale, TypeOK, Row
  <2>2. RetryOf(j)' /\ StartedOf(j)'
    BY <1>1, <2>1 DEF BoletaOf, RetryOf, StartedOf, Owns
  <2>3. Guarded(j) => Guarded(j)'
    BY <2>1 DEF Guarded, RecoveredAction, RequiresConsult, Sale
  <2>. QED
    BY <1>1, <2>2, <2>3, StillKeeps DEF BoletaOf
<1>8. CASE \E k \in Job : ProviderDecides(k) \/ ConsultGuide(k) \/ (k # j /\ (Expire(k) \/ Maintain(k)))
  <2>1. job'[j] = job[j]
    BY <1>8 DEF ProviderDecides, ConsultGuide, Expire, Maintain, RecoverExpired, ReconcilePending, TypeOK
  <2>. QED
    BY <1>2, <2>1
<1>. QED
  BY <1>3, <1>5, <1>6, <1>7, <1>8 DEF Maintain

\* A thread of the boleta that stays past the call, or ends.
LEMMA CallKeeps ==
    ASSUME TypeOK, NEW j \in Boletas, BoletaOf(j), NEW w \in Worker,
           OwnThread(w, j), UNCHANGED request, provider'[j].posts = provider[j].posts,
           ~At(w, j, "sending")', execution[w].pc # "claimed",
           /\ job'[j].status = job[j].status /\ job'[j].action = job[j].action
           /\ job'[j].started = job[j].started /\ job'[j].token = job[j].token
           /\ job'[j].history = job[j].history /\ job'[j].live = job[j].live,
           execution[w].pc \in Calling
             => execution'[w] = Idle \/ execution'[w].pc \in Calling
    PROVE  BoletaOf(j)'
<1>. j \in Job /\ Idle.job # j /\ Idle.pc = "idle"
  BY ConstantsAssumption DEF Boletas, Idle
<1>1. RetryOf(j)'
  BY DEF BoletaOf, RetryOf
<1>2. StartedOf(j)'
  BY DEF BoletaOf, StartedOf, OwnThread, Owns
<1>3. \A v \in Worker : At(v, j, "sending")' => At(v, j, "sending")
  BY DEF OwnThread, At
<1>4. Exposed(j)' => Exposed(j)
  BY <1>3 DEF Exposed
<1>5. Guarded(j) => Guarded(j)'
  BY DEF Guarded, OwnThread, Calling
<1>. QED
  BY <1>1, <1>2, <1>3, <1>4, <1>5 DEF BoletaOf

\* The owner of an exposed boleta that is not a consultation is past the call.
LEMMA OwnerIsCalling ==
    ASSUME NEW j \in Boletas, BoletaOf(j), NEW w \in Worker,
           execution[w].job = j, Owns(w, j), execution[w].pc \notin Calling,
           job[j].action # "consult_fiscal_document"
    PROVE  ~Exposed(j)
BY DEF BoletaOf, Guarded, Owns

\* Closing a boleta that is not exposed, that is or becomes a consultation, or
\* that succeeds or fails for good.
LEMMA CloseKeeps ==
    ASSUME TypeOK, NEW j \in Boletas, BoletaOf(j), NEW w \in Worker, NEW v \in VerdictType,
           execution[w].job = j, Close(w, j, v),
           \/ ~Exposed(j)
           \/ v.action = "consult_fiscal_document"
           \/ v.status = "succeeded"
           \/ v.status = "failed" /\ v.class = "terminal",
           v.status # "processing"
    PROVE  BoletaOf(j)'
<1>. j \in Job /\ Idle.job # j /\ Idle.pc = "idle"
  BY ConstantsAssumption DEF Boletas, Idle
<1>1. /\ OwnThread(w, j) /\ request' = request /\ provider' = provider
      /\ job[j].status = "processing" /\ execution'[w] = Idle
  BY CloseFrame DEF Close, Owns, Stop, TypeOK
<1>2. /\ job'[j].status = v.status /\ job'[j].action = v.action
      /\ job'[j].history = AddClass(job[j].history, v.class)
  BY DEF Close, Closed, TypeOK, Row
<1>3. RetryOf(j)'
  BY <1>1 DEF BoletaOf, RetryOf
<1>4. StartedOf(j)'
  BY <1>2 DEF StartedOf, Owns
<1>5. \A u \in Worker : At(u, j, "sending")' => At(u, j, "sending")
  BY <1>1 DEF OwnThread, At
<1>6. Exposed(j)' => Exposed(j)
  BY <1>1, <1>5 DEF Exposed
<1>7. Exposed(j) => Guarded(j)'
  BY <1>2 DEF Guarded, AddClass
<1>. QED
  BY <1>1, <1>3, <1>4, <1>5, <1>6, <1>7 DEF BoletaOf

LEMMA StartAttemptKeeps ==
    ASSUME TypeOK, TokensDiffer, NEW j \in Boletas, BoletaOf(j), NEW w \in Worker,
           StartAttempt(w, j)
    PROVE  BoletaOf(j)'
<1>. j \in Job
  BY DEF Boletas
<1>1. /\ OwnThread(w, j) /\ request' = request /\ provider' = provider
      /\ execution[w].job = j /\ execution[w].pc = "claimed" /\ Owns(w, j)
      /\ execution'[w].pc = "started"
  BY WorkFrame DEF Work, StartAttempt, At, Goto, TypeOK, Execution
<1>2. /\ job'[j].status = job[j].status /\ job'[j].action = job[j].action
      /\ job'[j].history = job[j].history /\ job'[j].started
  BY DEF StartAttempt, TypeOK, Row
<1>3. RetryOf(j)'
  BY <1>1, <1>2 DEF BoletaOf, RetryOf
<1>4. StartedOf(j)'
  BY <1>2 DEF StartedOf
<1>5. \A v \in Worker : At(v, j, "sending")' => At(v, j, "sending")
  BY <1>1 DEF OwnThread, At
<1>6. Exposed(j) => job[j].action = "consult_fiscal_document"
  BY <1>1, OwnerIsCalling DEF Calling
<1>7. Exposed(j)' => Guarded(j)'
  BY <1>1, <1>2, <1>5, <1>6 DEF Exposed, Guarded
<1>. QED
  BY <1>1, <1>3, <1>4, <1>5, <1>7 DEF BoletaOf

LEMMA BeginSendKeeps ==
    ASSUME TypeOK, TokensDiffer, NEW j \in Boletas, BoletaOf(j), NEW w \in Worker,
           BeginSend(w, j)
    PROVE  BoletaOf(j)'
<1>. j \in Job /\ Kind[j] = "boleta"
  BY DEF Boletas
<1>1. /\ OwnThread(w, j) /\ request' = request /\ provider' = provider
      /\ execution'[w].pc = "sending"
  BY WorkFrame DEF Work, BeginSend, Goto, TypeOK, Execution
<1>2. /\ execution[w].job = j /\ execution[w].pc = "started" /\ Owns(w, j)
      /\ job[j].action = "emit_fiscal_document"
  BY DEF BeginSend, Recoverable, MayEmit, Ready, At, EmitAction, Sale
<1>3. ~Exposed(j)
  BY <1>2, OwnerIsCalling DEF Calling
<1>4. /\ job'[j].status = job[j].status /\ job'[j].action = job[j].action
      /\ job'[j].started = job[j].started /\ job'[j].token = job[j].token
      /\ job'[j].history = job[j].history /\ job'[j].live = job[j].live
  BY DEF BeginSend, TypeOK, Row
<1>5. job[j].started /\ job[j].status = "processing" /\ execution[w].token = job[j].token
  BY <1>2 DEF BoletaOf, StartedOf, Owns
<1>6. \A v \in Worker : v # w => execution'[v].token # job[j].token
                                 \/ execution'[v].job # j
  BY <1>1, <1>2, <1>5 DEF TokensDiffer, OwnThread
<1>7. provider[j].posts = 0 /\ \A v \in Worker : ~At(v, j, "sending")
  BY <1>3 DEF Exposed, TypeOK, Provider
<1>8. RetryOf(j)'
  BY <1>1, <1>4 DEF BoletaOf, RetryOf
<1>9. StartedOf(j)'
  BY <1>4, <1>5 DEF StartedOf
<1>10. Guarded(j)'
  BY <1>1, <1>4, <1>5, <1>6 DEF Guarded, Calling
<1>11. \A v \in Worker : At(v, j, "sending")' => v = w
  BY <1>1, <1>7 DEF OwnThread, At
<1>. QED
  BY <1>1, <1>7, <1>8, <1>9, <1>10, <1>11 DEF BoletaOf

LEMMA PostKeeps ==
    ASSUME TypeOK, NEW j \in Boletas, BoletaOf(j), NEW w \in Worker, Post(w, j)
    PROVE  BoletaOf(j)'
<1>. j \in Job
  BY DEF Boletas
<1>1. /\ At(w, j, "sending") /\ Exposed(j) /\ provider[j].posts = 0
      /\ UNCHANGED <<job, request>>
  BY DEF Post, Exposed, BoletaOf
<1>2. OwnThread(w, j) /\ execution'[w].pc = "posted"
  BY WorkFrame DEF Work, Post, Goto, TypeOK, Execution
<1>3. provider'[j].posts = 1
  BY <1>1 DEF Post, TypeOK, Provider
<1>4. \A v \in Worker : ~At(v, j, "sending")'
  BY <1>1, <1>2 DEF BoletaOf, OwnThread, At
<1>5. RetryOf(j)' /\ StartedOf(j)'
  <2>1. RetryOf(j)'
    BY <1>1 DEF BoletaOf, RetryOf
  <2>2. StartedOf(j)'
    BY <1>1, <1>2 DEF BoletaOf, StartedOf, OwnThread, Owns, At, Idle
  <2>. QED
    BY <2>1, <2>2
<1>6. Guarded(j)'
  BY <1>1, <1>2 DEF BoletaOf, Guarded, OwnThread, Calling
<1>. QED
  BY <1>3, <1>4, <1>5, <1>6 DEF BoletaOf

LEMMA FinishKeeps ==
    ASSUME TypeOK, NEW j \in Boletas, BoletaOf(j), NEW w \in Worker,
           \/ ContextFails(w, j) \/ ProviderPauses(w, j) \/ HoldSigned(w, j)
           \/ VoidApplyFails(w, j) \/ Finish(w, j)
    PROVE  BoletaOf(j)'
<1>. j \in Job /\ Kind[j] = "boleta" /\ job[j].action \in Action
  BY DEF Boletas, TypeOK, Row
<1>1. ASSUME ~Finish(w, j) PROVE BoletaOf(j)'
  <2>1. PICK s \in {"failed", "retry"}, c \in {"validation", "transient"} :
           Close(w, j, Verdict(s, job[j].action, c))
    BY <1>1 DEF ContextFails, ProviderPauses, HoldSigned, VoidApplyFails, Annuls
  <2>2. /\ execution[w].job = j /\ execution[w].pc \notin Calling /\ Owns(w, j)
    BY <1>1 DEF ContextFails, ProviderPauses, HoldSigned, VoidApplyFails, Annuls,
                MayEmit, Ready, At, Calling, Close
  <2>3. ~Exposed(j) \/ job[j].action = "consult_fiscal_document"
    BY <2>2, OwnerIsCalling
  <2>4. Verdict(s, job[j].action, c) \in VerdictType
    BY DEF Verdict, VerdictType, Status, Class
  <2>. QED
    BY <2>1, <2>2, <2>3, <2>4, CloseKeeps DEF Verdict
<1>2. ASSUME Finish(w, j) PROVE BoletaOf(j)'
  <2>1. PICK v \in Verdicts(w, j) : Close(w, j, v) /\ execution[w].job = j
    BY <1>2 DEF Finish, At
  <2>2. v \in VerdictType
    BY <2>1, VerdictsType
  <2>3. v \in SaleVerdicts(job[j], document[j], execution[w].outcome, "boleta")
    BY <2>1 DEF Verdicts, Sale
  <2>4. document[j].state \in DocumentState
    BY DEF TypeOK, Document
  <2>5. /\ v.status # "processing"
        /\ \/ v.action = "consult_fiscal_document"
           \/ v.status = "succeeded"
           \/ v.status = "failed" /\ v.class = "terminal"
    BY <2>3, <2>4 DEF SaleVerdicts, DocumentState, Succeeded, Reconcile, ByClass,
                      Classify, Verdict
  <2>. QED
    BY <2>1, <2>2, <2>5, CloseKeeps
<1>. QED
  BY <1>1, <1>2

\* The steps that leave the row alone, or only write the document.
LEMMA WorkKeeps ==
    ASSUME TypeOK, TokensDiffer, NEW j \in Boletas, BoletaOf(j), NEW w \in Worker,
           Work(w, j)
    PROVE  BoletaOf(j)'
<1>. j \in Job /\ Kind[j] = "boleta" /\ ~Recoverable(j)
  BY DEF Boletas, Recoverable
<1>1. OwnThread(w, j) /\ UNCHANGED request
  BY WorkFrame
<1>2. ASSUME UNCHANGED job, provider'[j].posts = provider[j].posts,
             execution[w].pc # "claimed", ~At(w, j, "sending")',
             execution[w].pc \in Calling => execution'[w].pc \in Calling
      PROVE  BoletaOf(j)'
  BY <1>1, <1>2, CallKeeps
<1>3. CASE BeginConsult(w, j) \/ Answer(w, j) \/ NotPosted(w, j) \/ SignFails(w, j)
  BY <1>2, <1>3 DEF BeginConsult, Answer, NotPosted, SignFails, Ready, At, Goto, Answered,
                    TypeOK, Execution, Calling
<1>4. CASE StoreResult(w, j)
  <2>1. job' = job
    <3>1. job' = [job EXCEPT ![j] = [job[j] EXCEPT !.snapshot = @]]
      BY <1>4 DEF StoreResult, Evidence
    <3>. QED
      BY <3>1 DEF TypeOK, Row
  <2>2. UNCHANGED provider /\ execution[w].pc = "answered" /\ execution'[w].pc = "stored"
    BY <1>4 DEF StoreResult, At, Goto, TypeOK, Execution
  <2>. QED
    BY <1>2, <2>1, <2>2 DEF At, Calling
<1>5. CASE LoseLease(w, j)
  <2>1. Away(j)
    BY <1>1, <1>5, ConstantsAssumption DEF LoseLease, Stop, Idle, Away, OwnThread, TypeOK
  <2>. QED
    BY <2>1, AwayKeeps
<1>6. CASE WithdrawSend(w, j)
  <2>1. /\ job'[j].status = job[j].status /\ job'[j].action = job[j].action
        /\ job'[j].started = job[j].started /\ job'[j].token = job[j].token
        /\ job'[j].history = job[j].history /\ job'[j].live = job[j].live
    BY <1>6 DEF WithdrawSend, TypeOK, Row
  <2>2. UNCHANGED provider /\ execution[w].pc = "answered" /\ execution'[w].pc = "stored"
    BY <1>6 DEF WithdrawSend, At, Goto, TypeOK, Execution
  <2>. QED
    BY <1>1, <2>1, <2>2, CallKeeps DEF At, Calling
<1>7. CASE SignDone(w, j)
  BY <1>2, <1>7 DEF SignDone, At, Goto, TypeOK, Execution, Calling
<1>8. ~( \/ TransitionUncertain(w, j) \/ Sign(w, j) \/ Clear(w, j)
         \/ ResumeVoid(w, j) \/ ApplyVoid(w, j))
  BY DEF TransitionUncertain, MustConsult, Sign, Clear, ResumeVoid, ApplyVoid, Annuls
<1>. QED
  BY <1>3, <1>4, <1>5, <1>6, <1>7, <1>8, StartAttemptKeeps, BeginSendKeeps, PostKeeps,
     FinishKeeps DEF Work

LEMMA BoletaNext == TypeOK /\ TokensDiffer /\ BoletaInv /\ [Next]_vars => BoletaInv'
<1>. SUFFICES ASSUME TypeOK, TokensDiffer, BoletaInv, [Next]_vars, NEW j \in Boletas
              PROVE  BoletaOf(j)'
  BY DEF BoletaInv, Boletas
<1>. BoletaOf(j)
  BY DEF BoletaInv
<1>1. CASE UNCHANGED vars
  <2>1. Away(j)
    BY <1>1 DEF vars, Away
  <2>. QED
    BY <2>1, AwayKeeps
<1>2. ASSUME NEW w \in Worker, NEW k \in Job, Work(w, k) PROVE BoletaOf(j)'
  BY <1>2, WorkKeeps, OtherKeeps
<1>. QED
  BY <1>1, <1>2, RequestKeeps, CoordinatorKeeps, CrashKeeps, ClaimKeeps DEF Next

\* No sale and no cancellation is submitted twice, whatever expires, crashes,
\* is recovered or is asked again: invoices and cancellations by the mark that
\* precedes the call, boletas by the row of the queue.
THEOREM SentOnceHolds == Spec => []SentOnce
<1>1. Init => TypeOK /\ TokensDiffer /\ BoletaInv
  BY TypeInit, TokensInit, BoletaInit
<1>2. (TypeOK /\ TokensDiffer /\ BoletaInv) /\ [Next]_vars
      => (TypeOK /\ TokensDiffer /\ BoletaInv)'
  BY TypeNext, TokensNext, BoletaNext
<1>3. FenceInv /\ BoletaInv => SentOnce
  BY DEF FenceInv, FenceOf, Fenced, BoletaInv, BoletaOf, Boletas, SentOnce, Sale
<1>. QED
  BY <1>1, <1>2, <1>3, FenceHolds, PTL DEF Spec

-----------------------------------------------------------------------------
(* The queue implements the submission permit *)

Held(j) == \E w \in Worker : Holds(w, j)

\* Nothing that the permit of a document is made of changes.
Same(j) ==
    /\ provider'[j].posts = provider[j].posts
    /\ IsOpen(j)' <=> IsOpen(j)
    /\ Held(j)' <=> Held(j)

LEMMA SamePermit ==
    ASSUME NEW j \in Fenced, Same(j)
    PROVE  permit'[j] = permit[j] /\ sent'[j] = sent[j]
BY DEF Same, permit, sent, IsOpen, Held

LEMMA AllSame ==
    ASSUME \A j \in Fenced : Same(j)
    PROVE  UNCHANGED Permit!vars
<1>1. \A j \in Fenced : permit'[j] = permit[j] /\ sent'[j] = sent[j]
  BY SamePermit
<1>2. permit' = permit
  BY <1>1 DEF permit
<1>3. sent' = sent
  BY <1>1 DEF sent
<1>. QED
  BY <1>2, <1>3 DEF Permit!vars

\* A step that may change the permit of j only.
LEMMA OneChanges ==
    ASSUME NEW j \in Fenced, \A k \in Fenced \ {j} : Same(k), FenceOf(j), TypeOK,
           \/ Same(j)
           \/ /\ IsOpen(j) /\ ~IsOpen(j)' /\ Held(j)'
              /\ provider'[j].posts = provider[j].posts
           \/ /\ Held(j) /\ IsOpen(j)'
              /\ provider'[j].posts = provider[j].posts
           \/ /\ Held(j) /\ ~Held(j)' /\ ~IsOpen(j)'
              /\ provider'[j].posts = provider[j].posts + 1
           \/ /\ Held(j) /\ ~Held(j)' /\ ~IsOpen(j)'
              /\ provider'[j].posts = provider[j].posts
    PROVE  [Permit!Next]_(Permit!vars)
<1>1. \A k \in Fenced \ {j} : permit'[k] = permit[k] /\ sent'[k] = sent[k]
  BY SamePermit
<1>2. \A x : permit'[j] = x => permit' = [permit EXCEPT ![j] = x]
  BY <1>1 DEF permit
<1>3. \A n : sent'[j] = n => sent' = [sent EXCEPT ![j] = n]
  BY <1>1 DEF sent
<1>4. /\ permit[j] = IF IsOpen(j) THEN "open" ELSE IF Held(j) THEN "taken" ELSE "spent"
      /\ permit'[j] = IF IsOpen(j)' THEN "open" ELSE IF Held(j)' THEN "taken" ELSE "spent"
      /\ sent[j] = provider[j].posts /\ sent'[j] = provider'[j].posts
  BY DEF permit, sent, IsOpen, Held
<1>5. Held(j) => ~IsOpen(j)
  BY DEF Held, FenceOf
<1>6. provider'[j].posts = provider[j].posts => sent' = sent
  BY <1>3, <1>4 DEF sent
<1>7. CASE Same(j)
  BY <1>7, AllSame
<1>8. CASE /\ IsOpen(j) /\ ~IsOpen(j)' /\ Held(j)'
           /\ provider'[j].posts = provider[j].posts
  <2>1. Permit!Take(j)
    BY <1>2, <1>4, <1>6, <1>8 DEF Permit!Take
  <2>. QED
    BY <2>1 DEF Permit!Next
<1>9. CASE Held(j) /\ IsOpen(j)' /\ provider'[j].posts = provider[j].posts
  <2>1. Permit!GiveBack(j)
    BY <1>2, <1>4, <1>5, <1>6, <1>9 DEF Permit!GiveBack
  <2>. QED
    BY <2>1 DEF Permit!Next
<1>10. CASE /\ Held(j) /\ ~Held(j)' /\ ~IsOpen(j)'
            /\ provider'[j].posts = provider[j].posts + 1
  <2>1. Permit!Deliver(j)
    BY <1>2, <1>3, <1>4, <1>5, <1>10 DEF Permit!Deliver
  <2>. QED
    BY <2>1 DEF Permit!Next
<1>11. CASE /\ Held(j) /\ ~Held(j)' /\ ~IsOpen(j)'
            /\ provider'[j].posts = provider[j].posts
  <2>1. Permit!Forfeit(j)
    BY <1>2, <1>4, <1>5, <1>6, <1>11 DEF Permit!Forfeit
  <2>. QED
    BY <2>1 DEF Permit!Next
<1>. QED
  BY <1>7, <1>8, <1>9, <1>10, <1>11

LEMMA PermitInit == Init /\ TypeOK /\ FenceInv => Permit!Init
<1>. SUFFICES ASSUME Init, TypeOK, FenceInv PROVE Permit!Init
  OBVIOUS
<1>1. \A j \in Fenced, w \in Worker : ~Holds(w, j)
  BY DEF Init, Holds, At, Idle
<1>2. permit \in [Fenced -> {"open", "spent"}]
  BY <1>1 DEF permit
<1>3. ASSUME NEW j \in Fenced PROVE sent[j] \in 0..1 /\ (sent[j] = 1 => permit[j] = "spent")
  BY <1>1 DEF sent, permit, FenceInv, FenceOf, IsOpen, TypeOK, Provider, Fenced
<1>4. sent \in [Fenced -> 0..1]
  BY <1>3 DEF sent
<1>. QED
  BY <1>2, <1>3, <1>4 DEF Permit!Init

\* A step of an execution concerns the permit of its own document only.
LEMMA WorkSame ==
    ASSUME TypeOK, NEW w \in Worker, NEW j \in Job, Work(w, j),
           NEW k \in Fenced \ {j}
    PROVE  Same(k)
<1>1. OwnThread(w, j) /\ job'[k] = job[k] /\ provider'[k] = provider[k]
  BY WorkFrame DEF OwnRow, Fenced
<1>2. \A v \in Worker : Holds(v, k)' <=> Holds(v, k)
  BY <1>1 DEF OwnThread, Holds, At, Idle
<1>. QED
  BY <1>1, <1>2 DEF Same, IsOpen, Held

LEMMA WorkPermit ==
    ASSUME TypeOK, FenceInv, NEW w \in Worker, NEW j \in Job, Work(w, j)
    PROVE  [Permit!Next]_(Permit!vars)
<1>1. CASE j \notin Fenced
  BY <1>1, WorkSame, AllSame
<1>2. CASE j \in Fenced
  <2>. FenceOf(j) /\ \A k \in Fenced \ {j} : Same(k)
    BY <1>2, WorkSame DEF FenceInv
  <2>0. \A u \in Worker \ {w} : Holds(u, j)' <=> Holds(u, j)
    BY WorkFrame DEF OwnThread, Holds, At
  <2>1. CASE BeginSend(w, j)
    <3>1. IsOpen(j) /\ provider' = provider
      BY <2>1 DEF BeginSend, IsOpen
    <3>2. job'[j].snapshot = Marked(job[j].snapshot, Kind[j])
      BY <2>1 DEF BeginSend, TypeOK, Row
    <3>3. ~IsOpen(j)'
      BY <1>2, <3>2, Marks DEF IsOpen, TypeOK, Row
    <3>4. Held(j)'
      BY <2>1, WorkFrame DEF BeginSend, Goto, Held, Holds, At, OwnThread, TypeOK, Execution
    <3>. QED
      BY <1>2, <3>1, <3>3, <3>4, OneChanges
  <2>2. CASE Post(w, j)
    <3>1. Holds(w, j) /\ provider[j].posts = 0 /\ ~IsOpen(j)'
      BY <2>2 DEF Post, Holds, FenceOf, IsOpen
    <3>2. provider'[j].posts = provider[j].posts + 1
      BY <2>2, <3>1 DEF Post, TypeOK, Provider
    <3>3. ~Held(j)'
      BY <2>0, <2>2, <3>1 DEF Post, Goto, Held, Holds, At, FenceOf, TypeOK, Execution
    <3>. QED
      BY <1>2, <3>1, <3>2, <3>3, OneChanges DEF Held
  <2>3. CASE WithdrawSend(w, j)
    <3>1. Held(j) /\ provider' = provider
      BY <2>3 DEF WithdrawSend, Held, Holds
    <3>2. ~Held(j)'
      BY <2>0, <2>3 DEF WithdrawSend, Goto, Held, Holds, At, FenceOf, TypeOK, Execution
    <3>. QED
      BY <1>2, <3>1, <3>2, OneChanges
  <2>4. CASE ~BeginSend(w, j) /\ ~Post(w, j) /\ ~WithdrawSend(w, j)
    <3>1. Quiet(j)
      BY <1>2, <2>4, WorkQuiet
    <3>2. Same(j) \/ (Held(j) /\ ~Held(j)')
      BY <3>1 DEF Quiet, Same, Held
    <3>3. Held(j) => ~IsOpen(j)
      BY DEF Held, FenceOf
    <3>. QED
      BY <1>2, <3>1, <3>2, <3>3, OneChanges DEF Quiet
  <2>. QED
    BY <2>1, <2>2, <2>3, <2>4
<1>. QED
  BY <1>1, <1>2

LEMMA PermitNext == TypeOK /\ FenceInv /\ [Next]_vars => [Permit!Next]_(Permit!vars)
<1>. SUFFICES ASSUME TypeOK, FenceInv, [Next]_vars PROVE [Permit!Next]_(Permit!vars)
  OBVIOUS
<1>1. ASSUME NEW w \in Worker, Crash(w) PROVE [Permit!Next]_(Permit!vars)
  <2>. UNCHANGED <<job, provider>>
    BY <1>1 DEF Crash
  <2>1. /\ \A v \in Worker \ {w} : execution'[v] = execution[v]
        /\ execution'[w] = Idle
    BY <1>1 DEF Crash, Stop, TypeOK
  <2>2. \A k \in Fenced : ~Holds(w, k) => Same(k)
    BY <2>1 DEF Same, Held, Holds, At, Idle, IsOpen
  <2>3. CASE \A k \in Fenced : ~Holds(w, k)
    BY <2>2, <2>3, AllSame
  <2>4. ASSUME NEW j \in Fenced, Holds(w, j) PROVE [Permit!Next]_(Permit!vars)
    <3>1. \A k \in Fenced \ {j} : Same(k)
      BY <2>2, <2>4 DEF Holds, At
    <3>2. FenceOf(j) /\ Held(j)
      BY <2>4 DEF FenceInv, Held
    <3>3. ~IsOpen(j) /\ ~IsOpen(j)' /\ ~Held(j)'
      BY <2>1, <2>4, <3>2 DEF FenceOf, Held, Holds, At, Idle, IsOpen
    <3>. QED
      BY <3>1, <3>2, <3>3, OneChanges
  <2>. QED
    BY <2>3, <2>4
<1>2. ASSUME NEW w \in Worker, NEW i \in Job, NEW t \in Token, Claim(w, i, t)
      PROVE  [Permit!Next]_(Permit!vars)
  <2>1. ASSUME NEW j \in Fenced PROVE Same(j)
    <3>1. job'[j].snapshot = job[j].snapshot /\ provider' = provider
      BY <1>2 DEF Claim, Fenced, TypeOK, Row
    <3>2. \A u \in Worker : Holds(u, j)' <=> Holds(u, j)
      BY <1>2 DEF Claim, Holds, At, Idle, TypeOK
    <3>. QED
      BY <3>1, <3>2 DEF Same, Held, IsOpen
  <2>. QED
    BY <2>1, AllSame
<1>3. ASSUME \/ \E c \in Client : Abandon(c) \/ \E k \in Job : Enqueue(c, k)
             \/ \E t \in Tenant : EnableContingency(t) \/ DisableContingency(t)
             \/ \E k \in Job : Expire(k) \/ Maintain(k) \/ ProviderDecides(k) \/ ConsultGuide(k)
             \/ UNCHANGED vars
      PROVE  [Permit!Next]_(Permit!vars)
  <2>1. ASSUME NEW j \in Fenced PROVE Same(j)
    <3>1. Quiet(j) /\ execution' = execution
      BY <1>3, CoordinatorQuiet DEF Fenced
    <3>. QED
      BY <3>1 DEF Quiet, Same, Held, Holds, At
  <2>. QED
    BY <2>1, AllSame
<1>. QED
  BY <1>1, <1>2, <1>3, WorkPermit DEF Next

\* The queue, with its crashes, lost leases, recoveries and retries, is an
\* implementation of one permit per invoice and cancellation: it is taken
\* before the call, spent by it or with its thread, and given back only on the
\* proof that nothing was sent.
THEOREM PermitImplemented == Spec => ImplementsPermit
<1>1. Init => Permit!Init
  BY TypeInit, FenceInit, PermitInit
<1>2. (TypeOK /\ FenceInv) /\ [Next]_vars => [Permit!Next]_(Permit!vars)
  BY PermitNext
<1>. QED
  BY <1>1, <1>2, FenceHolds, PTL DEF Spec, ImplementsPermit, Permit!Spec
=============================================================================
