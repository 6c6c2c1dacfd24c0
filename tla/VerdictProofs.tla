----------------------------- MODULE VerdictProofs -----------------------------
(***************************************************************************)
(* That no two threads submit one document at a time, that verdicts are    *)
(* true and final, and that their effects are applied once, for every      *)
(* instance of EmissionQueue.                                              *)
(***************************************************************************)
EXTENDS EmissionQueueProofs

-----------------------------------------------------------------------------
(* What a step does to a row *)

\* Nothing changes that decides who may work on the job; a lease may end.
Kept(j) ==
    /\ job'[j].status = job[j].status /\ job'[j].action = job[j].action
    /\ job'[j].token = job[j].token /\ job'[j].started = job[j].started
    /\ job'[j].live => job[j].live

\* The owner closes the job.
Closes(w, j) ==
    /\ execution[w].job = j /\ Owns(w, j)
    /\ execution[w].pc \in {"started", "cleared", "stored"}
    /\ execution'[w] = Idle /\ document' = document
    /\ job'[j].status # "processing"
    /\ job'[j].action \in {job[j].action, "consult_fiscal_document"}
    /\ job'[j].status = "succeeded" =>
          /\ execution[w].pc = "stored"
          /\ document[j].state = "accepted"
                \/ (Kind[j] = "guide" /\ execution[w].outcome = "accepted")
    /\ Kind[j] = "guide" /\ execution[w].pc = "stored" =>
          /\ execution[w].outcome = "accepted" => job'[j].status = "succeeded"
          /\ execution[w].outcome = "pending" => job'[j].status = "pending_confirmation"

\* A row that nobody has is put aside, freed, recovered or reconciled.
Waiting == {"queued", "retry", "contingency_pending"}

Shifts(j) ==
    /\ job[j].status \in Waiting /\ job'[j].status \in Waiting
    /\ job'[j].action = job[j].action

LEMMA ShapeOfClose ==
    ASSUME TypeOK, NEW w \in Worker, NEW j \in Job, NEW v, Close(w, j, v)
    PROVE  /\ Owns(w, j) /\ execution'[w] = Idle /\ document' = document
           /\ job'[j].status = v.status /\ job'[j].action = v.action
BY DEF Close, Closed, Stop, TypeOK, Row

\* What the verdicts of a finished execution may be.
LEMMA VerdictFacts ==
    ASSUME TypeOK, NEW w \in Worker, NEW j \in Job, NEW v \in Verdicts(w, j)
    PROVE  /\ v.status # "processing"
           /\ v.action \in {job[j].action, "consult_fiscal_document"}
           /\ v.status = "succeeded" =>
                 \/ document[j].state = "accepted"
                 \/ Kind[j] = "guide" /\ execution[w].outcome = "accepted"
           /\ Kind[j] = "guide" =>
                 /\ execution[w].outcome = "accepted" => v.status = "succeeded"
                 /\ execution[w].outcome = "pending" => v.status = "pending_confirmation"
<1>. DEFINE row == job[j]
            d   == document[j]
            o   == execution[w].outcome
            Fine(x) == /\ x.status \in {"retry", "failed", "pending_confirmation"}
                       /\ x.action \in {row.action, "consult_fiscal_document"}
<1>0. \A c : Fine(ByClass(row, c))
  BY DEF ByClass, Verdict
<1>1. \A x \in Rejections(row) : Fine(x)
  BY <1>0 DEF Rejections
<1>2. \A c : Fine(Reconcile(c))
  BY DEF Reconcile, Verdict
<1>3. /\ \A s \in {"retry", "failed"} : \A c : Fine(Verdict(s, row.action, c))
      /\ Succeeded(row).status = "succeeded" /\ Succeeded(row).action = row.action
  BY DEF Verdict, Succeeded
<1>4. \A x \in SignVerdicts(row, o) : Fine(x)
  BY <1>0, <1>3 DEF SignVerdicts
<1>. HIDE DEF Fine
<1>5. CASE Kind[j] \in Sale
  <2>1. v \in SaleVerdicts(row, d, o, Kind[j])
    BY <1>5 DEF Verdicts, Sale
  <2>2. d.state \in DocumentState
    BY DEF TypeOK, Document
  <2>3. Fine(v) \/ (d.state = "accepted" /\ v = Succeeded(row))
    BY <1>0, <1>2, <1>3, <1>4, <2>1, <2>2 DEF SaleVerdicts, DocumentState
  <2>. QED
    BY <1>3, <1>5, <2>3 DEF Fine, Sale
<1>6. CASE Kind[j] = "note"
  <2>1. v \in NoteVerdicts(row, d, o)
    BY <1>6 DEF Verdicts, Sale
  <2>2. Fine(v) \/ (d.state = "accepted" /\ v = Succeeded(row))
    BY <1>0, <1>1, <1>3, <2>1 DEF NoteVerdicts
  <2>. QED
    BY <1>3, <1>6, <2>2 DEF Fine
<1>7. CASE Kind[j] = "guide"
  <2>1. v \in GuideVerdicts(row, o)
    BY <1>7 DEF Verdicts, Sale
  <2>2. IF o = "accepted" THEN v = Succeeded(row) ELSE Fine(v)
    BY <1>0, <1>1, <2>1 DEF GuideVerdicts
  <2>3. o = "pending" => v.status = "pending_confirmation"
    BY <2>1 DEF GuideVerdicts, ByClass, Verdict
  <2>. QED
    BY <1>3, <1>7, <2>2, <2>3 DEF Fine
<1>8. CASE Kind[j] = "void"
  <2>1. v \in VoidVerdicts(row, d)
    BY <1>8 DEF Verdicts, Sale
  <2>2. Fine(v) \/ (d.state = "accepted" /\ v = Succeeded(row))
    BY <1>1, <1>3, <2>1 DEF VoidVerdicts
  <2>. QED
    BY <1>3, <1>8, <2>2 DEF Fine
<1>. QED
  BY <1>5, <1>6, <1>7, <1>8, ConstantsAssumption DEF Kinds, Sale

LEMMA Closings ==
    ASSUME TypeOK, NEW w \in Worker, NEW j \in Job,
           \/ ContextFails(w, j) \/ ProviderPauses(w, j) \/ HoldSigned(w, j)
           \/ VoidApplyFails(w, j) \/ Finish(w, j)
    PROVE  Closes(w, j)
<1>1. CASE ContextFails(w, j) \/ ProviderPauses(w, j) \/ HoldSigned(w, j)
  <2>1. PICK s \in {"failed", "retry"}, c \in Class : Close(w, j, Verdict(s, job[j].action, c))
    BY <1>1 DEF ContextFails, ProviderPauses, HoldSigned, Class
  <2>2. execution[w].job = j /\ execution[w].pc \in {"started", "cleared"}
    BY <1>1 DEF ContextFails, ProviderPauses, HoldSigned, MayEmit, Ready, At
  <2>. QED
    BY <2>1, <2>2, ShapeOfClose DEF Closes, Verdict
<1>2. CASE VoidApplyFails(w, j)
  <2>1. /\ Close(w, j, Verdict("failed", job[j].action, "terminal"))
        /\ Kind[j] = "void" /\ execution[w].job = j /\ execution[w].pc = "stored"
    BY <1>2 DEF VoidApplyFails, Annuls, At
  <2>. QED
    BY <2>1, ShapeOfClose DEF Closes, Verdict
<1>3. CASE Finish(w, j)
  <2>1. PICK v \in Verdicts(w, j) : Close(w, j, v)
    BY <1>3 DEF Finish
  <2>2. execution[w].job = j /\ execution[w].pc = "stored"
    BY <1>3 DEF Finish, At
  <2>. QED
    BY <2>1, <2>2, ShapeOfClose, VerdictFacts DEF Closes
<1>. QED
  BY <1>1, <1>2, <1>3

\* Every step does one of these to the row of j.
LEMMA RowSteps ==
    ASSUME TypeOK, [Next]_vars, NEW j \in Job
    PROVE  \/ Kept(j) \/ Shifts(j)
           \/ \E w \in Worker, t \in Token : Claim(w, j, t)
           \/ \E w \in Worker :
                 StartAttempt(w, j) \/ TransitionUncertain(w, j) \/ Closes(w, j)
           \/ \E c \in Client :
                 Create(c, j) \/ Requeue(c, j) \/ (Kind[j] = "note" /\ Reopen(c, j))
           \/ RecoverExpired(j) \/ ReconcilePending(j)
<1>. job[j] \in Row
  BY DEF TypeOK
<1>1. job'[j] = job[j] => Kept(j)
  BY DEF Kept
<1>2. CASE \E c \in Client : Abandon(c) \/ \E k \in Job : Enqueue(c, k)
  <2>1. ASSUME NEW c \in Client, NEW k \in Job, NumberNote(c, k)
        PROVE  job'[j] = job[j] \/ (k = j /\ Kind[j] = "note" /\ Reopen(c, j))
    BY <2>1, NumberFrame
  <2>. QED
    BY <1>1, <1>2, <2>1 DEF Abandon, Enqueue, Read, Create, Requeue, TypeOK
<1>3. CASE \E t \in Tenant : EnableContingency(t) \/ DisableContingency(t)
  <2>1. \/ job'[j] = job[j]
        \/ /\ job[j].status \in Waiting
           /\ \E s \in Waiting : job'[j] = [job[j] EXCEPT !.status = s]
    BY <1>3 DEF EnableContingency, DisableContingency, Waiting
  <2>. QED
    BY <1>1, <2>1 DEF Shifts, Row
<1>4. ASSUME NEW w \in Worker, Crash(w) \/ UNCHANGED vars PROVE Kept(j)
  BY <1>1, <1>4 DEF Crash, vars
<1>5. CASE UNCHANGED vars
  BY <1>1, <1>5 DEF vars
<1>6. ASSUME NEW w \in Worker, NEW k \in Job, NEW t \in Token, Claim(w, k, t), k # j
      PROVE  Kept(j)
  BY <1>1, <1>6 DEF Claim, TypeOK
<1>7. ASSUME NEW k \in Job, \/ ProviderDecides(k) \/ ConsultGuide(k)
                            \/ k # j /\ (Expire(k) \/ Maintain(k))
      PROVE  Kept(j)
  BY <1>1, <1>7 DEF Expire, Maintain, RecoverExpired, ReconcilePending, ProviderDecides,
     ConsultGuide, TypeOK
<1>8. CASE Expire(j)
  BY <1>8 DEF Expire, Kept, TypeOK, Row
<1>9. ASSUME NEW w \in Worker, NEW k \in Job, Work(w, k), k # j PROVE Kept(j)
  BY <1>1, <1>9, WorkFrame DEF OwnRow
<1>10. ASSUME NEW w \in Worker, Work(w, j), ~StartAttempt(w, j), ~TransitionUncertain(w, j),
              ~Closes(w, j)
       PROVE  Kept(j)
  <2>1. CASE BeginSend(w, j) \/ StoreResult(w, j) \/ WithdrawSend(w, j)
    <3>1. \E s : job' = [job EXCEPT ![j].snapshot = s]
      BY <2>1 DEF BeginSend, StoreResult, WithdrawSend
    <3>. QED
      BY <3>1 DEF Kept, TypeOK, Row
  <2>2. CASE \/ Sign(w, j) \/ SignDone(w, j) \/ SignFails(w, j) \/ Clear(w, j)
             \/ BeginConsult(w, j) \/ ResumeVoid(w, j) \/ Post(w, j) \/ NotPosted(w, j)
             \/ Answer(w, j) \/ ApplyVoid(w, j) \/ LoseLease(w, j)
    BY <1>1, <2>2 DEF Sign, SignDone, SignFails, Clear, BeginConsult, ResumeVoid, Post,
       NotPosted, Answer, ApplyVoid, LoseLease
  <2>. QED
    BY <1>10, <2>1, <2>2, Closings DEF Work
<1>. QED
  BY <1>2, <1>3, <1>4, <1>5, <1>6, <1>7, <1>8, <1>9, <1>10 DEF Next, Maintain

-----------------------------------------------------------------------------
(* What a step does to a thread, to the document and at the provider *)

Final == {"accepted", "rejected"}

LEMMA ThreadSteps ==
    ASSUME TypeOK, [Next]_vars, NEW j \in Job, NEW w \in Worker,
           execution'[w].job = j
    PROVE  \/ execution'[w] = execution[w]
           \/ Work(w, j) /\ execution[w].job = j
                         /\ execution'[w].token = execution[w].token
           \/ /\ \E t \in Token : Claim(w, j, t)
              /\ execution'[w].pc = "claimed" /\ execution'[w].outcome = "none"
<1>. Idle.job # j
  BY ConstantsAssumption DEF Idle
<1>1. ASSUME NEW v \in Worker, NEW k \in Job, Work(v, k)
      PROVE  \/ execution'[w] = execution[w]
             \/ Work(w, j) /\ execution[w].job = j
                           /\ execution'[w].token = execution[w].token
  BY <1>1, WorkFrame DEF OwnThread
<1>2. ASSUME NEW v \in Worker, Crash(v) PROVE execution'[w] = execution[w]
  BY <1>2 DEF Crash, Stop, TypeOK
<1>3. ASSUME NEW v \in Worker, NEW k \in Job, NEW t \in Token, Claim(v, k, t)
      PROVE  \/ execution'[w] = execution[w]
             \/ /\ Claim(w, j, t)
                /\ execution'[w].pc = "claimed" /\ execution'[w].outcome = "none"
  BY <1>3 DEF Claim, TypeOK
<1>. QED
  BY <1>1, <1>2, <1>3, CoordinatorQuiet DEF Next

\* The places of a thread that goes on with its job.
LEMMA Moves ==
    ASSUME TypeOK, NEW j \in Job, NEW w \in Worker, Work(w, j), execution'[w].job = j
    PROVE  /\ execution[w].pc = "claimed" => StartAttempt(w, j)
           /\ execution[w].pc = "stored" => execution'[w] = execution[w]
           /\ execution'[w].pc # "claimed"
           /\ execution'[w].pc = "signing" => Sign(w, j)
           /\ execution'[w].pc = "cleared" => Clear(w, j)
           /\ execution'[w].pc = "sending" => BeginSend(w, j)
           /\ execution'[w].pc = "posted" => Post(w, j)
           /\ execution'[w].pc = "stored" =>
                 \/ execution'[w] = execution[w]
                 \/ /\ StoreResult(w, j) \/ WithdrawSend(w, j) \/ ResumeVoid(w, j)
                    /\ execution'[w].outcome = execution[w].outcome
           /\ \/ execution'[w].outcome \notin Final
              \/ execution'[w].outcome = execution[w].outcome
              \/ Answer(w, j) /\ execution'[w].outcome = provider[j].fate
<1>. Idle.job # j
  BY ConstantsAssumption DEF Idle
<1>1. ~( \/ ContextFails(w, j) \/ ProviderPauses(w, j) \/ HoldSigned(w, j)
         \/ VoidApplyFails(w, j) \/ Finish(w, j) \/ LoseLease(w, j))
  <2>1. \A v : ~Close(w, j, v)
    BY DEF Close, Stop, TypeOK
  <2>. QED
    BY <2>1 DEF ContextFails, ProviderPauses, HoldSigned, VoidApplyFails, Finish,
                LoseLease, Stop, TypeOK
<1>2. CASE TransitionUncertain(w, j) \/ ApplyVoid(w, j)
  BY <1>2 DEF TransitionUncertain, ApplyVoid, At
<1>3. CASE \/ StartAttempt(w, j) \/ Sign(w, j) \/ SignDone(w, j) \/ Clear(w, j)
           \/ BeginSend(w, j) \/ BeginConsult(w, j) \/ ResumeVoid(w, j)
           \/ Post(w, j) \/ StoreResult(w, j) \/ WithdrawSend(w, j)
  <2>1. PICK pc \in PC :
           /\ Goto(w, pc)
           /\ \/ pc = "started" /\ (StartAttempt(w, j) \/ SignDone(w, j))
              \/ pc = "signing" /\ Sign(w, j)
              \/ pc = "cleared" /\ Clear(w, j)
              \/ pc = "sending" /\ BeginSend(w, j)
              \/ pc = "consulting" /\ BeginConsult(w, j)
              \/ pc = "posted" /\ Post(w, j)
              \/ pc = "stored" /\ (StoreResult(w, j) \/ WithdrawSend(w, j) \/ ResumeVoid(w, j))
    BY <1>3 DEF StartAttempt, Sign, SignDone, Clear, BeginSend, BeginConsult,
                ResumeVoid, Post, StoreResult, WithdrawSend, PC
  <2>2. execution'[w].pc = pc /\ execution'[w].outcome = execution[w].outcome
    BY <2>1 DEF Goto, TypeOK, Execution
  <2>3. /\ execution[w].pc = "claimed" => StartAttempt(w, j)
        /\ execution[w].pc # "stored"
    BY <1>3 DEF StartAttempt, Sign, SignDone, Clear, BeginSend, BeginConsult,
                ResumeVoid, Post, StoreResult, WithdrawSend, MayEmit, Ready, At
  <2>. QED
    BY <2>1, <2>2, <2>3
<1>4. CASE SignFails(w, j) \/ NotPosted(w, j) \/ Answer(w, j)
  <2>1. PICK o \in Outcome :
           Answered(w, o) /\ (o \in Final => Answer(w, j) /\ o = provider[j].fate)
    BY <1>4 DEF SignFails, NotPosted, Answer, Answers, Outcome, Final
  <2>2. execution'[w].pc = "answered" /\ execution'[w].outcome = o
    BY <2>1 DEF Answered, TypeOK, Execution
  <2>3. execution[w].pc \notin {"claimed", "stored"}
    BY <1>4 DEF SignFails, NotPosted, Answer, At
  <2>. QED
    BY <2>1, <2>2, <2>3
<1>. QED
  BY <1>1, <1>2, <1>3, <1>4 DEF Work

LEMMA DocumentSteps ==
    ASSUME TypeOK, [Next]_vars, NEW j \in Job
    PROVE  \/ document'[j] = document[j]
           \/ \E w \in Worker : SignDone(w, j) \/ StoreResult(w, j) \/ ApplyVoid(w, j)
           \/ Kind[j] = "note" /\ \E c \in Client : Number(c, j) \/ Reopen(c, j)
           \/ Kind[j] = "guide" /\ ConsultGuide(j)
<1>1. ASSUME NEW w \in Worker, NEW k \in Job, Work(w, k)
      PROVE  \/ document'[j] = document[j]
             \/ SignDone(w, j) \/ StoreResult(w, j) \/ ApplyVoid(w, j)
  <2>1. CASE SignDone(w, k) \/ StoreResult(w, k) \/ ApplyVoid(w, k)
    BY <2>1 DEF SignDone, StoreResult, ApplyVoid, TypeOK
  <2>2. ASSUME \E v : Close(w, k, v) PROVE document' = document
    BY <2>2 DEF Close
  <2>. QED
    BY <1>1, <2>1, <2>2
    DEF Work, ContextFails, ProviderPauses, HoldSigned, VoidApplyFails, Finish,
        StartAttempt, TransitionUncertain, Sign, SignFails, Clear, BeginSend,
        BeginConsult, ResumeVoid, Post, NotPosted, Answer, WithdrawSend, LoseLease
<1>2. ASSUME NEW c \in Client, NEW k \in Job, NumberNote(c, k)
      PROVE  \/ document'[j] = document[j]
             \/ Kind[j] = "note" /\ (Number(c, j) \/ Reopen(c, j))
  <2>1. CASE k # j
    BY <1>2, <2>1, NumberFrame
  <2>2. CASE k = j
    BY <1>2, <2>2 DEF NumberNote, Load, LookUp
  <2>. QED
    BY <2>1, <2>2
<1>3. ASSUME NEW k \in Job, ConsultGuide(k)
      PROVE  document'[j] = document[j] \/ (Kind[j] = "guide" /\ ConsultGuide(j))
  BY <1>3 DEF ConsultGuide, TypeOK
<1>. QED
  BY <1>1, <1>2, <1>3 DEF Next, vars, Enqueue, Abandon, Read, Create, Requeue,
     EnableContingency, DisableContingency, Crash, Claim, Expire, Maintain, RecoverExpired,
     ReconcilePending, ProviderDecides

\* What an answer does to the document.
LEMMA ResultFacts ==
    ASSUME NEW d \in Document, NEW o \in Outcome, NEW k \in Kinds
    PROVE  LET r == Result(d, o, k)
           IN  /\ r.signed = d.signed /\ r.other = d.other
               /\ \/ r.state \in {d.state, "uncertain"}
                  \/ r.state = o /\ o \in Final
               /\ d.state = "accepted" /\ k # "guide" => r = d
               /\ d.state = "rejected" /\ k \in Sale \cup {"void"} => r = d
               /\ k \in {"note", "void"} /\ d.state # "rejected" => r.state # "rejected"
               /\ d.state # "accepted" /\ d.applied = 0
                    => r.applied = IF r.state = "accepted" THEN 1 ELSE 0
               /\ k = "guide" /\ o = "accepted" => r.state = "accepted"
               /\ k = "guide" /\ r.state = "uncertain" /\ d.state # "uncertain"
                    => o = "pending"
<1>. /\ d.state \in DocumentState /\ d.applied \in 0..2 /\ d.signed \in BOOLEAN
     /\ d = [state |-> d.state, applied |-> d.applied, signed |-> d.signed,
             other |-> d.other]
  BY DEF Document
<1>0. /\ Accepted(d).state = "accepted" /\ Accepted(d).signed = d.signed
      /\ Accepted(d).other = d.other
      /\ d.applied = 0 => Accepted(d).applied = 1
      /\ \A s : /\ [d EXCEPT !.state = s].state = s
                /\ [d EXCEPT !.state = s].signed = d.signed
                /\ [d EXCEPT !.state = s].applied = d.applied
                /\ [d EXCEPT !.state = s].other = d.other
  BY DEF Accepted, Document
<1>2. CASE k \in Sale
  <2>1. Result(d, o, k) = SaleResult(d, o)
    BY <1>2 DEF Result, Sale
  <2>. QED
    BY <1>0, <1>2, <2>1 DEF SaleResult, Final, Sale
<1>3. CASE k = "note"
  <2>1. Result(d, o, k) = NoteResult(d, o)
    BY <1>3 DEF Result, Sale
  <2>. QED
    BY <1>0, <1>3, <2>1 DEF NoteResult, Final, Sale
<1>4. CASE k = "guide"
  <2>1. Result(d, o, k) = GuideResult(d, o)
    BY <1>4 DEF Result, Sale
  <2>. QED
    BY <1>0, <1>4, <2>1 DEF GuideResult, Sale, Final
<1>5. CASE k = "void"
  BY <1>5 DEF Result, Sale
<1>. QED
  BY <1>2, <1>3, <1>4, <1>5 DEF Kinds, Sale

\* What a request that numbers a note, or goes on with it, writes.
LEMMA NumberWrites ==
    ASSUME TypeOK, NEW j \in Job, NEW c \in Client, Number(c, j)
    PROVE  /\ document'[j].signed = document[j].signed
           /\ document'[j].applied = document[j].applied
           /\ document'[j].state \in {"pending", "uncertain"}
           /\ document'[j].other = IF document[j].state = "draft"
                                  THEN document[j].other ELSE "renumbering"
           /\ UNCHANGED <<job, provider, execution>>
<1>1. document'[j] = [document[j] EXCEPT
                        !.state = IF @ = "uncertain" THEN @ ELSE "pending",
                        !.other = IF document[j].state = "draft" THEN @ ELSE "renumbering"]
  BY DEF Number, TypeOK
<1>. QED
  BY <1>1 DEF Number, TypeOK, Document

LEMMA ReopenWrites ==
    ASSUME TypeOK, NEW j \in Job, NEW c \in Client, Reopen(c, j)
    PROVE  /\ document'[j].signed = document[j].signed
           /\ document'[j].applied = document[j].applied
           /\ document'[j].state = document[j].state
           /\ document'[j].other = IF document[j].other = "renumbering"
                                  THEN "renumbering" ELSE "reopening"
           /\ UNCHANGED <<provider, execution>>
<1>1. document'[j] = [document[j] EXCEPT
                        !.other = IF @ = "renumbering" THEN @ ELSE "reopening"]
  BY DEF Reopen, TypeOK
<1>. QED
  BY <1>1 DEF Reopen, TypeOK, Document

LEMMA ConsultWrites ==
    ASSUME TypeOK, NEW j \in Job, ConsultGuide(j)
    PROVE  /\ document'[j].signed = document[j].signed
           /\ \/ document'[j].state \in {document[j].state, "uncertain"}
              \/ document'[j].state = provider[j].fate
           /\ document'[j].other = "consultation"
           /\ UNCHANGED <<job, provider, execution>>
<1>1. PICK o \in Answers(j) \cap {"accepted", "rejected", "pending"} :
         document'[j] = [GuideResult(document[j], o) EXCEPT !.other = "consultation"]
  BY DEF ConsultGuide, TypeOK
<1>2. /\ GuideResult(document[j], o) = Result(document[j], o, "guide")
      /\ document[j] \in Document /\ o \in Outcome /\ "guide" \in Kinds
  BY DEF Result, Sale, TypeOK, Outcome, Kinds
<1>3. o \in Final => o = provider[j].fate
  BY DEF Answers, Final
<1>4. GuideResult(document[j], o) \in Document
  BY <1>2, ResultIsDocument
<1>. QED
  BY <1>1, <1>2, <1>3, <1>4, ResultFacts DEF ConsultGuide, Document

\* Who else wrote a document is never forgotten.
LEMMA OtherSteps ==
    ASSUME TypeOK, [Next]_vars, NEW j \in Job
    PROVE  \/ document'[j].other = document[j].other
           \/ /\ Kind[j] = "note" /\ Unlocked(j)'
              /\ Renumbered(j) => Renumbered(j)'
           \/ Kind[j] = "guide" /\ document'[j].other = "consultation"
<1>1. ASSUME NEW w \in Worker, SignDone(w, j) \/ StoreResult(w, j) \/ ApplyVoid(w, j)
      PROVE  document'[j].other = document[j].other
  <2>1. CASE SignDone(w, j)
    BY <2>1 DEF SignDone, TypeOK, Document
  <2>2. CASE ApplyVoid(w, j)
    BY <2>2 DEF ApplyVoid, Accepted, TypeOK, Document
  <2>3. CASE StoreResult(w, j)
    <3>1. /\ document'[j] = Result(document[j], execution[w].outcome, Kind[j])
          /\ document[j] \in Document /\ execution[w].outcome \in Outcome /\ Kind[j] \in Kinds
      BY <2>3, ConstantsAssumption DEF StoreResult, TypeOK, Execution
    <3>. QED
      BY <3>1, ResultFacts
  <2>. QED
    BY <1>1, <2>1, <2>2, <2>3
<1>. QED
  BY <1>1, DocumentSteps, NumberWrites, ReopenWrites, ConsultWrites DEF Unlocked, Renumbered

\* A constancy is final unless the note gets another number, and only a
\* submission gives a document a fate.
LEMMA FateSteps ==
    ASSUME TypeOK, [Next]_vars, NEW j \in Job
    PROVE  /\ provider[j].fate \in Final /\ ~Renumbered(j)
                 => provider'[j].fate = provider[j].fate
           /\ \/ provider[j].fate # "none" \/ provider'[j].fate = "none"
              \/ \E w \in Worker : Post(w, j)
           /\ provider[j].posts > 0 => provider'[j].posts > 0
<1>1. ASSUME NEW w \in Worker, NEW k \in Job, Work(w, k)
      PROVE  \/ provider'[j] = provider[j] \/ Post(w, j)
  <2>1. ASSUME \E v : Close(w, k, v) PROVE provider' = provider
    BY <2>1 DEF Close
  <2>2. CASE Post(w, k)
    BY <2>2 DEF Post, TypeOK
  <2>. QED
    BY <1>1, <2>1, <2>2
    DEF Work, ContextFails, ProviderPauses, HoldSigned, VoidApplyFails, Finish,
        StartAttempt, TransitionUncertain, Sign, SignDone, SignFails, Clear, BeginSend,
        BeginConsult, ResumeVoid, NotPosted, Answer, StoreResult, WithdrawSend,
        ApplyVoid, LoseLease
<1>2. ASSUME NEW w \in Worker, Post(w, j)
      PROVE  /\ provider[j].fate \in Final /\ ~Renumbered(j)
                   => provider'[j].fate = provider[j].fate
             /\ provider'[j].posts > 0
  BY <1>2 DEF Post, TypeOK, Provider, Final
<1>3. ASSUME NEW k \in Job, ProviderDecides(k)
      PROVE  \/ provider'[j] = provider[j]
             \/ /\ provider[j].fate = "processing"
                /\ provider'[j].posts = provider[j].posts
  BY <1>3 DEF ProviderDecides, TypeOK, Provider
<1>4. \/ \E w \in Worker, k \in Job : Work(w, k)
      \/ \E k \in Job : ProviderDecides(k)
      \/ provider' = provider
  BY NumberFrame DEF Next, vars, Enqueue, Abandon, Read, Create, Requeue, EnableContingency,
     DisableContingency, Crash, Claim, Expire, Maintain, RecoverExpired, ReconcilePending,
     ConsultGuide
<1>. QED
  BY <1>1, <1>2, <1>3, <1>4 DEF Final

LEMMA MarksKeep ==
    ASSUME NEW s \in Snapshot, NEW k \in Kinds
    PROVE  /\ Marked(s, k).version = s.version /\ Marked(s, k).result = s.result
           /\ uncertain(s).version = s.version /\ uncertain(s).result = s.result
           /\ mark_not_submitted(s).version = s.version
           /\ mark_not_submitted(s).result = s.result
<1>1. CASE k = "invoice"
  BY <1>1 DEF Marked, mark_possible, uncertain, mark_not_submitted, Snapshot
<1>2. CASE k = "void"
  BY <1>2 DEF Marked, mark_possible, uncertain, mark_not_submitted, Snapshot
<1>3. CASE k \notin {"invoice", "void"}
  BY <1>3 DEF Marked, mark_possible, uncertain, mark_not_submitted, Snapshot
<1>. QED
  BY <1>1, <1>2, <1>3

\* Of the snapshot, the version never changes and the constancy of a batch is
\* only ever written with an answer.
LEMMA SnapshotSteps ==
    ASSUME TypeOK, [Next]_vars, NEW j \in Job
    PROVE  /\ job'[j].snapshot.version = job[j].snapshot.version
           /\ \/ job'[j].snapshot.result = job[j].snapshot.result
              \/ \E w \in Worker : /\ At(w, j, "answered") /\ provider' = provider
                                   /\ execution[w].outcome \in Final
                                   /\ job'[j].snapshot.result = execution[w].outcome
<1>. job[j].snapshot \in Snapshot /\ Kind[j] \in Kinds
  BY ConstantsAssumption DEF TypeOK, Row
<1>0. ASSUME NEW s, job' = [job EXCEPT ![j].snapshot = s] PROVE job'[j].snapshot = s
  BY <1>0 DEF TypeOK, Row
<1>1. CASE \E w \in Worker : StoreResult(w, j)
  <2>1. PICK w \in Worker : StoreResult(w, j)
    BY <1>1
  <2>2. job'[j].snapshot = Evidence(job[j].snapshot, execution[w].outcome, Kind[j])
    BY <2>1 DEF StoreResult, TypeOK, Row
  <2>. QED
    BY <2>1, <2>2 DEF StoreResult, Evidence, Snapshot, Final
<1>2. ASSUME NEW w \in Worker, BeginSend(w, j) \/ TransitionUncertain(w, j) \/ WithdrawSend(w, j)
      PROVE  /\ job'[j].snapshot.version = job[j].snapshot.version
             /\ job'[j].snapshot.result = job[j].snapshot.result
  <2>1. job'[j].snapshot \in {Marked(job[j].snapshot, Kind[j]), uncertain(job[j].snapshot),
                              mark_not_submitted(job[j].snapshot)}
    BY <1>2 DEF BeginSend, TransitionUncertain, WithdrawSend, TypeOK, Row
  <2>. QED
    BY <2>1, MarksKeep
<1>3. ASSUME NEW w \in Worker, NEW k \in Job, Work(w, k), ~StoreResult(w, j),
             ~BeginSend(w, j), ~TransitionUncertain(w, j), ~WithdrawSend(w, j)
      PROVE  job'[j].snapshot = job[j].snapshot
  <2>1. CASE k # j
    BY <1>3, <2>1, WorkFrame DEF OwnRow
  <2>2. ASSUME k = j, \E v : Close(w, k, v) PROVE job'[j].snapshot = job[j].snapshot
    BY <2>2 DEF Close, Closed, TypeOK, Row
  <2>3. CASE k = j /\ StartAttempt(w, k)
    BY <2>3 DEF StartAttempt, TypeOK, Row
  <2>. QED
    BY <1>3, <2>1, <2>2, <2>3
    DEF Work, ContextFails, ProviderPauses, HoldSigned, VoidApplyFails, Finish,
        Sign, SignDone, SignFails, Clear,
        BeginConsult, ResumeVoid, Post, NotPosted, Answer, ApplyVoid, LoseLease
<1>4. ASSUME NEW w \in Worker, NEW k \in Job, NEW t \in Token, Claim(w, k, t)
      PROVE  job'[j].snapshot = job[j].snapshot
  <2>1. job' = [job EXCEPT ![k] = [job[k] EXCEPT !.status = "processing", !.token = t,
                                                 !.live = TRUE, !.started = FALSE]]
    BY <1>4 DEF Claim, TypeOK, Row
  <2>. QED
    BY <2>1 DEF TypeOK, Row
<1>5. ASSUME NEW w \in Worker, Crash(w) PROVE job'[j].snapshot = job[j].snapshot
  BY <1>5 DEF Crash
<1>. QED
  BY <1>1, <1>2, <1>3, <1>4, <1>5, CoordinatorQuiet DEF Next

-----------------------------------------------------------------------------
(* The inductive invariant *)

\* A retry that was admitted finds its job failed, and is the only one.
RetryFinds(j) ==
    /\ \A c \in Client :
         request[c].job = j /\ request[c].found = "failed" => job[j].status = "failed"
    /\ \A c, d \in Client :
         /\ request[c].job = j /\ request[c].found = "failed"
         /\ request[d].job = j /\ request[d].found = "failed"
         => c = d

\* While a thread is in a call whose permit the snapshot does not keep, the row
\* admits no other emission: it is a consultation, it is still the row of that
\* thread, or it waits for a person.
Barred(w, j) ==
    \/ job[j].action = "consult_fiscal_document"
    \/ /\ job[j].status = "processing" /\ job[j].started
       /\ job[j].token = execution[w].token
    \/ job[j].status = "pending_confirmation" /\ Kind[j] \in {"note", "guide"}

CallOf(j) ==
    /\ \A v, w \in Worker : InCall(v, j) /\ InCall(w, j) => v = w
    /\ IF j \in Fenced
       THEN \A w \in Worker : At(w, j, "posted") => provider[j].posts > 0
       ELSE \A w \in Worker : InCall(w, j) => Barred(w, j)

\* Every place that holds a constancy holds the one of the provider.
TruthOf(j) ==
    /\ document[j].state \in Final => provider[j].fate = document[j].state
    /\ \A w \in Worker :
         execution[w].job = j /\ execution[w].outcome \in Final
         => provider[j].fate = execution[w].outcome
    /\ job[j].snapshot.result # "none" => provider[j].fate = job[j].snapshot.result
    /\ Kind[j] \in {"note", "void"} => document[j].state # "rejected"

AppliedOf(j) ==
    document[j].applied = IF document[j].state = "accepted" THEN 1 ELSE 0

\* The thread stored the answer o and has the job left to close.
Stored(w, j, o) == At(w, j, "stored") /\ execution[w].outcome = o

\* With o stored, no thread of the row has an answer to store any more.
Settled(j, o) ==
    \/ job[j].status = "pending_confirmation"
    \/ o = "accepted" /\ job[j].status = "succeeded"
    \/ /\ job[j].status = "processing" /\ job[j].started
       /\ \A w \in Worker :
            execution[w].job = j /\ execution[w].token = job[j].token => Stored(w, j, o)

\* Nothing in the document stops a second acceptance of a guide: its row does,
\* until the consultation answers too; and the consultation is asked for only
\* once the row is in doubt.
GuideOf(j) ==
    /\ \A w \in Worker : Stored(w, j, "accepted") =>
         document[j].state = "accepted" /\ document[j].other = "none"
    /\ document[j].state = "accepted" /\ document[j].other = "none" => Settled(j, "accepted")
    /\ document[j].state = "uncertain" \/ document[j].other = "consultation"
         => Settled(j, "pending")

\* Who else can have written the document of each kind.
OtherOf(j) ==
    document[j].other \in
        CASE Kind[j] = "note"  -> {"none", "reopening", "renumbering"}
          [] Kind[j] = "guide" -> {"none", "consultation"}
          [] OTHER             -> {"none"}

SucceededOf(j) == job[j].status = "succeeded" => document[j].state = "accepted"

\* What SUNAT knows of an enrolled invoice had been signed before.
SignedOf(j) ==
    /\ \A w \in Worker :
         At(w, j, "signing") => Recoverable(j) /\ job[j].snapshot.version = VERSION
    /\ Recoverable(j) /\ job[j].snapshot.version = VERSION /\ ~document[j].signed =>
         /\ provider[j].fate = "none"
         /\ \A w \in Worker : ~At(w, j, "cleared") /\ ~At(w, j, "sending")

\* What an unlocked request takes from a note is not asked for.
VerdictOf(j) ==
    /\ OtherOf(j) /\ StartedOf(j) /\ SignedOf(j)
    /\ ~Unlocked(j) => RetryFinds(j) /\ CallOf(j)
    /\ ~Renumbered(j) => TruthOf(j) /\ SucceededOf(j)
    /\ document[j].other \in {"none", "reopening"} => AppliedOf(j)
    /\ Kind[j] = "guide" => GuideOf(j)

VerdictInv == \A j \in Job : VerdictOf(j)

LEMMA VerdictInit == Init => VerdictInv
<1>. SUFFICES ASSUME Init, NEW j \in Job PROVE VerdictOf(j)
  BY DEF VerdictInv
<1>0. /\ \A w \in Worker : execution[w].job # j
      /\ \A c \in Client : request[c].job # j
      /\ document[j].state \in {"draft", "pending"}
      /\ document[j].applied = 0 /\ document[j].other = "none"
  BY ConstantsAssumption DEF Init, Idle, NoRequest
<1>1. /\ OtherOf(j) /\ RetryFinds(j) /\ StartedOf(j) /\ CallOf(j) /\ AppliedOf(j)
      /\ Kind[j] = "guide" => GuideOf(j)
  BY <1>0 DEF OtherOf, RetryFinds, StartedOf, CallOf, InCall, At, AppliedOf, GuideOf, Stored
<1>2. CASE job[j].status # "absent"
  <2>1. job[j] \in LegacyRow(j)
    BY <1>2 DEF Init, FirstRow, NewRow
  <2>2. PICK old \in [status : {"queued", "retry", "pending_confirmation"},
                      retrySigned : BOOLEAN, history : {"none", "doubt"}] :
           job[j] = [NewRow(j, old.status, [PlainSnapshot EXCEPT !.retrySigned = old.retrySigned])
                       EXCEPT !.history = old.history]
    BY <2>1 DEF LegacyRow
  <2>3. /\ job[j].status # "succeeded"
        /\ job[j].snapshot.version = 0 /\ job[j].snapshot.result = "none"
    BY <2>2 DEF NewRow, PlainSnapshot
  <2>. QED
    BY <1>0, <1>1, <2>3
    DEF VerdictOf, TruthOf, SucceededOf, SignedOf, VERSION, Final, At
<1>3. CASE job[j].status = "absent"
  <2>1. provider[j].fate = "none"
    BY <1>3 DEF Init
  <2>2. job[j] = NewRow(j, "absent", InitialSnapshot(j))
    <3>1. \A row \in LegacyRow(j) : row.status # "absent"
      BY DEF LegacyRow, NewRow
    <3>2. job[j] \in {NewRow(j, "absent", InitialSnapshot(j))} \cup LegacyRow(j)
      BY DEF Init, FirstRow
    <3>. QED
      BY <1>3, <3>1, <3>2
  <2>3. job[j].snapshot.result = "none"
    BY <2>2 DEF NewRow, InitialSnapshot, PlainSnapshot, initial_state, prepare_snapshot
  <2>. QED
    BY <1>0, <1>1, <1>3, <2>1, <2>3
    DEF VerdictOf, TruthOf, SucceededOf, SignedOf, Final, At
<1>. QED
  BY <1>2, <1>3

-----------------------------------------------------------------------------
(* The invariant is inductive *)

LEMMA RequestSteps ==
    ASSUME TypeOK, [Next]_vars, NEW j \in Job, NEW c \in Client,
           request'[c].job = j, request'[c].found = "failed"
    PROVE  \/ request'[c] = request[c] /\ ~Requeue(c, j)
           \/ Read(c, j) /\ job[j].status = "failed"
<1>. NoRequest.job # j
  BY ConstantsAssumption DEF NoRequest
<1>1. ASSUME NEW d \in Client, NEW k \in Job, Read(d, k)
      PROVE  request'[c] = request[c] \/ (Read(c, j) /\ job[j].status = "failed")
  BY <1>1 DEF Read, TypeOK
<1>2. ASSUME NEW d \in Client, \/ Abandon(d)
                               \/ \E k \in Job : Create(d, k) \/ Requeue(d, k)
      PROVE  request'[c] = request[c]
  BY <1>2 DEF Abandon, Create, Requeue, TypeOK
<1>3. ASSUME NEW w \in Worker, NEW k \in Job, Work(w, k) PROVE request' = request
  BY <1>3, WorkFrame
<1>4. ASSUME NEW d \in Client, NEW k \in Job, NumberNote(d, k) PROVE request'[c] = request[c]
  BY <1>4, NumberFrame
<1>5. request'[c] = request[c] \/ (Read(c, j) /\ job[j].status = "failed")
  BY <1>1, <1>2, <1>3, <1>4 DEF Next, vars, Enqueue, EnableContingency, DisableContingency,
     Crash, Claim, Expire, Maintain, RecoverExpired, ReconcilePending, ProviderDecides,
     ConsultGuide
<1>6. ~Requeue(c, j)
  BY DEF Requeue, TypeOK
<1>. QED
  BY <1>5, <1>6

LEMMA RetryNext ==
    ASSUME TypeOK, [Next]_vars, NEW j \in Job, RetryFinds(j), ~Unlocked(j)'
    PROVE  RetryFinds(j)'
<1>1. ASSUME NEW c \in Client, request'[c].job = j, request'[c].found = "failed"
      PROVE  job'[j].status = "failed"
  <2>1. CASE Read(c, j) /\ job[j].status = "failed"
    BY <2>1 DEF Read
  <2>2. CASE request'[c] = request[c] /\ ~Requeue(c, j)
    <3>1. job[j].status = "failed"
      BY <1>1, <2>2 DEF RetryFinds
    <3>2. \A d \in Client : ~Create(d, j) /\ ~Requeue(d, j)
      BY <1>1, <2>2, <3>1 DEF Create, Requeue, RetryFinds
    <3>3. \A d \in Client : ~Reopen(d, j)
      BY ReopenWrites DEF Unlocked
    <3>. QED
      BY <3>1, <3>2, <3>3, RowSteps
      DEF Kept, Shifts, Waiting, Claim, StartAttempt, TransitionUncertain, Closes, Owns,
          RecoverExpired, ReconcilePending
  <2>. QED
    BY <1>1, <2>1, <2>2, RequestSteps
<1>2. ASSUME NEW c \in Client, NEW d \in Client,
             request'[c].job = j, request'[c].found = "failed",
             request'[d].job = j, request'[d].found = "failed"
      PROVE  c = d
  <2>1. ASSUME NEW e \in Client, NEW f \in Client, e # f, Read(e, j),
               job[j].status = "failed", request'[f].job = j, request'[f].found = "failed"
        PROVE  FALSE
    BY <2>1 DEF Read, Locked, TypeOK
  <2>. QED
    BY <1>2, <2>1, RequestSteps DEF RetryFinds
<1>. QED
  BY <1>1, <1>2 DEF RetryFinds

LEMMA Reopens ==
    ASSUME TypeOK, NEW j \in Job, NEW c \in Client,
           Create(c, j) \/ Requeue(c, j) \/ Reopen(c, j)
    PROVE  /\ job'[j].status \in {"queued", "contingency_pending"}
           /\ job'[j].action = job[j].action
           /\ UNCHANGED <<provider, execution>>
<1>1. request[c].target \in {"queued", "contingency_pending"}
  BY DEF TypeOK, Request
<1>2. CASE Create(c, j)
  BY <1>1, <1>2 DEF Create, TypeOK, Row
<1>3. CASE Requeue(c, j)
  BY <1>1, <1>3 DEF Requeue, TypeOK, Row
<1>4. CASE Reopen(c, j)
  BY <1>1, <1>4 DEF Reopen, TypeOK, Row
<1>. QED
  BY <1>2, <1>3, <1>4

\* A row changes hands only through a claim, and only the owner closes it.
LEMMA StartedNext ==
    ASSUME TypeOK, TokensDiffer, [Next]_vars, NEW j \in Job, StartedOf(j)
    PROVE  StartedOf(j)'
<1>. SUFFICES ASSUME NEW w \in Worker, execution'[w].job = j, Owns(w, j)',
                     execution'[w].pc # "claimed"
              PROVE  job'[j].started
  BY DEF StartedOf
<1>1. /\ execution[w].job = j /\ execution'[w].token = execution[w].token
      /\ execution[w].pc # "claimed" \/ StartAttempt(w, j)
  BY ThreadSteps, Moves
<1>2. job'[j].status = "processing" /\ job'[j].live
      /\ job'[j].token = execution[w].token
  BY <1>1 DEF Owns
<1>3. ASSUME NEW v \in Worker, StartAttempt(v, j) PROVE job'[j].started
  BY <1>3 DEF StartAttempt, TypeOK, Row
<1>4. CASE Kept(j)
  BY <1>1, <1>2, <1>3, <1>4 DEF Kept, StartedOf, Owns
<1>5. ASSUME NEW v \in Worker, NEW t \in Token, Claim(v, j, t) PROVE FALSE
  BY <1>1, <1>2, <1>5 DEF Claim, Fresh, TypeOK, Row
<1>6. ASSUME NEW v \in Worker, TransitionUncertain(v, j) PROVE Kept(j) \/ job'[j].started
  <2>1. /\ job'[j].status = job[j].status /\ job'[j].token = job[j].token
        /\ job'[j].live = job[j].live /\ job'[j].started = job[j].started
    BY <1>6 DEF TransitionUncertain, TypeOK, Row
  <2>2. ~StartAttempt(w, j)
    BY <1>6, <2>1 DEF TransitionUncertain, StartAttempt, At, Goto, TypeOK, Execution
  <2>. QED
    BY <1>1, <1>2, <2>1, <2>2 DEF StartedOf, Owns
<1>7. ~ \E c \in Client : Create(c, j) \/ Requeue(c, j) \/ Reopen(c, j)
  BY <1>2, Reopens
<1>8. ~RecoverExpired(j) /\ ~ReconcilePending(j)
  BY <1>2 DEF RecoverExpired, RecoveredStatus, ReconcilePending, TypeOK, Row
<1>. QED
  BY <1>2, <1>3, <1>4, <1>5, <1>6, <1>7, <1>8, RowSteps DEF Shifts, Waiting, Closes

LEMMA CallNext ==
    ASSUME TypeOK, TokensDiffer, FenceInv, [Next]_vars, NEW j \in Job,
           RetryFinds(j), StartedOf(j), CallOf(j), ~Unlocked(j)'
    PROVE  CallOf(j)'
<1>1. ASSUME NEW w \in Worker, InCall(w, j)'
      PROVE  /\ execution'[w].token = execution[w].token
             /\ BeginSend(w, j) \/ (InCall(w, j) /\ ~BeginSend(w, j))
  BY <1>1, ThreadSteps, Moves DEF InCall, Post, BeginSend, MayEmit, Ready, At
<1>2. ASSUME NEW w \in Worker, BeginSend(w, j)
      PROVE  /\ \/ j \in Fenced
                \/ execution[w].job = j /\ Owns(w, j) /\ job[j].action = EmitAction(j)
             /\ execution[w].pc \in {"started", "cleared"}
             /\ j \in Fenced => IsOpen(j)
             /\ OwnThread(w, j)
  BY <1>2, WorkFrame DEF BeginSend, Recoverable, Fenced, MayEmit, Ready, At, IsOpen, Work
<1>3. ASSUME NEW w \in Worker, BeginSend(w, j), NEW v \in Worker, InCall(v, j)
      PROVE  FALSE
  <2>1. CASE j \in Fenced
    <3>1. Holds(v, j) \/ provider[j].posts > 0
      BY <1>3, <2>1 DEF CallOf, InCall, Holds, At
    <3>. QED
      BY <1>2, <1>3, <2>1, <3>1 DEF FenceInv, FenceOf
  <2>2. CASE j \notin Fenced
    <3>1. /\ Owns(w, j) /\ execution[w].job = j /\ Barred(v, j)
          /\ job[j].action # "consult_fiscal_document"
      BY <1>2, <1>3, <2>2, ConstantsAssumption
      DEF CallOf, BeginSend, Recoverable, Fenced, MayEmit, Ready, At, EmitAction, Kinds, Sale
    <3>2. execution[v].token = execution[w].token
      BY <3>1 DEF Barred, Owns
    <3>. QED
      BY <1>2, <1>3, <3>1, <3>2 DEF TokensDiffer, InCall
  <2>. QED
    BY <2>1, <2>2
<1>4. ASSUME NEW v \in Worker, NEW w \in Worker, InCall(v, j)', InCall(w, j)' PROVE v = w
  <2>1. CASE InCall(v, j) /\ InCall(w, j)
    BY <2>1 DEF CallOf
  <2>2. CASE BeginSend(v, j) /\ BeginSend(w, j)
    BY <1>2, <1>4, <2>2 DEF OwnThread, InCall
  <2>. QED
    BY <1>1, <1>3, <1>4, <2>1, <2>2
<1>5. ASSUME j \in Fenced, NEW w \in Worker, At(w, j, "posted")'
      PROVE  provider'[j].posts > 0
  <2>1. At(w, j, "posted") \/ Post(w, j)
    BY <1>5, ThreadSteps, Moves DEF At
  <2>2. CASE Post(w, j)
    BY <2>2 DEF Post, TypeOK, Provider
  <2>. QED
    BY <1>5, <2>1, <2>2, FateSteps DEF CallOf
<1>6. ASSUME j \notin Fenced, NEW w \in Worker, InCall(w, j)' PROVE Barred(w, j)'
  <2>. Kind[j] \in {"boleta", "note", "guide"}
    BY <1>6, ConstantsAssumption DEF Fenced, Kinds
  <2>1. CASE BeginSend(w, j)
    <3>1. /\ job[j].status = "processing" /\ job[j].token = execution[w].token
          /\ job[j].started
      BY <1>2, <1>6, <2>1 DEF StartedOf, Owns
    <3>2. /\ job'[j].status = job[j].status /\ job'[j].token = job[j].token
          /\ job'[j].started = job[j].started
      BY <2>1 DEF BeginSend, TypeOK, Row
    <3>. QED
      BY <1>1, <1>6, <3>1, <3>2 DEF Barred
  <2>2. CASE InCall(w, j)
    <3>. Barred(w, j) /\ execution'[w].token = execution[w].token
      BY <1>1, <1>6, <2>2 DEF CallOf
    <3>1. CASE Kept(j)
      BY <3>1 DEF Kept, Barred
    <3>2. CASE Shifts(j)
      BY <3>2 DEF Shifts, Waiting, Barred
    <3>3. ASSUME NEW v \in Worker, NEW t \in Token, Claim(v, j, t) PROVE Barred(w, j)'
      BY <3>3 DEF Claim, Barred, TypeOK, Row
    <3>4. ASSUME NEW v \in Worker, StartAttempt(v, j) PROVE Barred(w, j)'
      BY <3>4 DEF StartAttempt, Barred, TypeOK, Row
    <3>5. ~ \E v \in Worker : TransitionUncertain(v, j)
      BY DEF TransitionUncertain, MustConsult
    <3>6. ASSUME NEW v \in Worker, Closes(v, j) PROVE Barred(w, j)'
      <4>1. job[j].action = "consult_fiscal_document" => Barred(w, j)'
        BY <3>6 DEF Closes, Barred
      <4>2. v # w /\ execution[v].job = j /\ Owns(v, j)
        BY <2>2, <3>6 DEF Closes, InCall
      <4>3. execution[v].token # execution[w].token
        BY <4>2 DEF TokensDiffer
      <4>. QED
        BY <4>1, <4>2, <4>3 DEF Barred, Owns
    <3>7. ASSUME NEW c \in Client, Create(c, j) \/ Requeue(c, j) PROVE Barred(w, j)'
      <4>1. job[j].status \in {"absent", "failed"}
        BY <3>7 DEF Create, Requeue, RetryFinds
      <4>. QED
        BY <3>7, <4>1, Reopens DEF Barred
    <3>8. CASE RecoverExpired(j)
      <4>1. /\ job'[j].status = RecoveredStatus(job[j], Kind[j])
            /\ job'[j].action = RecoveredAction(job[j], Kind[j])
            /\ job[j].status = "processing"
        BY <3>8 DEF RecoverExpired, TypeOK, Row
      <4>. QED
        BY <4>1 DEF Barred, RecoveredStatus, RecoveredAction, RequiresConsult, Sale
    <3>9. CASE ReconcilePending(j)
      BY <3>9 DEF ReconcilePending, Barred, Sale, TypeOK, Row
    <3>10. \A c \in Client : ~Reopen(c, j)
      BY ReopenWrites DEF Unlocked
    <3>. QED
      BY <3>1, <3>2, <3>3, <3>4, <3>5, <3>6, <3>7, <3>8, <3>9, <3>10, RowSteps
  <2>. QED
    BY <1>1, <1>6, <2>1, <2>2
<1>. QED
  BY <1>4, <1>5, <1>6 DEF CallOf, Fenced

\* What a stored answer leaves, given that it is the answer of the provider.
LEMMA StoredFacts ==
    ASSUME TypeOK, NEW j \in Job, NEW w \in Worker, StoreResult(w, j), TruthOf(j)
    PROVE  /\ document'[j] = Result(document[j], execution[w].outcome, Kind[j])
           /\ document[j] \in Document /\ execution[w].outcome \in Outcome
           /\ Kind[j] \in Kinds /\ provider' = provider
           /\ execution[w].outcome \in Final => provider[j].fate = execution[w].outcome
BY ConstantsAssumption DEF StoreResult, TypeOK, Execution, TruthOf, At

LEMMA TruthNext ==
    ASSUME TypeOK, [Next]_vars, NEW j \in Job, TruthOf(j), ~Renumbered(j), ~Renumbered(j)'
    PROVE  TruthOf(j)'
<1>1. /\ document'[j].state \in Final => provider'[j].fate = document'[j].state
      /\ Kind[j] \in {"note", "void"} => document'[j].state # "rejected"
  <2>1. CASE document'[j] = document[j]
    BY <2>1, FateSteps DEF TruthOf
  <2>2. ASSUME NEW w \in Worker, SignDone(w, j)
        PROVE  document'[j].state = document[j].state /\ provider' = provider
    BY <2>2 DEF SignDone, TypeOK, Document
  <2>3. ASSUME NEW w \in Worker, StoreResult(w, j)
        PROVE  /\ document'[j].state \in Final => provider'[j].fate = document'[j].state
               /\ Kind[j] \in {"note", "void"} => document'[j].state # "rejected"
    BY <2>3, StoredFacts, ResultFacts DEF TruthOf, Final
  <2>4. ASSUME NEW w \in Worker, ApplyVoid(w, j)
        PROVE  /\ document'[j].state = "accepted" /\ provider' = provider
               /\ provider[j].fate = "accepted"
    <3>1. document'[j].state = "accepted" /\ provider' = provider
      BY <2>4 DEF ApplyVoid, Accepted, TypeOK, Document
    <3>. QED
      BY <2>4, <3>1 DEF ApplyVoid, Annuls, TruthOf
  <2>5. ASSUME NEW c \in Client, Number(c, j) \/ Reopen(c, j)
        PROVE  /\ document'[j].state \in Final => document'[j].state = document[j].state
               /\ provider' = provider
    BY <2>5, NumberWrites, ReopenWrites DEF Final
  <2>6. ASSUME ConsultGuide(j), Kind[j] = "guide"
        PROVE  document'[j].state \in Final => provider'[j].fate = document'[j].state
    BY <2>6, ConsultWrites DEF TruthOf, Final
  <2>. QED
    BY <2>1, <2>2, <2>3, <2>4, <2>5, <2>6, DocumentSteps DEF TruthOf, Final
<1>2. ASSUME NEW w \in Worker, execution'[w].job = j, execution'[w].outcome \in Final
      PROVE  provider'[j].fate = execution'[w].outcome
  <2>1. CASE execution[w].job = j /\ execution'[w].outcome = execution[w].outcome
    BY <1>2, <2>1, FateSteps DEF TruthOf
  <2>2. CASE Answer(w, j) /\ execution'[w].outcome = provider[j].fate
    BY <2>2 DEF Answer
  <2>. QED
    BY <1>2, <2>1, <2>2, ThreadSteps, Moves DEF Final
<1>3. job'[j].snapshot.result # "none" => provider'[j].fate = job'[j].snapshot.result
  <2>1. job[j].snapshot.result \in BatchEvidence
    BY DEF TypeOK, Row, Snapshot
  <2>2. CASE job'[j].snapshot.result = job[j].snapshot.result
    BY <2>1, <2>2, FateSteps DEF TruthOf, BatchEvidence, Final
  <2>3. ASSUME NEW w \in Worker, At(w, j, "answered"), provider' = provider,
               execution[w].outcome \in Final,
               job'[j].snapshot.result = execution[w].outcome
        PROVE  provider'[j].fate = job'[j].snapshot.result
    BY <2>3 DEF TruthOf, At
  <2>. QED
    BY <2>2, <2>3, SnapshotSteps
<1>. QED
  BY <1>1, <1>2, <1>3 DEF TruthOf

LEMMA SignedNext ==
    ASSUME TypeOK, [Next]_vars, NEW j \in Job, SignedOf(j)
    PROVE  SignedOf(j)'
<1>. DEFINE Bare == /\ Recoverable(j) /\ job[j].snapshot.version = VERSION
                    /\ ~document[j].signed
<1>1. ASSUME NEW w \in Worker, At(w, j, "signing")'
      PROVE  Recoverable(j)' /\ job'[j].snapshot.version = VERSION
  <2>1. At(w, j, "signing") \/ Sign(w, j)
    BY <1>1, ThreadSteps, Moves DEF At
  <2>2. CASE Sign(w, j)
    BY <2>2, SnapshotSteps
    DEF Sign, MayEmit, Ready, MustConsult, EmitAction, Recoverable, Sale, can_submit
  <2>. QED
    BY <2>1, <2>2, SnapshotSteps DEF SignedOf, Recoverable
<1>2. document[j].signed => document'[j].signed
  <2>1. ASSUME NEW w \in Worker, StoreResult(w, j) PROVE document'[j].signed = document[j].signed
    <3>1. /\ document'[j] = Result(document[j], execution[w].outcome, Kind[j])
          /\ document[j] \in Document /\ execution[w].outcome \in Outcome /\ Kind[j] \in Kinds
      BY <2>1, ConstantsAssumption DEF StoreResult, TypeOK, Execution
    <3>. QED
      BY <3>1, ResultFacts
  <2>2. ASSUME NEW w \in Worker, SignDone(w, j) PROVE document'[j].signed
    BY <2>2 DEF SignDone, TypeOK, Document
  <2>3. ASSUME NEW w \in Worker, ApplyVoid(w, j) PROVE document'[j].signed = document[j].signed
    BY <2>3 DEF ApplyVoid, Accepted, TypeOK, Document
  <2>. QED
    BY <2>1, <2>2, <2>3, DocumentSteps, NumberWrites, ReopenWrites, ConsultWrites
<1>3. Bare' => Bare
  BY <1>2, SnapshotSteps DEF Recoverable
<1>4. ASSUME Bare, NEW w \in Worker PROVE ~At(w, j, "cleared")' /\ ~At(w, j, "sending")'
  <2>1. At(w, j, "cleared")' => At(w, j, "cleared") \/ Clear(w, j)
    BY ThreadSteps, Moves DEF At
  <2>2. At(w, j, "sending")' => At(w, j, "sending") \/ BeginSend(w, j)
    BY ThreadSteps, Moves DEF At
  <2>. QED
    BY <1>4, <2>1, <2>2 DEF SignedOf, Clear, BeginSend
<1>5. ASSUME Bare PROVE provider'[j].fate = "none"
  BY <1>5, FateSteps DEF SignedOf, Post
<1>. QED
  BY <1>1, <1>3, <1>4, <1>5 DEF SignedOf

\* With an answer of a guide settled, none is stored any more.
LEMMA SettledStoresNone ==
    ASSUME NEW j \in Job, NEW o, Settled(j, o), NEW w \in Worker
    PROVE  ~StoreResult(w, j)
BY DEF Settled, StoreResult, Stored, At, Owns

\* The row of a guide whose answer is settled is never processed again.
LEMMA SettledNext ==
    ASSUME TypeOK, [Next]_vars, NEW j \in Job, Kind[j] = "guide", RetryFinds(j),
           NEW o \in {"accepted", "pending"}, Settled(j, o)
    PROVE  Settled(j, o)'
<1>1. CASE Kept(j)
  <2>1. \A w \in Worker, t \in Token : ~Claim(w, j, t)
    BY DEF Claim, Settled
  <2>2. ASSUME NEW w \in Worker, execution'[w].job = j,
               execution'[w].token = job[j].token, job[j].status = "processing"
        PROVE  Stored(w, j, o)'
    BY <2>1, <2>2, ThreadSteps, Moves DEF Settled, Stored, At
  <2>. QED
    BY <1>1, <2>2 DEF Kept, Settled
<1>2. ~Shifts(j) /\ \A w \in Worker, t \in Token : ~Claim(w, j, t)
  BY DEF Shifts, Waiting, Claim, Settled
<1>3. \A w \in Worker : ~StartAttempt(w, j) /\ ~TransitionUncertain(w, j)
  BY DEF StartAttempt, TransitionUncertain, MustConsult, At, Owns, Settled
<1>4. ASSUME NEW w \in Worker, Closes(w, j) PROVE Settled(j, o)'
  BY <1>4 DEF Closes, Owns, Settled, Stored, At
<1>5. \A c \in Client : ~Create(c, j) /\ ~Requeue(c, j)
  BY DEF Create, Requeue, RetryFinds, Settled
<1>6. ASSUME RecoverExpired(j) PROVE Settled(j, o)'
  <2>1. /\ job[j].status = "processing"
        /\ job'[j].status = RecoveredStatus(job[j], Kind[j])
    BY <1>6 DEF RecoverExpired, TypeOK, Row
  <2>. QED
    BY <2>1 DEF RecoveredStatus, Settled, Sale
<1>7. ~ReconcilePending(j)
  BY DEF ReconcilePending, Sale
<1>. QED
  BY <1>1, <1>2, <1>3, <1>4, <1>5, <1>6, <1>7, RowSteps

\* Storing an answer settles it: the thread that stored it has the only token.
LEMMA StoreSettles ==
    ASSUME TypeOK, TokensDiffer, NEW j \in Job, StartedOf(j), NEW w \in Worker,
           StoreResult(w, j), NEW o, execution[w].outcome = o
    PROVE  Settled(j, o)'
<1>1. /\ At(w, j, "answered") /\ Owns(w, j)
      /\ execution'[w].pc = "stored" /\ execution'[w].job = j
      /\ execution'[w].outcome = execution[w].outcome
      /\ \A v \in Worker \ {w} : execution'[v] = execution[v]
  BY DEF StoreResult, At, Goto, TypeOK, Execution
<1>2. /\ job'[j].status = job[j].status /\ job'[j].started = job[j].started
      /\ job'[j].token = job[j].token
  BY DEF StoreResult, TypeOK, Row
<1>3. job[j].started /\ job[j].status = "processing"
  BY <1>1 DEF StartedOf, Owns, At
<1>4. ASSUME NEW v \in Worker \ {w}, execution[v].job = j
      PROVE  execution[v].token # job[j].token
  BY <1>1, <1>4 DEF TokensDiffer, Owns, At
<1>. QED
  BY <1>1, <1>2, <1>3, <1>4 DEF Settled, Stored, At

\* An accepted guide that nobody consulted stays as it is.
LEMMA AcceptedGuideStays ==
    ASSUME TypeOK, [Next]_vars, NEW j \in Job, Kind[j] = "guide", GuideOf(j),
           document[j].state = "accepted", document[j].other = "none"
    PROVE  /\ document'[j].state = "accepted" /\ document'[j].other = "none"
           /\ document'[j].applied = document[j].applied
<1>1. \A w \in Worker : ~StoreResult(w, j) /\ ~ApplyVoid(w, j)
  BY SettledStoresNone DEF GuideOf, ApplyVoid
<1>2. ~ConsultGuide(j)
  BY DEF ConsultGuide
<1>3. ASSUME NEW w \in Worker, SignDone(w, j)
      PROVE  /\ document'[j].state = document[j].state
             /\ document'[j].applied = document[j].applied
             /\ document'[j].other = document[j].other
  BY <1>3 DEF SignDone, TypeOK, Document
<1>. QED
  BY <1>1, <1>2, <1>3, DocumentSteps

\* An accepted document stays accepted, and its effects as they are, until a
\* note gets another number or a guide is consulted.
LEMMA AcceptedStays ==
    ASSUME TypeOK, [Next]_vars, NEW j \in Job, VerdictOf(j),
           document[j].state = "accepted", document'[j].other \in {"none", "reopening"}
    PROVE  /\ document'[j].state = "accepted"
           /\ document'[j].applied = document[j].applied
<1>1. CASE Kind[j] = "guide"
  <2>1. document[j].other = "none"
    BY <1>1, OtherSteps DEF VerdictOf, OtherOf
  <2>. QED
    BY <1>1, <2>1, AcceptedGuideStays DEF VerdictOf
<1>2. CASE Kind[j] # "guide"
  <2>1. ASSUME NEW w \in Worker, SignDone(w, j)
        PROVE  /\ document'[j].state = document[j].state
               /\ document'[j].applied = document[j].applied
    BY <2>1 DEF SignDone, TypeOK, Document
  <2>2. ASSUME NEW w \in Worker, StoreResult(w, j) PROVE document'[j] = document[j]
    <3>1. /\ document'[j] = Result(document[j], execution[w].outcome, Kind[j])
          /\ document[j] \in Document /\ execution[w].outcome \in Outcome /\ Kind[j] \in Kinds
      BY <2>2, ConstantsAssumption DEF StoreResult, TypeOK, Execution
    <3>. QED
      BY <1>2, <3>1, ResultFacts
  <2>3. ASSUME NEW w \in Worker PROVE ~ApplyVoid(w, j)
    BY DEF ApplyVoid
  <2>4. \A c \in Client : ~Number(c, j)
    BY NumberWrites
  <2>. QED
    BY <1>2, <2>1, <2>2, <2>3, <2>4, DocumentSteps, ReopenWrites
<1>. QED
  BY <1>1, <1>2

\* An accepted or rejected sale and an annulment never change.
LEMMA SaleStays ==
    ASSUME TypeOK, [Next]_vars, NEW j \in Job, VerdictOf(j),
           Kind[j] \in Sale \cup {"void"}, document[j].state \in Final
    PROVE  document'[j] = document[j]
<1>. Kind[j] \notin {"note", "guide"}
  BY DEF Sale
<1>0. TruthOf(j)
  BY DEF VerdictOf, OtherOf, Renumbered
<1>1. ASSUME NEW w \in Worker, SignDone(w, j) PROVE document'[j] = document[j]
  <2>1. document[j].signed
    BY <1>0, <1>1 DEF VerdictOf, TruthOf, SignedOf, SignDone, Final, TypeOK, Document
  <2>. QED
    BY <1>1, <2>1 DEF SignDone, TypeOK, Document
<1>2. ASSUME NEW w \in Worker, StoreResult(w, j) PROVE document'[j] = document[j]
  BY <1>0, <1>2, StoredFacts, ResultFacts DEF Final
<1>3. ASSUME NEW w \in Worker PROVE ~ApplyVoid(w, j)
  BY <1>0 DEF ApplyVoid, Annuls, TruthOf, Final
<1>. QED
  BY <1>1, <1>2, <1>3, DocumentSteps

LEMMA OtherNext ==
    ASSUME TypeOK, [Next]_vars, NEW j \in Job, OtherOf(j)
    PROVE  OtherOf(j)'
BY OtherSteps DEF OtherOf, Unlocked

LEMMA AppliedNext ==
    ASSUME TypeOK, [Next]_vars, NEW j \in Job, VerdictOf(j),
           document'[j].other \in {"none", "reopening"}
    PROVE  AppliedOf(j)'
<1>0. document[j].other \in {"none", "reopening"} /\ ~Renumbered(j)
  BY OtherSteps DEF VerdictOf, OtherOf, Renumbered
<1>1. CASE document[j].state = "accepted"
  BY <1>0, <1>1, AcceptedStays DEF VerdictOf, AppliedOf
<1>2. CASE document[j].state # "accepted"
  <2>. document[j].applied = 0 /\ TruthOf(j)
    BY <1>0, <1>2 DEF VerdictOf, AppliedOf
  <2>1. ASSUME NEW w \in Worker, SignDone(w, j)
        PROVE  document'[j].state = document[j].state /\ document'[j].applied = 0
    BY <2>1 DEF SignDone, TypeOK, Document
  <2>2. ASSUME NEW w \in Worker, StoreResult(w, j) PROVE AppliedOf(j)'
    BY <1>2, <2>2, StoredFacts, ResultFacts DEF AppliedOf
  <2>3. ASSUME NEW w \in Worker, ApplyVoid(w, j) PROVE AppliedOf(j)'
    BY <2>3 DEF ApplyVoid, Accepted, AppliedOf, TypeOK, Document
  <2>4. ASSUME NEW c \in Client, Number(c, j) \/ Reopen(c, j) PROVE AppliedOf(j)'
    BY <1>2, <2>4, NumberWrites, ReopenWrites DEF AppliedOf
  <2>5. ~ConsultGuide(j)
    BY ConsultWrites
  <2>. QED
    BY <1>2, <2>1, <2>2, <2>3, <2>4, <2>5, DocumentSteps DEF AppliedOf
<1>. QED
  BY <1>1, <1>2

LEMMA GuideNext ==
    ASSUME TypeOK, TokensDiffer, [Next]_vars, NEW j \in Job, VerdictOf(j),
           Kind[j] = "guide"
    PROVE  GuideOf(j)'
<1>. /\ GuideOf(j) /\ RetryFinds(j) /\ StartedOf(j) /\ TruthOf(j)
     /\ document[j].other \in {"none", "consultation"}
  BY DEF VerdictOf, OtherOf, Unlocked, Renumbered
<1>. DEFINE Accepting == document[j].state = "accepted" /\ document[j].other = "none"
            Asked == document[j].state = "uncertain" \/ document[j].other = "consultation"
<1>0. ASSUME NEW w \in Worker, StoreResult(w, j)
      PROVE  /\ document[j].other = "none" /\ document'[j].other = "none"
             /\ ~Accepting /\ ~Asked
             /\ document'[j] = Result(document[j], execution[w].outcome, "guide")
             /\ document[j] \in Document /\ execution[w].outcome \in Outcome
             /\ "guide" \in Kinds
  <2>1. ~Accepting /\ ~Asked
    BY <1>0, SettledStoresNone DEF GuideOf
  <2>. QED
    BY <1>0, <2>1, StoredFacts, ResultFacts
<1>1. ASSUME NEW w \in Worker, SignDone(w, j)
      PROVE  /\ document'[j].state = document[j].state
             /\ document'[j].other = document[j].other
  BY <1>1 DEF SignDone, TypeOK, Document
<1>2. ASSUME NEW w \in Worker PROVE ~ApplyVoid(w, j)
  BY DEF ApplyVoid, Annuls
<1>3. ASSUME NEW w \in Worker, Stored(w, j, "accepted")' PROVE Accepting'
  <2>1. CASE execution'[w] = execution[w]
    BY <1>3, <2>1, AcceptedGuideStays DEF GuideOf, Stored, At
  <2>2. CASE /\ StoreResult(w, j) \/ WithdrawSend(w, j) \/ ResumeVoid(w, j)
             /\ execution'[w].outcome = execution[w].outcome
    <3>1. StoreResult(w, j) /\ execution[w].outcome = "accepted"
      BY <1>3, <2>2 DEF Stored, WithdrawSend, ResumeVoid
    <3>. QED
      BY <1>0, <3>1, ResultFacts
  <2>. QED
    BY <1>3, <2>1, <2>2, ThreadSteps, Moves DEF Stored, At
<1>4. ASSUME Accepting' PROVE Settled(j, "accepted")'
  <2>1. CASE Accepting
    BY <2>1, SettledNext DEF GuideOf
  <2>2. CASE ~Accepting
    <3>1. PICK w \in Worker : StoreResult(w, j)
      BY <1>1, <1>2, <1>4, <2>2, DocumentSteps, ConsultWrites
    <3>2. execution[w].outcome = "accepted"
      BY <1>0, <1>4, <3>1, ResultFacts DEF Final
    <3>. QED
      BY <3>1, <3>2, StoreSettles
  <2>. QED
    BY <2>1, <2>2
<1>5. ASSUME Asked' PROVE Settled(j, "pending")'
  <2>1. CASE Asked
    BY <2>1, SettledNext DEF GuideOf
  <2>2. CASE ~Asked
    <3>1. PICK w \in Worker : StoreResult(w, j)
      BY <1>1, <1>2, <1>5, <2>2, DocumentSteps DEF ConsultGuide
    <3>2. execution[w].outcome = "pending"
      BY <1>0, <1>5, <2>2, <3>1, ResultFacts
    <3>. QED
      BY <3>1, <3>2, StoreSettles
  <2>. QED
    BY <2>1, <2>2
<1>. QED
  BY <1>3, <1>4, <1>5 DEF GuideOf

LEMMA SucceededNext ==
    ASSUME TypeOK, [Next]_vars, NEW j \in Job, VerdictOf(j), ~Renumbered(j), ~Renumbered(j)',
           OtherOf(j)', Kind[j] = "guide" => GuideOf(j)'
    PROVE  SucceededOf(j)'
<1>. SUFFICES ASSUME job'[j].status = "succeeded" PROVE document'[j].state = "accepted"
  BY DEF SucceededOf
<1>0. document'[j].other \in {"none", "reopening"}
  <2>1. document'[j].other # "consultation"
    BY DEF OtherOf, GuideOf, Settled
  <2>. QED
    BY <2>1 DEF OtherOf, Renumbered
<1>1. ASSUME document[j].state = "accepted" PROVE document'[j].state = "accepted"
  BY <1>0, <1>1, AcceptedStays
<1>2. CASE Kept(j)
  BY <1>1, <1>2 DEF Kept, VerdictOf, SucceededOf
<1>3. ASSUME NEW w \in Worker, Closes(w, j) PROVE document'[j].state = "accepted"
  BY <1>1, <1>3 DEF Closes, VerdictOf, GuideOf, Stored, At
<1>4. /\ \A w \in Worker, t \in Token : ~Claim(w, j, t)
      /\ \A w \in Worker : ~StartAttempt(w, j) /\ ~TransitionUncertain(w, j)
  <2>1. ASSUME NEW w \in Worker, StartAttempt(w, j) \/ TransitionUncertain(w, j)
        PROVE  job'[j].status = "processing"
    BY <2>1 DEF StartAttempt, TransitionUncertain, Owns, TypeOK, Row
  <2>2. ASSUME NEW w \in Worker, NEW t \in Token, Claim(w, j, t)
        PROVE  job'[j].status = "processing"
    BY <2>2 DEF Claim, TypeOK, Row
  <2>. QED
    BY <2>1, <2>2
<1>5. ~RecoverExpired(j) /\ ~ReconcilePending(j)
  BY DEF RecoverExpired, RecoveredStatus, ReconcilePending, TypeOK, Row
<1>. QED
  BY <1>2, <1>3, <1>4, <1>5, RowSteps, Reopens DEF Shifts, Waiting

LEMMA VerdictNext == TypeOK /\ TokensDiffer /\ FenceInv /\ VerdictInv /\ [Next]_vars
                     => VerdictInv'
<1>. SUFFICES ASSUME TypeOK, TokensDiffer, FenceInv, VerdictInv, [Next]_vars, NEW j \in Job
              PROVE  VerdictOf(j)'
  BY DEF VerdictInv
<1>1. VerdictOf(j)
  BY DEF VerdictInv
<1>2. OtherOf(j)' /\ StartedOf(j)' /\ SignedOf(j)'
  BY <1>1, OtherNext, StartedNext, SignedNext DEF VerdictOf
<1>3. /\ Unlocked(j) => Unlocked(j)'
      /\ Renumbered(j) => Renumbered(j)'
  BY <1>1, OtherSteps DEF VerdictOf, OtherOf, Unlocked, Renumbered
<1>4. ~Unlocked(j)' => RetryFinds(j)' /\ CallOf(j)'
  BY <1>1, <1>3, RetryNext, CallNext DEF VerdictOf
<1>5. Kind[j] = "guide" => GuideOf(j)'
  BY <1>1, GuideNext
<1>6. ~Renumbered(j)' => TruthOf(j)' /\ SucceededOf(j)'
  BY <1>1, <1>2, <1>3, <1>5, TruthNext, SucceededNext DEF VerdictOf
<1>7. document'[j].other \in {"none", "reopening"} => AppliedOf(j)'
  BY <1>1, AppliedNext
<1>. QED
  BY <1>2, <1>4, <1>5, <1>6, <1>7 DEF VerdictOf

LEMMA VerdictHolds == Spec => [](TypeOK /\ VerdictInv)
<1>1. Init => TypeOK /\ TokensDiffer /\ FenceInv /\ VerdictInv
  BY TypeInit, TokensInit, FenceInit, VerdictInit
<1>2. (TypeOK /\ TokensDiffer /\ FenceInv /\ VerdictInv) /\ [Next]_vars
      => (TypeOK /\ TokensDiffer /\ FenceInv /\ VerdictInv)'
  BY TypeNext, TokensNext, FenceNext, VerdictNext
<1>. QED
  BY <1>1, <1>2, PTL DEF Spec

-----------------------------------------------------------------------------
(* The theorems *)

\* No two threads are inside a submission of one document, even when the lease
\* of the first ended while it was waiting for the provider: the mark in the
\* snapshot keeps out the second one for invoices and cancellations, the row of
\* the queue for boletas, guides, and notes that no unlocked request went on with.
THEOREM OneCallInFlightHolds == Spec => []OneCallInFlight
<1>1. VerdictInv => OneCallInFlight
  BY DEF VerdictInv, VerdictOf, CallOf, OneCallInFlight
<1>. QED
  BY <1>1, VerdictHolds, PTL

\* No document says accepted, annulled or rejected unless the provider decided
\* so, through every lost answer, late thread and repeated consultation; a note
\* that was numbered twice is left out.
THEOREM LocalVerdictIsTrueHolds == Spec => []LocalVerdictIsTrue
<1>1. VerdictInv => LocalVerdictIsTrue
  BY DEF VerdictInv, VerdictOf, TruthOf, LocalVerdictIsTrue, Final
<1>. QED
  BY <1>1, VerdictHolds, PTL

\* An acceptance is applied once to quota, inventory and reversals, also that
\* of a guide, which nothing in the document itself protects until its
\* consultation job answers too, and of a note under its first number.
THEOREM AppliedOnceHolds == Spec => []AppliedOnce
<1>1. VerdictInv => AppliedOnce
  BY DEF VerdictInv, VerdictOf, AppliedOf, AppliedOnce
<1>. QED
  BY <1>1, VerdictHolds, PTL

\* A job is closed as succeeded only when its document was accepted, and stays
\* the job of an accepted document unless a note is numbered again.
THEOREM SucceededIsAcceptedHolds == Spec => []SucceededIsAccepted
<1>1. VerdictInv => SucceededIsAccepted
  BY DEF VerdictInv, VerdictOf, SucceededOf, SucceededIsAccepted
<1>. QED
  BY <1>1, VerdictHolds, PTL

\* Nobody writes the row of a succeeded job, but a request without a lock.
LEMMA SucceededRowStays ==
    ASSUME TypeOK, [Next]_vars, NEW j \in Job, RetryFinds(j), job[j].status = "succeeded",
           ~Unlocked(j)'
    PROVE  job'[j] = job[j]
<1>1. ASSUME NEW w \in Worker, NEW k \in Job, Work(w, k) PROVE job'[j] = job[j]
  <2>1. CASE k # j
    BY <1>1, <2>1, WorkFrame DEF OwnRow
  <2>2. CASE k = j
    <3>1. ~Owns(w, j) /\ \A v : ~Close(w, j, v)
      BY DEF Owns, Close
    <3>. QED
      BY <1>1, <2>2, <3>1
      DEF Work, ContextFails, ProviderPauses, HoldSigned, VoidApplyFails, Finish,
          StartAttempt, TransitionUncertain, Sign, SignDone, SignFails, Clear, BeginSend,
          BeginConsult, ResumeVoid, Post, NotPosted, Answer, StoreResult, WithdrawSend,
          ApplyVoid, LoseLease, MayEmit, Ready
  <2>. QED
    BY <2>1, <2>2
<1>2. CASE \E c \in Client : Abandon(c) \/ \E k \in Job : Enqueue(c, k)
  <2>1. ASSUME NEW c \in Client, NEW k \in Job, NumberNote(c, k) PROVE job'[j] = job[j]
    <3>1. k = j => ~Reopen(c, k)
      BY ReopenWrites DEF Unlocked
    <3>. QED
      BY <2>1, <3>1, NumberFrame
  <2>. QED
    BY <1>2, <2>1 DEF Abandon, Enqueue, Read, Create, Requeue, RetryFinds, TypeOK
<1>3. CASE \E t \in Tenant : EnableContingency(t) \/ DisableContingency(t)
  BY <1>3 DEF EnableContingency, DisableContingency
<1>4. CASE \E k \in Job : Expire(k) \/ Maintain(k) \/ ProviderDecides(k) \/ ConsultGuide(k)
  BY <1>4 DEF Expire, Maintain, RecoverExpired, ReconcilePending, ProviderDecides,
     ConsultGuide, TypeOK
<1>5. CASE \E w \in Worker : Crash(w) \/ \E k \in Job, t \in Token : Claim(w, k, t)
  BY <1>5 DEF Crash, Claim, TypeOK
<1>6. CASE UNCHANGED vars
  BY <1>6 DEF vars
<1>. QED
  BY <1>1, <1>2, <1>3, <1>4, <1>5, <1>6 DEF Next

\* What is settled stays settled: no late request, answer, recovery or retry
\* reopens a succeeded job, except a request without the lock of its note, and
\* none changes an accepted or rejected sale or an annulment.
THEOREM SettledStaysHolds == Spec => SettledStays
<1>. DEFINE Stays == \A j \in Job :
                       /\ job[j].status = "succeeded" /\ ~Unlocked(j)' => job'[j] = job[j]
                       /\ Kind[j] \in Sale \cup {"void"}
                            /\ document[j].state \in {"accepted", "rejected"}
                            => document'[j] = document[j]
<1>1. ASSUME TypeOK, VerdictInv, [Next]_vars, NEW j \in Job, ~Unlocked(j)'
      PROVE  RetryFinds(j)
  BY <1>1, OtherSteps DEF VerdictInv, VerdictOf, OtherOf, Unlocked, Renumbered
<1>2. TypeOK /\ VerdictInv /\ [Next]_vars => [Stays]_vars
  BY <1>1, SucceededRowStays, SaleStays DEF VerdictInv, Final
<1>. QED
  BY <1>2, VerdictHolds, PTL DEF Spec, SettledStays

=============================================================================
