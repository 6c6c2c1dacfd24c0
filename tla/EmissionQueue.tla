---------------------------- MODULE EmissionQueue ----------------------------
(***************************************************************************)
(* The durable emission queue: requests that enqueue fiscal documents, the *)
(* rows of document_emission_jobs, the worker executions that reserve them *)
(* under a lease, and the fiscal provider (Smart PSE / SUNAT).             *)
(*                                                                         *)
(* Source: backend/services/emission_leases.py, emission_queue_service.py, *)
(* void_recovery_service.py, backend/crud/emission_jobs.py and the routers *)
(* that enqueue.  An action is one database transaction or one external    *)
(* call; the points between two actions are where another process, a crash *)
(* or the end of a lease can come in.                                      *)
(*                                                                         *)
(* Time is abstracted: a live lease may expire at any moment (Expire), and *)
(* a queued or retry row may be due at any moment.                         *)
(***************************************************************************)
EXTENDS Naturals, FiniteSets, FiscalSubmissionState

CONSTANTS
    Job,          \* rows of document_emission_jobs, one per fiscal document
    Worker,       \* execution slots of every worker replica (threads)
    Client,       \* concurrent API requests that enqueue
    Tenant,
    Token,        \* values of lease_token (uuid4)
    NoJob, NoToken,
    Kind,         \* Kind[j]: the document a job is about
    TenantOf,     \* TenantOf[j]: the company that owns the job
    Enrolled,     \* tenants in FISCAL_CONTINGENCY_TENANT_IDS
    Legacy,       \* jobs that a release without submission contract may have left
    GlobalLimit,  \* EMISSION_GLOBAL_CONCURRENCY
    TenantLimit,  \* EMISSION_TENANT_CONCURRENCY
    MaxAttempts   \* EMISSION_MAX_ATTEMPTS

Kinds == {"invoice", "boleta", "note", "guide", "void"}
Sale  == {"invoice", "boleta"}

ASSUME ConstantsAssumption ==
    /\ Kind \in [Job -> Kinds]
    /\ TenantOf \in [Job -> Tenant]
    /\ Enrolled \subseteq Tenant
    /\ Legacy \subseteq {j \in Job : Kind[j] \in {"invoice", "void"}}
    /\ NoJob \notin Job
    /\ NoToken \notin Token
    /\ {GlobalLimit, TenantLimit, MaxAttempts} \subseteq Nat \ {0}

VARIABLES
    job,          \* document_emission_jobs and the latest attempt of each
    document,     \* the fiscal document a job is about
    provider,     \* what reached the provider and what became of it
    execution,    \* the worker threads
    request,      \* API requests between their read and their write
    contingency   \* tenants.fiscal_contingency_mode

vars == <<job, document, provider, execution, request, contingency>>

-----------------------------------------------------------------------------
(* Values *)

Status == {"absent", "queued", "processing", "retry", "pending_confirmation",
           "contingency_pending", "succeeded", "failed"}
Action == {"emit_fiscal_document", "consult_fiscal_document", "emit_note",
           "emit_guide", "void_fiscal_document"}
Class   == {"none", "transient", "ambiguous", "validation", "terminal"}
History == {"none", "validation", "terminal", "doubt"}

CONTINGENCY_ACTIONS == {"emit_fiscal_document", "emit_note", "emit_guide"}

\* live: being processed and lease_expires_at > now; started:
\* execution_started_at is set; left: attempts that remain, max(max_attempts -
\* attempts, 0); history: what document_emission_attempts says, "doubt" once an
\* attempt ended ambiguous or transient, otherwise the class of the latest one.
Row == [status : Status, action : Action, token : Token \cup {NoToken},
        live : BOOLEAN, started : BOOLEAN, left : 0..MaxAttempts,
        snapshot : Snapshot, history : History]

\* draft: a note without a number (borrador).  uncertain: a sale or note whose
\* provider_verification_status is pending_confirmation, a guide in
\* pendiente_smartpse.  For a void job, "accepted" means that its source
\* document is annulled.  applied counts how often the effects of acceptance
\* (quota, inventory, reversal, coverage) were applied, capped at 2.  other is
\* history: what, besides the executions of the job and the requests that hold
\* the lock of the document, wrote it or reopened its job.
DocumentState == {"draft", "pending", "uncertain", "accepted", "rejected"}
Other == {"none", "consultation", "reopening", "renumbering"}
Document == [state : DocumentState, applied : 0..2, signed : BOOLEAN, other : Other]

\* posts: submissions that left for the provider, capped at 2.
Fate == {"none", "processing", "accepted", "rejected"}
Provider == [posts : 0..2, fate : Fate]

\* What the worker makes of the provider's answer, or of the exception.
Outcome == {"none", "accepted", "rejected", "pending", "ambiguous",
            "transient", "terminal", "unverified", "not_submitted"}

PC == {"idle", "claimed", "started", "signing", "cleared", "sending",
       "posted", "consulting", "answered", "stored"}
Execution == [pc : PC, job : Job \cup {NoJob}, token : Token \cup {NoToken},
              outcome : Outcome]
Idle == [pc |-> "idle", job |-> NoJob, token |-> NoToken, outcome |-> "none"]

\* found: the status of the job.  Of a note first: a draft; then numbered, its
\* lock released by that commit; then its job, failed, to be reopened.
Request == [job : Job \cup {NoJob},
            found : {"absent", "failed", "draft", "numbered", "reopen"},
            target : {"queued", "contingency_pending"}]
NoRequest == [job |-> NoJob, found |-> "absent", target |-> "queued"]

TypeOK ==
    /\ job \in [Job -> Row]
    /\ document \in [Job -> Document]
    /\ provider \in [Job -> Provider]
    /\ execution \in [Worker -> Execution]
    /\ request \in [Client -> Request]
    /\ contingency \in [Tenant -> BOOLEAN]

-----------------------------------------------------------------------------
(* Initial state: nothing is enqueued, except rows written by a release    *)
(* that had no submission contract, whose history is unknown.  A note is a *)
(* draft (one of the v1 endpoint is born numbered and enqueued).           *)

EmitAction(j) ==
    CASE Kind[j] \in Sale    -> "emit_fiscal_document"
      [] Kind[j] = "note"    -> "emit_note"
      [] Kind[j] = "guide"   -> "emit_guide"
      [] Kind[j] = "void"    -> "void_fiscal_document"

NewRow(j, status, snapshot) ==
    [status |-> status, action |-> EmitAction(j), token |-> NoToken,
     live |-> FALSE, started |-> FALSE, left |-> MaxAttempts,
     snapshot |-> snapshot, history |-> "none"]

LegacyRow(j) ==
    {[NewRow(j, old.status, [PlainSnapshot EXCEPT !.retrySigned = old.retrySigned])
        EXCEPT !.history = old.history] :
     old \in [status : {"queued", "retry", "pending_confirmation"},
             retrySigned : BOOLEAN, history : {"none", "doubt"}]}

InitialSnapshot(j) ==
    CASE Kind[j] = "invoice" -> initial_state
      [] Kind[j] = "void"    -> prepare_snapshot
      [] OTHER               -> PlainSnapshot

FirstRow(j) ==
    {NewRow(j, "absent", InitialSnapshot(j))}
      \cup IF j \in Legacy THEN LegacyRow(j) ELSE {}

Init ==
    /\ \E earlier \in [Legacy -> UNION {FirstRow(j) : j \in Legacy}] :
          /\ \A j \in Legacy : earlier[j] \in FirstRow(j)
          /\ job = [j \in Job |-> IF j \in Legacy THEN earlier[j]
                                  ELSE NewRow(j, "absent", InitialSnapshot(j))]
    /\ document = [j \in Job |-> [state |-> IF Kind[j] = "note" THEN "draft" ELSE "pending",
                                  applied |-> 0, signed |-> FALSE, other |-> "none"]]
    /\ LET left == {j \in Job : job[j].status # "absent"}
       IN  \E fate \in [left -> Fate] :
             provider = [j \in Job |-> IF j \in left
                                       THEN [posts |-> 1, fate |-> fate[j]]
                                       ELSE [posts |-> 0, fate |-> "none"]]
    /\ execution = [w \in Worker |-> Idle]
    /\ request = [c \in Client |-> NoRequest]
    /\ contingency = [t \in Tenant |-> FALSE]

-----------------------------------------------------------------------------
(* What the actions share *)

Recoverable(j) == Kind[j] = "invoice" /\ TenantOf[j] \in Enrolled

\* An invoice without evidence that it was never submitted may only be consulted.
MustConsult(j) ==
    /\ Kind[j] = "invoice"
    /\ job[j].action = "emit_fiscal_document"
    /\ ~can_submit(job[j].snapshot)

At(w, j, pc) == execution[w].pc = pc /\ execution[w].job = j

\* Mutant: the lease is checked without the token of this execution.
Owns_AnyToken(w, j) == job[j].status = "processing" /\ job[j].live

\* emission_leases.check, inside the transaction that writes.
Owns(w, j) ==
    /\ job[j].status = "processing"
    /\ job[j].token = execution[w].token
    /\ job[j].live

\* Validated and about to work on the document.
Ready(w, j) == At(w, j, "started") /\ Owns(w, j) /\ ~MustConsult(j)

Goto(w, pc) == execution' = [execution EXCEPT ![w].pc = pc]
Answered(w, o) ==
    execution' = [execution EXCEPT ![w].pc = "answered", ![w].outcome = o]
Stop(w) == execution' = [execution EXCEPT ![w] = Idle]

Verdict(status, action, class) ==
    [status |-> status, action |-> action, class |-> class]

AddClass(history, class) ==
    IF history = "doubt" \/ class \in {"transient", "ambiguous"} THEN "doubt"
    ELSE class

\* mark_emission_job_succeeded, _retry, _failed and _pending_confirmation.
Closed(row, v) ==
    [row EXCEPT !.status = v.status, !.action = v.action, !.live = FALSE,
                !.history = AddClass(@, v.class)]

Close(w, j, v) ==
    /\ Owns(w, j)
    /\ job' = [job EXCEPT ![j] = Closed(@, v)]
    /\ Stop(w)
    /\ UNCHANGED <<document, provider, request, contingency>>

-----------------------------------------------------------------------------
(* Requests: the routers and the enqueue_ functions.  A request reads the   *)
(* row and the contingency mode of its tenant, and writes the row later.    *)

\* Void jobs ignore the contingency mode; enrolled invoices are signed first.
InitialStatus(j) ==
    IF contingency[TenantOf[j]] /\ Kind[j] # "void" /\ ~Recoverable(j)
    THEN "contingency_pending" ELSE "queued"

\* Which failed jobs the retry endpoints accept.
MayRetry(j) ==
    \/ Kind[j] \in Sale /\ document[j].state = "pending"
                        /\ job[j].history = "validation"
    \/ Kind[j] = "note" /\ document[j].state \in {"pending", "uncertain"}

\* Mutant: the retry endpoints read the document without locking it.
Read_NoLock(c, j) ==
    /\ request[c] = NoRequest
    /\ document[j].state # "draft"
    /\ job[j].status = "absent" \/ (job[j].status = "failed" /\ MayRetry(j))
    /\ request' = [request EXCEPT ![c] =
                     [job |-> j, found |-> job[j].status, target |-> InitialStatus(j)]]
    /\ UNCHANGED <<job, document, provider, execution, contingency>>

\* A retry holds the row lock of the document from its read to its commit.
Locked(j) == \E d \in Client : request[d].job = j /\ request[d].found = "failed"

\* A note that has its number is read like any document.
Read(c, j) ==
    /\ request[c] = NoRequest
    /\ document[j].state # "draft"
    /\ \/ job[j].status = "absent"
       \/ job[j].status = "failed" /\ MayRetry(j) /\ ~Locked(j)
    /\ request' = [request EXCEPT ![c] =
                     [job |-> j, found |-> job[j].status, target |-> InitialStatus(j)]]
    /\ UNCHANGED <<job, document, provider, execution, contingency>>

\* emit_note loads the note and checks feature and quota, without a lock.
Load(c, j) ==
    /\ request[c] = NoRequest
    /\ document[j].state = "draft"
    /\ request' = [request EXCEPT ![c] =
                     [job |-> j, found |-> "draft", target |-> InitialStatus(j)]]
    /\ UNCHANGED <<job, document, provider, execution, contingency>>

\* assign_number_for_emission locks source and note but reads the draft it had
\* loaded: it numbers the note, again if another request did, and writes
\* estado = pendiente over whatever the note had become.  Its commit releases
\* the lock.
Number(c, j) ==
    /\ request[c].job = j /\ request[c].found = "draft"
    /\ ~Locked(j)
    /\ document' = [document EXCEPT
                      ![j].state = IF @ = "uncertain" THEN @ ELSE "pending",
                      ![j].other = IF document[j].state = "draft" THEN @ ELSE "renumbering"]
    /\ request' = [request EXCEPT ![c].found = "numbered"]
    /\ UNCHANGED <<job, provider, execution, contingency>>

\* enqueue_note_job looks for the job by its key; one that is neither absent
\* nor failed is returned as it is (Abandon).
LookUp(c, j) ==
    /\ request[c].job = j /\ request[c].found = "numbered"
    /\ job[j].status \in {"absent", "failed"}
    /\ request' = [request EXCEPT
                     ![c].found  = IF job[j].status = "absent" THEN "absent" ELSE "reopen",
                     ![c].target = InitialStatus(j)]
    /\ UNCHANGED <<job, document, provider, execution, contingency>>

\* requeue_emission_job does not look at the status again, and this request has
\* no lock: the job may have been requeued, and be in a call, by now.
Reopen(c, j) ==
    /\ request[c].job = j /\ request[c].found = "reopen"
    /\ job' = [job EXCEPT ![j].status = request[c].target]
    /\ document' = [document EXCEPT ![j].other = IF @ = "renumbering" THEN @ ELSE "reopening"]
    /\ request' = [request EXCEPT ![c] = NoRequest]
    /\ UNCHANGED <<provider, execution, contingency>>

\* The unique key (tenant, idempotency_key) lets one creation through.
Create(c, j) ==
    /\ request[c].job = j /\ request[c].found = "absent"
    /\ job[j].status = "absent"
    /\ job' = [job EXCEPT ![j].status = request[c].target]
    /\ request' = [request EXCEPT ![c] = NoRequest]
    /\ UNCHANGED <<document, provider, execution, contingency>>

\* requeue_emission_job keeps the action and, for sales, the snapshot; a note's
\* snapshot holds nothing the worker decides on.
Requeue(c, j) ==
    /\ request[c].job = j /\ request[c].found = "failed"
    /\ job' = [job EXCEPT ![j].status = request[c].target,
                          ![j].left = IF Kind[j] \in Sale /\ @ = 0 THEN 1 ELSE @]
    /\ request' = [request EXCEPT ![c] = NoRequest]
    /\ UNCHANGED <<document, provider, execution, contingency>>

\* An IntegrityError, an exception or the end of the API process.
Abandon(c) ==
    /\ request[c] # NoRequest
    /\ request' = [request EXCEPT ![c] = NoRequest]
    /\ UNCHANGED <<job, document, provider, execution, contingency>>

EnableContingency(t) ==
    /\ contingency' = [contingency EXCEPT ![t] = TRUE]
    /\ job' = [j \in Job |->
                 IF /\ TenantOf[j] = t
                    /\ job[j].action \in CONTINGENCY_ACTIONS
                    /\ job[j].status \in {"queued", "retry"}
                 THEN [job[j] EXCEPT !.status = "contingency_pending"] ELSE job[j]]
    /\ UNCHANGED <<document, provider, execution, request>>

DisableContingency(t) ==
    /\ contingency' = [contingency EXCEPT ![t] = FALSE]
    /\ job' = [j \in Job |->
                 IF /\ TenantOf[j] = t
                    /\ job[j].action \in CONTINGENCY_ACTIONS
                    /\ job[j].status = "contingency_pending"
                 THEN [job[j] EXCEPT !.status = "queued"] ELSE job[j]]
    /\ UNCHANGED <<document, provider, execution, request>>

-----------------------------------------------------------------------------
(* Leases *)

Processing == {j \in Job : job[j].status = "processing"}

Fresh(t) ==
    /\ \A j \in Processing : job[j].token # t
    /\ \A w \in Worker : execution[w].token # t

\* The advisory lock of claim makes the count and the reservation one step.
\* Reservations whose lease expired count until they are recovered.
Claim(w, j, t) ==
    /\ execution[w] = Idle
    /\ job[j].status \in {"queued", "retry"}
    /\ Cardinality(Processing) < GlobalLimit
    /\ Cardinality({k \in Processing : TenantOf[k] = TenantOf[j]}) < TenantLimit
    /\ Fresh(t)
    /\ job' = [job EXCEPT ![j].status = "processing", ![j].token = t,
                          ![j].live = TRUE, ![j].started = FALSE]
    /\ execution' = [execution EXCEPT ![w] =
                       [pc |-> "claimed", job |-> j, token |-> t, outcome |-> "none"]]
    /\ UNCHANGED <<document, provider, request, contingency>>

\* The heartbeats stopped, or came too late.
Expire(j) ==
    /\ job[j].status = "processing" /\ job[j].live
    /\ job' = [job EXCEPT ![j].live = FALSE]
    /\ UNCHANGED <<document, provider, execution, request, contingency>>

\* Mutant: a boleta whose execution had started is emitted again.
RequiresConsult_IgnoresStart(row, kind) ==
    IF kind = "boleta" THEN row.token = NoToken /\ row.history # "none"
    ELSE ~can_submit(row.snapshot)

\* requires_fiscal_consult for the row of a sale whose reservation is taken back.
RequiresConsult(row, kind) ==
    IF kind = "boleta"
    THEN row.started \/ (row.token = NoToken /\ row.history # "none")
    ELSE ~can_submit(row.snapshot)

RecoveredAction(row, kind) ==
    IF kind \in Sale /\ RequiresConsult(row, kind)
    THEN "consult_fiscal_document" ELSE row.action

\* Mutant: every expired reservation goes back to the queue.
RecoveredStatus_AlwaysRetry(row, kind) == "retry"

RecoveredStatus(row, kind) ==
    IF \/ kind \in Sale
       \/ kind = "void" /\ row.snapshot.version = VERSION
       \/ ~row.started
    THEN "retry" ELSE "pending_confirmation"

\* Mutant: a reservation that never started is not taken back.
RecoverExpired_StartedOnly(j) ==
    /\ job[j].status = "processing" /\ ~job[j].live /\ job[j].started
    /\ job' = [job EXCEPT ![j].status = RecoveredStatus(job[j], Kind[j]),
                          ![j].action = RecoveredAction(job[j], Kind[j]),
                          ![j].history = "doubt"]
    /\ UNCHANGED <<document, provider, execution, request, contingency>>

\* The recovered and attempts statements of recover_coordinator.
RecoverExpired(j) ==
    LET row    == job[j]
        action == RecoveredAction(row, Kind[j])
        status == RecoveredStatus(row, Kind[j])
        class  == IF status = "pending_confirmation"
                     \/ action = "consult_fiscal_document"
                  THEN "ambiguous" ELSE "transient"
    IN /\ row.status = "processing" /\ ~row.live
       /\ job' = [job EXCEPT ![j].status = status, ![j].action = action,
                             ![j].history = IF row.started THEN AddClass(@, class)
                                            ELSE @]
       /\ UNCHANGED <<document, provider, execution, request, contingency>>

\* Mutant: the reconciliation takes only jobs that already are consultations.
ReconcilePending_ConsultsOnly(j) ==
    /\ Kind[j] \in Sale
    /\ job[j].status = "pending_confirmation"
    /\ job[j].action = "consult_fiscal_document"
    /\ job' = [job EXCEPT ![j].status = "retry"]
    /\ UNCHANGED <<document, provider, execution, request, contingency>>

\* The reconciled statement: sales only, whatever made them wait.
ReconcilePending(j) ==
    /\ Kind[j] \in Sale
    /\ job[j].status = "pending_confirmation"
    /\ job' = [job EXCEPT ![j].status = "retry",
                          ![j].action = IF Kind[j] = "invoice"
                                           /\ can_submit(job[j].snapshot)
                                        THEN @ ELSE "consult_fiscal_document"]
    /\ UNCHANGED <<document, provider, execution, request, contingency>>

\* LeaseLost: whatever the worker meant to write is rolled back.
LoseLease(w, j) ==
    /\ execution[w].job = j
    /\ execution[w].pc \in {"claimed", "started", "signing", "cleared",
                            "answered", "stored"}
    /\ ~Owns(w, j) \/ (execution[w].pc = "claimed" /\ job[j].started)
    /\ Stop(w)
    /\ UNCHANGED <<job, document, provider, request, contingency>>

\* The thread or its process is gone.
Crash(w) ==
    /\ execution[w] # Idle
    /\ Stop(w)
    /\ UNCHANGED <<job, document, provider, request, contingency>>

-----------------------------------------------------------------------------
(* An execution, up to the provider *)

\* Mutant: the attempts of a job are spent without a limit.
StartAttempt_NoFloor(w, j) ==
    /\ At(w, j, "claimed") /\ Owns(w, j)
    /\ ~job[j].started
    /\ job' = [job EXCEPT ![j].started = TRUE, ![j].left = @ - 1]
    /\ Goto(w, "started")
    /\ UNCHANGED <<document, provider, request, contingency>>

StartAttempt(w, j) ==
    /\ At(w, j, "claimed") /\ Owns(w, j)
    /\ ~job[j].started
    /\ job' = [job EXCEPT ![j].started = TRUE,
                          ![j].left = IF @ = 0 THEN 0 ELSE @ - 1]
    /\ Goto(w, "started")
    /\ UNCHANGED <<document, provider, request, contingency>>

TransitionUncertain(w, j) ==
    /\ At(w, j, "started") /\ Owns(w, j)
    /\ MustConsult(j)
    /\ job' = [job EXCEPT ![j].action = "consult_fiscal_document",
                          ![j].snapshot = uncertain(@)]
    /\ UNCHANGED <<document, provider, execution, request, contingency>>

\* A NonRetryableEmissionValidationError: company, user, quota, feature or
\* provider checks, the invoice deadline, the checks of a note, guide or void.
ContextFails(w, j) ==
    /\ Ready(w, j)
    /\ Close(w, j, Verdict("failed", job[j].action, "validation"))

\* reserve_probe found the circuit of the provider open.
ProviderPauses(w, j) ==
    /\ \/ Ready(w, j) /\ Recoverable(j)
       \/ Ready(w, j) /\ job[j].action = "consult_fiscal_document"
                      /\ TenantOf[j] \in Enrolled
       \/ At(w, j, "cleared") /\ Owns(w, j)
    /\ Close(w, j, Verdict("retry", job[j].action, "transient"))

MayEmit(w, j) ==
    /\ Ready(w, j)
    /\ job[j].action = EmitAction(j)

\* An enrolled invoice is signed in a request of its own.
Sign(w, j) ==
    /\ MayEmit(w, j)
    /\ Recoverable(j) /\ ~document[j].signed
    /\ Goto(w, "signing")
    /\ UNCHANGED <<job, document, provider, request, contingency>>

SignDone(w, j) ==
    /\ At(w, j, "signing") /\ Owns(w, j)
    /\ document' = [document EXCEPT ![j].signed = TRUE]
    /\ Goto(w, "started")
    /\ UNCHANGED <<job, provider, request, contingency>>

SignFails(w, j) ==
    /\ At(w, j, "signing")
    /\ \E o \in {"transient", "ambiguous", "terminal"} : Answered(w, o)
    /\ UNCHANGED <<job, document, provider, request, contingency>>

\* The contingency mode is read before the probe and the fence commit.
Clear(w, j) ==
    /\ MayEmit(w, j)
    /\ Recoverable(j) /\ document[j].signed
    /\ ~contingency[TenantOf[j]]
    /\ Goto(w, "cleared")
    /\ UNCHANGED <<job, document, provider, request, contingency>>

\* ProviderPaused because the tenant is in contingency mode.
HoldSigned(w, j) ==
    /\ MayEmit(w, j)
    /\ Recoverable(j) /\ document[j].signed
    /\ contingency[TenantOf[j]]
    /\ Close(w, j, Verdict("retry", job[j].action, "transient"))

\* mark_possible refuses an invoice, and process a void, that may have left.
Open(snapshot, kind) ==
    CASE kind = "invoice" -> can_submit(snapshot)
      [] kind = "void"    -> snapshot.version = VERSION /\ ~snapshot.sendStarted
      [] OTHER            -> TRUE

\* Mutant: the mark is written with the answer, not before the call.
Marked_Late(snapshot, kind) == snapshot

\* The last commit before the call: it fences the lease and, for an invoice or
\* a void, leaves the evidence that the document may have been submitted.
Marked(snapshot, kind) ==
    CASE kind = "invoice" -> mark_possible(snapshot)
      [] kind = "void"    -> [snapshot EXCEPT !.sendStarted = TRUE]
      [] OTHER            -> snapshot

BeginSend(w, j) ==
    /\ IF Recoverable(j) THEN At(w, j, "cleared") /\ Owns(w, j)
       ELSE MayEmit(w, j)
    /\ Open(job[j].snapshot, Kind[j])
    /\ job' = [job EXCEPT ![j].snapshot = Marked(@, Kind[j])]
    /\ Goto(w, "sending")
    /\ UNCHANGED <<document, provider, request, contingency>>

\* Sales whose result is unknown, and voids whose batch was sent.
BeginConsult(w, j) ==
    /\ Ready(w, j)
    /\ \/ job[j].action = "consult_fiscal_document"
       \/ /\ Kind[j] = "void"
          /\ job[j].snapshot.version = VERSION
          /\ job[j].snapshot.sendStarted
          /\ job[j].snapshot.result = "none"
    /\ Goto(w, "consulting")
    /\ UNCHANGED <<job, document, provider, request, contingency>>

\* A void whose constancy is already stored is finished without a call.
ResumeVoid(w, j) ==
    /\ Ready(w, j)
    /\ Kind[j] = "void" /\ job[j].snapshot.result # "none"
    /\ Goto(w, "stored")
    /\ UNCHANGED <<job, document, provider, request, contingency>>

-----------------------------------------------------------------------------
(* The provider.  The call is not fenced: an execution whose lease ended    *)
(* after BeginSend still submits.                                           *)

\* A note that was numbered again is another document for the provider.
Renumbered(j) == document[j].other = "renumbering"

Post(w, j) ==
    /\ At(w, j, "sending")
    /\ \E f \in IF provider[j].fate = "none" \/ Renumbered(j) THEN Fate
                ELSE {provider[j].fate} :
         provider' = [provider EXCEPT ![j].posts = IF @ = 2 THEN 2 ELSE @ + 1,
                                      ![j].fate = f]
    /\ Goto(w, "posted")
    /\ UNCHANGED <<job, document, request, contingency>>

\* The connection failed before anything left, or there was no token to send
\* with: send_signed_xml tells the second case apart (SmartPSENotSubmitted).
NotPosted(w, j) ==
    /\ At(w, j, "sending")
    /\ \E o \in {"ambiguous", "transient", "terminal"}
                \cup IF Recoverable(j) THEN {"not_submitted"} ELSE {} :
         Answered(w, o)
    /\ UNCHANGED <<job, document, provider, request, contingency>>

\* The answers that a document with this fate can get.  Only a verified
\* constancy says accepted or rejected; any answer may be lost or unreadable.
Answers(j) ==
    {"ambiguous", "transient", "terminal"}
      \cup (IF provider[j].fate # "none" THEN {"pending"} ELSE {})
      \cup (IF provider[j].fate \in {"accepted", "rejected"}
            THEN {provider[j].fate} ELSE {})
      \cup (IF provider[j].fate = "accepted" /\ Kind[j] = "note"
            THEN {"unverified"} ELSE {})

Answer(w, j) ==
    /\ At(w, j, "posted") \/ At(w, j, "consulting")
    /\ \E o \in Answers(j) : Answered(w, o)
    /\ UNCHANGED <<job, document, provider, request, contingency>>

ProviderDecides(j) ==
    /\ provider[j].fate = "processing"
    /\ \E f \in {"accepted", "rejected"} :
         provider' = [provider EXCEPT ![j].fate = f]
    /\ UNCHANGED <<job, document, execution, request, contingency>>

-----------------------------------------------------------------------------
(* The result: the document first, in a transaction of its own, then the job *)

\* guardar_respuesta_sunat, guardar_respuesta_sunat_gre with apply_guide_result,
\* anular_cotizacion: acceptance comes with its economic effects.
Accepted(d) ==
    [d EXCEPT !.state = "accepted", !.applied = IF @ = 2 THEN 2 ELSE @ + 1]

\* Mutant: a second acceptance is applied like the first.
SaleResult_Reapplies(d, o) ==
    CASE o = "accepted" -> Accepted(d)
      [] o = "rejected" -> [d EXCEPT !.state = "rejected"]
      [] OTHER          -> [d EXCEPT !.state = "uncertain"]

\* guardar_respuesta_sunat leaves an accepted document alone and a proven
\* rejection is never replaced; everything short of a constancy is uncertain.
SaleResult(d, o) ==
    IF d.state \in {"accepted", "rejected"} THEN d
    ELSE CASE o = "accepted" -> Accepted(d)
           [] o = "rejected" -> [d EXCEPT !.state = "rejected"]
           [] OTHER          -> [d EXCEPT !.state = "uncertain"]

NoteResult(d, o) ==
    IF d.state = "accepted" THEN d
    ELSE CASE o = "accepted" -> Accepted(d)
           [] o = "pending"  -> [d EXCEPT !.state = "uncertain"]
           [] OTHER          -> d

\* guardar_respuesta_sunat_gre writes estado whatever it was: a late pending
\* answer takes an accepted guide back.  An exception leaves estado alone.
GuideResult(d, o) ==
    CASE o = "accepted" -> Accepted(d)
      [] o = "rejected" -> [d EXCEPT !.state = "rejected"]
      [] o = "pending"  -> [d EXCEPT !.state = "uncertain"]
      [] OTHER          -> d

Result(d, o, kind) ==
    CASE kind \in Sale   -> SaleResult(d, o)
      [] kind = "note"   -> NoteResult(d, o)
      [] kind = "guide"  -> GuideResult(d, o)
      [] kind = "void"   -> d

\* A void keeps the constancy in its snapshot before anything is annulled.
Evidence(snapshot, o, kind) ==
    IF kind = "void" /\ o \in {"accepted", "rejected"}
    THEN [snapshot EXCEPT !.result = o] ELSE snapshot

StoreResult(w, j) ==
    LET o == execution[w].outcome
    IN /\ At(w, j, "answered") /\ Owns(w, j)
       /\ o # "not_submitted"
       /\ document' = [document EXCEPT ![j] = Result(@, o, Kind[j])]
       /\ job' = [job EXCEPT ![j].snapshot = Evidence(@, o, Kind[j])]
       /\ Goto(w, "stored")
       /\ UNCHANGED <<provider, request, contingency>>

\* The consultation job of a guide is a row of its own (consult:guide:<id>), with
\* its own lease: asked for while the guide is pending, it stores answers from
\* then on, again after a crash or on a new request.
ConsultGuide(j) ==
    /\ Kind[j] = "guide"
    /\ document[j].state = "uncertain" \/ document[j].other = "consultation"
    /\ \E o \in Answers(j) \cap {"accepted", "rejected", "pending"} :
         document' = [document EXCEPT
                        ![j] = [GuideResult(@, o) EXCEPT !.other = "consultation"]]
    /\ UNCHANGED <<job, provider, execution, request, contingency>>

\* SmartPSENotSubmitted: the mark is withdrawn in a commit of its own.
WithdrawSend(w, j) ==
    /\ At(w, j, "answered") /\ Owns(w, j)
    /\ execution[w].outcome = "not_submitted"
    /\ can_withdraw(job[j].snapshot)
    /\ job' = [job EXCEPT ![j].snapshot = mark_not_submitted(@)]
    /\ Goto(w, "stored")
    /\ UNCHANGED <<document, provider, request, contingency>>

\* Mutant: a batch that was not rejected annuls the document.
Annuls_UnlessRejected(j) == Kind[j] = "void" /\ job[j].snapshot.result # "rejected"

Annuls(j) == Kind[j] = "void" /\ job[j].snapshot.result = "accepted"

ApplyVoid(w, j) ==
    /\ At(w, j, "stored") /\ Owns(w, j)
    /\ Annuls(j) /\ document[j].state # "accepted"
    /\ document' = [document EXCEPT ![j] = Accepted(@)]
    /\ UNCHANGED <<job, provider, execution, request, contingency>>

\* anular_cotizacion raises: a dispatch or a note came in meanwhile.
VoidApplyFails(w, j) ==
    /\ At(w, j, "stored")
    /\ Annuls(j) /\ document[j].state # "accepted"
    /\ Close(w, j, Verdict("failed", job[j].action, "terminal"))

\* _classify_emission_error: "ambiguous" stands for provider_policy too.
Classify(o) == IF o \in {"ambiguous", "transient"} THEN o ELSE "terminal"

\* The last three branches of the generic exception handler.
ByClass(row, class) ==
    Verdict(CASE class = "ambiguous"                  -> "pending_confirmation"
              [] class = "transient" /\ row.left > 0  -> "retry"
              [] OTHER                                -> "failed",
            row.action, class)

Succeeded(row) == Verdict("succeeded", row.action, "none")
Reconcile(class) == Verdict("retry", "consult_fiscal_document", class)

\* The failure of a signature: nothing was submitted, so it may be retried
\* until the deadline of the invoice.
SignVerdicts(row, o) ==
    {ByClass(row, Classify(o))}
      \cup (IF o = "transient" THEN {Verdict("retry", row.action, o)} ELSE {})
      \cup (IF o = "ambiguous" THEN {} ELSE {Verdict("failed", row.action, "validation")})

SaleVerdicts(row, d, o, kind) ==
    CASE d.state = "accepted"  -> {Succeeded(row)}
      [] d.state = "rejected"  -> {Verdict("failed", row.action, "terminal")}
      [] OTHER ->
           IF kind = "invoice" /\ can_submit(row.snapshot)
           THEN IF o = "not_submitted"
                THEN {Verdict("retry", row.action, "transient")}
                ELSE SignVerdicts(row, o)
           ELSE IF row.action = "emit_fiscal_document" /\ kind = "boleta"
                   /\ o = "terminal"
                THEN {ByClass(row, Classify(o))}
                ELSE {Reconcile(IF o \in {"transient", "terminal"} THEN o
                                ELSE "ambiguous")}

\* The class of a rejection is read off its wording, so it may be any.
Rejections(row) == {ByClass(row, c) : c \in {"ambiguous", "transient", "terminal"}}

\* Mutant: the answer decides, without looking at the stored note.
NoteVerdicts_TrustsAnswer(row, d, o) ==
    CASE o \in {"accepted", "pending", "unverified"} -> {Succeeded(row)}
      [] o = "rejected" -> Rejections(row)
      [] OTHER          -> {ByClass(row, Classify(o))}

NoteVerdicts(row, d, o) ==
    CASE o \in {"accepted", "pending", "unverified"} ->
           IF d.state = "accepted" THEN {Succeeded(row)}
           ELSE {Verdict("failed", row.action, "validation")}
      [] o = "rejected" -> Rejections(row)
      [] OTHER          -> {ByClass(row, Classify(o))}

GuideVerdicts(row, o) ==
    CASE o = "accepted" -> {Succeeded(row)}
      [] o = "rejected" -> Rejections(row)
      [] o = "pending"  -> {ByClass(row, "ambiguous")}
      [] OTHER          -> {ByClass(row, Classify(o))}

VoidVerdicts(row, d) ==
    CASE row.snapshot.result = "accepted" ->
           IF d.state = "accepted" THEN {Succeeded(row)} ELSE {}
      [] row.snapshot.result = "rejected" -> Rejections(row)
      [] OTHER -> {Verdict("retry", row.action, "ambiguous")}

Verdicts(w, j) ==
    LET o == execution[w].outcome
    IN CASE Kind[j] \in Sale  -> SaleVerdicts(job[j], document[j], o, Kind[j])
         [] Kind[j] = "note"  -> NoteVerdicts(job[j], document[j], o)
         [] Kind[j] = "guide" -> GuideVerdicts(job[j], o)
         [] Kind[j] = "void"  -> VoidVerdicts(job[j], document[j])

Finish(w, j) ==
    /\ At(w, j, "stored")
    /\ \E v \in Verdicts(w, j) : Close(w, j, v)

-----------------------------------------------------------------------------
Work(w, j) ==
    \/ StartAttempt(w, j) \/ TransitionUncertain(w, j) \/ ContextFails(w, j)
    \/ ProviderPauses(w, j) \/ Sign(w, j) \/ SignDone(w, j) \/ SignFails(w, j)
    \/ Clear(w, j) \/ HoldSigned(w, j) \/ BeginSend(w, j) \/ BeginConsult(w, j)
    \/ ResumeVoid(w, j) \/ Post(w, j) \/ NotPosted(w, j) \/ Answer(w, j)
    \/ StoreResult(w, j) \/ WithdrawSend(w, j) \/ ApplyVoid(w, j)
    \/ VoidApplyFails(w, j) \/ Finish(w, j) \/ LoseLease(w, j)

\* A request that finds a draft.
NumberNote(c, j) ==
    /\ Kind[j] = "note"
    /\ Load(c, j) \/ Number(c, j) \/ LookUp(c, j) \/ Reopen(c, j)

Enqueue(c, j) == Read(c, j) \/ Create(c, j) \/ Requeue(c, j) \/ NumberNote(c, j)

Maintain(j) == RecoverExpired(j) \/ ReconcilePending(j)

Next ==
    \/ \E c \in Client : Abandon(c) \/ \E j \in Job : Enqueue(c, j)
    \/ \E t \in Tenant : EnableContingency(t) \/ DisableContingency(t)
    \/ \E w \in Worker : Crash(w)
    \/ \E w \in Worker, j \in Job : Work(w, j)
    \/ \E w \in Worker, j \in Job, t \in Token : Claim(w, j, t)
    \/ \E j \in Job : Expire(j) \/ Maintain(j) \/ ProviderDecides(j) \/ ConsultGuide(j)

Spec == Init /\ [][Next]_vars

-----------------------------------------------------------------------------
(* Safety *)

\* A sale or a cancellation reaches the provider at most once, whatever
\* expires, crashes or is asked again ("an expired send is ambiguous, never
\* automatically sent again").  A legacy row was already sent once.
SentOnce ==
    \A j \in Job : Kind[j] \in Sale \cup {"void"} => provider[j].posts <= 1

\* A request went on with a note without its lock: it numbered the note again,
\* or it reopened the job, perhaps over another retry (no test covers either;
\* SaleLedger's AcceptedNoteStands is refuted by the first).
Unlocked(j) == document[j].other \in {"reopening", "renumbering"}

\* No two executions are inside a submission of the same document, even when
\* the lease of the first ended while it was waiting for the provider; of a note
\* unless a request without its lock reopened the job.
InCall(w, j) == execution[w].job = j /\ execution[w].pc \in {"sending", "posted"}

OneCallInFlight ==
    \A j \in Job, v, w \in Worker :
        ~Unlocked(j) /\ InCall(v, j) /\ InCall(w, j) => v = w

\* The lease fences: of all the executions that think they hold a job, at most
\* one can still write.
OneOwner ==
    \A j \in Job, v, w \in Worker :
        /\ execution[v].job = j /\ Owns(v, j)
        /\ execution[w].job = j /\ Owns(w, j)
        => v = w

\* The durable mark precedes the call: once an invoice may have left, or its
\* send has begun, the local evidence no longer allows a first submission.
MarkedBeforeSend ==
    \A j \in Job :
        Kind[j] = "invoice" /\ (provider[j].posts > 0 \/ \E w \in Worker : At(w, j, "sending"))
        => ~can_submit(job[j].snapshot)

\* A document says accepted, annulled or rejected only when the provider does,
\* unless it is a note that carries a second number.
LocalVerdictIsTrue ==
    \A j \in Job : document[j].state \in {"accepted", "rejected"} /\ ~Renumbered(j)
                   => provider[j].fate = document[j].state

\* Quota, inventory and reversals are applied exactly once per acceptance,
\* however many times the acceptance is answered or the job is repeated: a note
\* under one number, a guide until its consultation job answers too.
AppliedOnce ==
    \A j \in Job :
        document[j].other \in {"none", "reopening"}
        => document[j].applied = IF document[j].state = "accepted" THEN 1 ELSE 0

\* A job succeeds only after its document was accepted, and that of a note that
\* kept its number, of a sale, a guide or a cancellation stays so.
SucceededIsAccepted ==
    \A j \in Job : job[j].status = "succeeded" /\ ~Renumbered(j)
                   => document[j].state = "accepted"

\* What is settled stays settled.  No late request, answer or recovery reopens a
\* succeeded job, except a request without the lock of its note; none changes an
\* accepted or rejected sale or an annulment.  An accepted note may be numbered
\* again and an accepted guide be taken back by its consultation.
SettledStays ==
    [][\A j \in Job :
         /\ job[j].status = "succeeded" /\ ~Unlocked(j)' => job'[j] = job[j]
         /\ Kind[j] \in Sale \cup {"void"} /\ document[j].state \in {"accepted", "rejected"}
              => document'[j] = document[j]]_vars

-----------------------------------------------------------------------------
(* The queue implements the submission permit of invoices and voids *)

Fenced == {j \in Job : Kind[j] \in {"invoice", "void"}}

\* Between the fence and the call, or with the proof that no call was made.
Holds(w, j) ==
    \/ At(w, j, "sending")
    \/ At(w, j, "answered") /\ execution[w].outcome = "not_submitted"

permit ==
    [j \in Fenced |->
       IF Open(job[j].snapshot, Kind[j]) THEN "open"
       ELSE IF \E w \in Worker : Holds(w, j) THEN "taken" ELSE "spent"]

sent == [j \in Fenced |-> provider[j].posts]

Permit == INSTANCE SubmissionPermit WITH Document <- Fenced

\* Every step of the queue, crashes and lost leases included, is a step of the
\* permit or leaves it alone.
ImplementsPermit == Permit!Spec

-----------------------------------------------------------------------------
(* Liveness *)

\* The heartbeats of a process that is gone stop, so its lease ends.
Lapse(j) ==
    /\ \A w \in Worker : ~(execution[w].job = j /\ Owns(w, j))
    /\ Expire(j)

\* A thread that runs goes on, the coordinator recovers every minute and a free
\* slot takes due work.  Nothing is assumed of crashes, requests, the
\* contingency mode or what the provider answers.
Fairness ==
    /\ \A w \in Worker, j \in Job : WF_vars(Work(w, j))
    /\ \A j \in Job : WF_vars(Lapse(j)) /\ WF_vars(Maintain(j))
    /\ \A j \in Job : WF_vars(\E w \in Worker, t \in Token : Claim(w, j, t))

FairSpec == Spec /\ Fairness

\* No reservation lasts forever: its execution ends or the coordinator takes it
\* back, so that a dead worker never keeps a slot of the limits.
ReservationEnds ==
    \A j \in Job : job[j].status = "processing" ~> job[j].status # "processing"

\* A sale in doubt does not wait for a person: it is processed again, unless it
\* is still an emission and the tenant is paused.
SaleInDoubtResumes ==
    \A j \in Job :
        Kind[j] \in Sale /\ job[j].status = "pending_confirmation"
        ~> job[j].status \in {"processing", "contingency_pending"}

\* The provider ends up answering a consultation with the constancy it has, the
\* circuit does not stop every consultation, and from some moment on no thread
\* dies and no heartbeat comes too late.
Learn(w, j) ==
    Answer(w, j) /\ execution'[w].outcome = provider[j].fate

Disturbed ==
    \/ \E w \in Worker : Crash(w)
    \/ \E w \in Worker, j \in Job : execution[w].job = j /\ Owns(w, j) /\ Expire(j)

ProviderFairness ==
    /\ \A w \in Worker, j \in Job : SF_vars(BeginConsult(w, j)) /\ SF_vars(Learn(w, j))
    /\ <>[][~Disturbed]_vars

\* A sale that SUNAT accepted ends up accepted here, even if the answer to its
\* submission was lost, unless a consultation failed its own validations.
AcceptanceIsLearned ==
    ProviderFairness =>
        \A j \in Job :
            Kind[j] \in Sale /\ provider[j].fate = "accepted"
            ~> document[j].state = "accepted" \/ job[j].status = "failed"

-----------------------------------------------------------------------------
(* What the repository says, and the code does not do *)

\* "Las nuevas facturas, boletas y notas quedan registradas, pero no se envian
\* al proveedor fiscal hasta liberar la cola" (SuperadminPage.jsx:2492): no
\* emission is reserved while its tenant is paused.
PauseStopsSends ==
    [][\A j \in Job :
         /\ contingency[TenantOf[j]]
         /\ job[j].action \in CONTINGENCY_ACTIONS /\ ~Recoverable(j)
         => job'[j].token = job[j].token]_vars

\* "Facturas y notas aceptan el CDR sincrono cuando esta completo; si falta
\* evidencia, el flujo posterior consulta sin reenviar"
\* (facturacion_service.py:1314): a note that is pending at the provider is not
\* submitted again.
PendingNoteNotResent ==
    [][\A j \in Job : Kind[j] = "note" /\ document[j].state = "uncertain"
                      => provider'[j].posts = provider[j].posts]_vars

=============================================================================
