---------------------------- MODULE WorkerRuntime ----------------------------
(***************************************************************************)
(* The coordinator of a worker replica: when it looks at the queue.        *)
(*                                                                         *)
(* Source: backend/services/emission_worker_runtime.py (WakeSignal,        *)
(* Listener, run), and the trigger of migration 0025 that notifies it.     *)
(* EmissionQueue says what a reserved job does; here a job is only as far  *)
(* as the coordinator sees it, and the question is whether work that is    *)
(* due is found, renewed, recovered and drained.                           *)
(*                                                                         *)
(* A pass of the loop reads the clock once; which of the deadlines that it *)
(* compares with have passed is a choice of the pass.                      *)
(***************************************************************************)
EXTENDS Naturals, FiniteSets

CONSTANTS
    Job,
    Slot,         \* threads of the executor: EMISSION_WORKER_CONCURRENCY
    NoJob,
    Pilot,        \* jobs of the tenants in EMISSION_EVENT_TENANT_IDS
    Modes,        \* EMISSION_WORKER_WAKE_MODE, "pilot" when only some tenants
    GlobalLimit,  \* EMISSION_GLOBAL_CONCURRENCY
    DbMayFail     \* whether the coordinator's own queries may fail

ASSUME RuntimeAssumption ==
    /\ Pilot \subseteq Job
    /\ NoJob \notin Job
    /\ Modes \subseteq {"poll", "pilot", "notify"}
    /\ GlobalLimit \in Nat \ {0}
    /\ DbMayFail \in BOOLEAN

VARIABLES
    mode,       \* the configuration of this replica
    row,        \* document_emission_jobs, as far as the coordinator sees it
    slot,       \* the futures in active, one per slot of the executor
    owed,       \* slots whose done callback has not pulsed yet
    pc,         \* where the loop is
    legacyDue,  \* legacy_due of this pass
    signal,     \* WakeSignal.generation against the two copies of the loop
    nextJob,    \* next_job is set: there is a deadline for the next scheduled job
    beatDue,    \* now >= next_heartbeat
    listener,   \* the LISTEN connection and what PostgreSQL queued on it
    shutdown    \* is_shutdown_requested, and what the loop knows of it

vars == <<mode, row, slot, owed, pc, legacyDue, signal, nextJob, beatDue, listener, shutdown>>

-----------------------------------------------------------------------------
(* Values *)

\* scheduled: queued or retry with available_at in the future; due: available;
\* here, elsewhere: processing under a lease that is renewed; expired: under a
\* lease that is not.
RowState == {"absent", "scheduled", "due", "here", "elsewhere", "expired"}

\* running: the job is executed; released: its row left processing; done: the
\* future is done and the loop has not pruned it.
SlotState == {"free", "running", "released", "done"}

PC == {"prune", "snapshot", "heartbeat", "recover", "decide", "claim", "plan",
       "waiting", "backoff", "stopped"}

\* unread: generation # the generation of this pass; unseen: generation # seen.
Signal == [unread : BOOLEAN, unseen : BOOLEAN]

\* Deadlines that a pass compares with before it looks at the queue.
Deadline == {"poll", "fallback", "job"}

TypeOK ==
    /\ mode \in Modes
    /\ row \in [Job -> RowState]
    /\ slot \in [Slot -> [state : SlotState, job : Job \cup {NoJob}]]
    /\ owed \subseteq Slot
    /\ pc \in PC
    /\ legacyDue \in BOOLEAN
    /\ signal \in Signal
    /\ nextJob \in BOOLEAN /\ beatDue \in BOOLEAN
    /\ listener \in [link : {"down", "up"}, inbox : BOOLEAN]
    /\ shutdown \in [requested : BOOLEAN, draining : BOOLEAN]

Free == [state |-> "free", job |-> NoJob]

Init ==
    /\ mode \in Modes
    /\ row \in [Job -> {"absent", "scheduled", "due", "elsewhere"}]
    /\ slot = [s \in Slot |-> Free]
    /\ owed = {}
    /\ pc = "prune"
    /\ legacyDue = FALSE
    /\ signal = [unread |-> FALSE, unseen |-> TRUE]
    /\ nextJob = FALSE /\ beatDue = TRUE
    /\ listener = [link |-> "down", inbox |-> FALSE]
    /\ shutdown = [requested |-> FALSE, draining |-> FALSE]

-----------------------------------------------------------------------------
(* What the actions share *)

Active == {s \in Slot : slot[s].state # "free"}
Full == Active = Slot
Processing == {j \in Job : row[j] \in {"here", "elsewhere", "expired"}}
Claimable(j) == row[j] = "due" /\ Cardinality(Processing) < GlobalLimit

Notifies == mode # "poll"

Pulse == signal' = [unread |-> TRUE, unseen |-> TRUE]

\* pg_notify on commit: lost unless the listener's connection is open.
Notice == listener' = [listener EXCEPT !.inbox = @ \/ listener.link = "up"]

Loop == <<mode, slot, owed, pc, legacyDue, nextJob, beatDue, shutdown>>

-----------------------------------------------------------------------------
(* The rest of the system: the API, the other replicas, time *)

\* A job is enqueued, or an administrator or a circuit moves its available_at.
Enqueue(j) ==
    /\ row[j] \in {"absent", "scheduled"}
    /\ \E s \in {"scheduled", "due"} : row' = [row EXCEPT ![j] = s]
    /\ Notice
    /\ UNCHANGED <<Loop, signal>>

\* available_at passes: nothing in the database tells.
Mature(j) ==
    /\ row[j] = "scheduled"
    /\ row' = [row EXCEPT ![j] = "due"]
    /\ UNCHANGED <<Loop, signal, listener>>

TakenElsewhere(j) ==
    /\ Claimable(j)
    /\ row' = [row EXCEPT ![j] = "elsewhere"]
    /\ UNCHANGED <<Loop, signal, listener>>

\* Another replica finishes a job, retries it later, or dies with it.
LeftElsewhere(j) ==
    /\ row[j] = "elsewhere"
    /\ \/ /\ \E s \in {"absent", "scheduled"} : row' = [row EXCEPT ![j] = s]
          /\ Notice
       \/ /\ row' = [row EXCEPT ![j] = "expired"]
          /\ UNCHANGED listener
    /\ UNCHANGED <<Loop, signal>>

\* The deadline of the next heartbeat passes.
Elapse ==
    /\ beatDue' = TRUE
    /\ UNCHANGED <<mode, row, slot, owed, pc, legacyDue, signal, nextJob, listener, shutdown>>

\* SIGTERM: request_shutdown sets the event and pulses.
RequestShutdown ==
    /\ ~shutdown.requested
    /\ shutdown' = [shutdown EXCEPT !.requested = TRUE]
    /\ Pulse
    /\ UNCHANGED <<mode, row, slot, owed, pc, legacyDue, nextJob, beatDue, listener>>

-----------------------------------------------------------------------------
(* The listener thread *)

\* LISTEN, then the check of verify_database, which may discard what it reads,
\* then a pulse to catch up.
Connect ==
    /\ Notifies /\ listener.link = "down"
    /\ listener' = [link |-> "up", inbox |-> FALSE]
    /\ Pulse
    /\ UNCHANGED <<row, Loop>>

Deliver ==
    /\ listener = [link |-> "up", inbox |-> TRUE]
    /\ listener' = [listener EXCEPT !.inbox = FALSE]
    /\ Pulse
    /\ UNCHANGED <<row, Loop>>

Disconnect ==
    /\ listener.link = "up"
    /\ listener' = [link |-> "down", inbox |-> FALSE]
    /\ UNCHANGED <<row, Loop, signal>>

-----------------------------------------------------------------------------
(* The threads of the executor *)

\* The job commits its result: it leaves processing.
Release(s) ==
    /\ slot[s].state = "running"
    /\ slot' = [slot EXCEPT ![s] = [state |-> "released", job |-> NoJob]]
    /\ \E r \in {"absent", "scheduled"} : row' = [row EXCEPT ![slot[s].job] = r]
    /\ Notice
    /\ UNCHANGED <<mode, owed, pc, legacyDue, signal, nextJob, beatDue, shutdown>>

\* The thread returns; its callbacks run after the future is done, and before
\* the thread takes other work.
Done(s) ==
    /\ slot[s].state = "released" /\ s \notin owed
    /\ slot' = [slot EXCEPT ![s].state = "done"]
    /\ owed' = owed \cup {s}
    /\ UNCHANGED <<mode, row, pc, legacyDue, signal, nextJob, beatDue, listener, shutdown>>

Callback(s) ==
    /\ s \in owed
    /\ owed' = owed \ {s}
    /\ Pulse
    /\ UNCHANGED <<mode, row, slot, pc, legacyDue, nextJob, beatDue, listener, shutdown>>

-----------------------------------------------------------------------------
(* A pass of the loop *)

\* Mutant: a replica that drains waits for the whole queue.
Prune_DrainsQueue ==
    LET kept == [s \in Slot |-> IF slot[s].state = "done" THEN Free ELSE slot[s]]
    IN /\ pc = "prune"
       /\ slot' = kept
       /\ shutdown' = [shutdown EXCEPT !.draining = @ \/ shutdown.requested]
       /\ pc' = IF /\ shutdown'.draining /\ \A s \in Slot : kept[s] = Free
                   /\ \A j \in Job : row[j] # "due"
                THEN "stopped" ELSE "snapshot"
       /\ UNCHANGED <<mode, row, owed, legacyDue, signal, nextJob, beatDue, listener>>

Prune ==
    LET kept == [s \in Slot |-> IF slot[s].state = "done" THEN Free ELSE slot[s]]
    IN /\ pc = "prune"
       /\ slot' = kept
       /\ shutdown' = [shutdown EXCEPT !.draining = @ \/ shutdown.requested]
       /\ pc' = IF shutdown'.draining /\ \A s \in Slot : kept[s] = Free
                THEN "stopped" ELSE "snapshot"
       /\ UNCHANGED <<mode, row, owed, legacyDue, signal, nextJob, beatDue, listener>>

Snapshot ==
    /\ pc = "snapshot"
    /\ signal' = [signal EXCEPT !.unread = FALSE]
    /\ pc' = "heartbeat"
    /\ UNCHANGED <<mode, row, slot, owed, legacyDue, nextJob, beatDue, listener, shutdown>>

HeartbeatDue == Active # {} /\ beatDue

Heartbeat ==
    /\ pc = "heartbeat"
    /\ beatDue' = (beatDue /\ ~HeartbeatDue)
    /\ pc' = "recover"
    /\ UNCHANGED <<mode, row, slot, owed, legacyDue, signal, nextJob, listener, shutdown>>

\* Mutant: nothing is recovered while every slot is taken.
MayRecover_WithSlot == ~shutdown.draining /\ ~Full

MayRecover == ~shutdown.draining

\* recover_coordinator takes expired reservations back, to the queue or to
\* pending_confirmation; both notify.
Recover ==
    /\ pc = "recover" /\ MayRecover
    /\ \E retried \in SUBSET Job :
         row' = [j \in Job |-> CASE row[j] # "expired" -> row[j]
                                [] j \in retried       -> "due"
                                [] OTHER               -> "absent"]
    /\ IF row' # row THEN Notice ELSE UNCHANGED listener
    /\ pc' = "decide"
    /\ UNCHANGED <<mode, slot, owed, legacyDue, signal, nextJob, beatDue, shutdown>>

\* Draining, or next_recovery has not passed.
SkipRecovery ==
    /\ pc = "recover"
    /\ pc' = "decide"
    /\ UNCHANGED <<mode, row, slot, owed, legacyDue, signal, nextJob, beatDue, listener, shutdown>>

LegacyDue(passed) ==
    /\ "poll" \in passed \/ (~Notifies /\ signal.unseen)
    /\ mode # "notify"

\* Mutant: only notifications and the deadline of the next job count.
EventDue_NoFallback(passed) ==
    Notifies /\ (signal.unseen \/ "job" \in passed)

EventDue(passed) ==
    Notifies /\ (signal.unseen \/ passed \cap {"fallback", "job"} # {})

Decide(passed) ==
    /\ pc = "decide"
    /\ "job" \in passed => nextJob
    /\ IF ~shutdown.draining /\ ~Full /\ (LegacyDue(passed) \/ EventDue(passed))
       THEN /\ pc' = "claim"
            /\ legacyDue' = LegacyDue(passed)
            /\ nextJob' = (nextJob /\ ~EventDue(passed))
       ELSE /\ pc' = "plan"
            /\ UNCHANGED <<legacyDue, nextJob>>
    /\ UNCHANGED <<mode, row, slot, owed, signal, beatDue, listener, shutdown>>

\* The whole queue at the legacy deadline, the pilot's jobs otherwise.
InScope(j) == legacyDue \/ mode = "notify" \/ j \in Pilot

Claim(s, j) ==
    /\ pc = "claim" /\ slot[s] = Free
    /\ Claimable(j) /\ InScope(j)
    /\ row' = [row EXCEPT ![j] = "here"]
    /\ slot' = [slot EXCEPT ![s] = [state |-> "running", job |-> j]]
    /\ UNCHANGED <<mode, owed, pc, legacyDue, signal, nextJob, beatDue, listener, shutdown>>

\* Nothing to reserve: next_job becomes the deadline of the next scheduled job.
EmptyClaim ==
    /\ pc = "claim" /\ ~Full
    /\ \A j \in Job : ~(Claimable(j) /\ InScope(j))
    /\ nextJob' = (nextJob \/ (Notifies /\ \E j \in Job : InScope(j) /\ row[j] = "scheduled"))
    /\ legacyDue' = FALSE
    /\ pc' = "plan"
    /\ UNCHANGED <<mode, row, slot, owed, signal, beatDue, listener, shutdown>>

FullClaim ==
    /\ pc = "claim" /\ Full
    /\ legacyDue' = FALSE
    /\ pc' = "plan"
    /\ UNCHANGED <<mode, row, slot, owed, signal, nextJob, beatDue, listener, shutdown>>

\* seen = generation, then wait(generation).
Wait(next) ==
    /\ pc' = next
    /\ signal' = [signal EXCEPT !.unseen = signal.unread]

Plan ==
    /\ pc = "plan" /\ Wait("waiting")
    /\ UNCHANGED <<mode, row, slot, owed, legacyDue, nextJob, beatDue, listener, shutdown>>

\* A SQLAlchemyError of any query of the pass.  When it hits the answer of a
\* claim that had committed, the reservation has nobody to run it.
DbError ==
    /\ DbMayFail
    /\ \/ pc = "heartbeat" /\ HeartbeatDue
       \/ pc = "recover" /\ MayRecover
       \/ pc = "claim" /\ ~Full
    /\ \/ UNCHANGED row
       \/ /\ pc = "claim"
          /\ \E j \in Job : Claimable(j) /\ InScope(j)
                            /\ row' = [row EXCEPT ![j] = "expired"]
    /\ Wait("backoff")
    /\ legacyDue' = FALSE
    /\ UNCHANGED <<mode, slot, owed, nextJob, beatDue, listener, shutdown>>

\* A pulse or the earliest deadline ends the wait.  The deadline of the metrics
\* is always one of them, so every wait ends; after an error, a short delay does.
Wake ==
    /\ pc \in {"waiting", "backoff"}
    /\ pc' = "prune"
    /\ UNCHANGED <<mode, row, slot, owed, legacyDue, signal, nextJob, beatDue, listener, shutdown>>

Pass ==
    \/ Prune \/ Snapshot \/ Heartbeat \/ Recover \/ SkipRecovery
    \/ \E passed \in SUBSET Deadline : Decide(passed)
    \/ EmptyClaim \/ FullClaim \/ Plan \/ Wake
    \/ \E s \in Slot, j \in Job : Claim(s, j)

Next ==
    \/ Pass \/ DbError \/ Elapse
    \/ Connect \/ Deliver \/ Disconnect
    \/ RequestShutdown
    \/ \E s \in Slot : Release(s) \/ Done(s) \/ Callback(s)
    \/ \E j \in Job : Enqueue(j) \/ Mature(j) \/ TakenElsewhere(j) \/ LeftElsewhere(j)

Spec == Init /\ [][Next]_vars

-----------------------------------------------------------------------------
(* Liveness *)

\* The loop goes round, the clock passes every deadline again and again, threads
\* whose job ended return, and the database is not down forever.  A job may take
\* any time, and notices may all be lost.
Fairness ==
    /\ WF_vars(Pass)
    /\ SF_vars(Recover)
    /\ \A d \in {"poll", "fallback"} :
         SF_vars(\E passed \in SUBSET Deadline : d \in passed /\ Decide(passed))
    /\ \A s \in Slot : WF_vars(Done(s)) /\ WF_vars(Callback(s))
    /\ <>[][~DbError]_vars

FairSpec == Spec /\ Fairness

Running == {s \in Slot : slot[s].state = "running"}

\* Unless all its threads are busy, a replica looks at the queue for every job
\* that could be reserved, even if no notification ever arrives.
DueWorkIsLookedFor ==
    \A j \in Job :
        Claimable(j) ~> \/ pc = "claim" /\ InScope(j)
                        \/ ~Claimable(j) \/ Running = Slot \/ shutdown.requested

\* Leases are renewed for as long as a job runs, during a drain too, and the
\* reservations of dead workers, which count against the limits, are taken back
\* even by a replica whose own threads are all busy.
LeasesAreTended ==
    /\ beatDue /\ Running # {} ~> ~beatDue \/ Running = {}
    /\ \A j \in Job : row[j] = "expired" ~> row[j] # "expired" \/ shutdown.requested

\* A worker that is asked to stop stops as soon as its jobs are done.
DrainEnds == shutdown.requested ~> pc = "stopped" \/ Running # {}

=============================================================================
