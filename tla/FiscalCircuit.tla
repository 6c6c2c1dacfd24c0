---------------------------- MODULE FiscalCircuit ----------------------------
(* The outage circuits of the fiscal provider (fiscal_recovery_service.py) and
   the attempts of the emission worker that consult them.  Signing and
   submission each have a circuit: once a call has failed, one attempt at a time
   reserves a probe, the others are told to wait, and the jobs of the service
   are put off.  Several workers report to a circuit long after they read it,
   with a token, with an old one, or with none because the circuit was closed
   when they began.

   A moment is kept as the time left until it, 0 for one that is absent or has
   passed, so that the clock needs no bound. *)
EXTENDS Naturals, FiniteSets

CONSTANTS
  Worker,       \* worker threads of all replicas
  Job,          \* the sales jobs of the provider's environment
  StartStage,   \* for each job, the stage in which it enters the queue
  Token,        \* probe tokens (uuid4)
  NoToken, NoWorker, NoJob,
  Lease,        \* EMISSION_LEASE_SECONDS, the life of a probe
  First,        \* FISCAL_RECOVERY_FIRST_SECONDS
  Longest,      \* FISCAL_RECOVERY_MAX_SECONDS
  FailureCap,   \* where the count of failures no longer changes the delay
  MaxLapses     \* bound on crashes and lost leases

Service == {"cpe:sign", "cpe"}
Stage   == {"unsigned", "signed", "consult"}

\* The factors 2 ** min(n - 1, 5).
Doubled == <<1, 2, 4, 8, 16, 32>>

Smaller(a, b) == IF a < b THEN a ELSE b
Larger(a, b)  == IF a > b THEN a ELSE b

\* Mutant: the exponent is one too high and nothing caps it.
Delay_Uncapped(n) == First * Doubled[n + 1]

\* The back-off after the n-th failure in a row (also retry_seconds).
Delay(n) == Smaller(First * Doubled[n], Longest)

\* Past FailureCap the code's delay is that of FailureCap, so the count may stop.
ASSUME TimesAssumption ==
  /\ Lease \in Nat \ {0} /\ First \in Nat \ {0} /\ Longest \in Nat \ {0}
  /\ FailureCap \in 1 .. 6
  /\ FailureCap = 6 \/ First * Doubled[FailureCap] >= Longest
  /\ MaxLapses \in Nat

ASSUME NamesAssumption ==
  /\ StartStage \in [Job -> Stage]
  /\ NoToken \notin Token /\ NoWorker \notin Worker /\ NoJob \notin Job

\* A new probe cannot begin while the one before it is still allowed to call.
\* The defaults satisfy it (300, 900 and 1800 seconds); config.py only asks for
\* 60 seconds in each, so it is a condition on the deployment.
ASSUME LeaseWithinBackoff == Lease <= First /\ Lease <= Longest

VARIABLES
  circuit,    \* FiscalProviderCircuit, one row per service
  job,        \* DocumentEmissionJob: status, stage, owner, time until available_at
  attempt,    \* the attempt in each worker
  probe,      \* db.info: the token the attempt's session remembers, per service
  left,       \* history: time left of the reservation a call in flight goes by
  calm,       \* from now on calls get a verdict and attempts do not die
  lapses      \* crashes and lost leases so far

vars == <<circuit, job, attempt, probe, left, calm, lapses>>

ServiceOf(stage) == IF stage = "unsigned" THEN "cpe:sign" ELSE "cpe"

Closed  == [failures |-> 0, next |-> 0, token |-> NoToken, expires |-> 0]
Idle    == [pc |-> "idle", job |-> NoJob, stage |-> "unsigned", token |-> NoToken,
            api |-> FALSE, then |-> "retry"]
NoProbe == [s \in Service |-> NoToken]

Init ==
  /\ circuit = [s \in Service |-> Closed]
  /\ job = [j \in Job |-> [status |-> "queued", stage |-> StartStage[j],
                           owner |-> NoWorker, available |-> 0]]
  /\ attempt = [w \in Worker |-> Idle]
  /\ probe = [w \in Worker |-> NoProbe]
  /\ left = [w \in Worker |-> [s \in Service |-> 0]]
  /\ calm = FALSE
  /\ lapses = 0

-----------------------------------------------------------------------------
(* The operations on a circuit.  Each locks its row and commits. *)

Live(s)    == circuit[s].token # NoToken /\ circuit[s].expires > 0
Mine(w, s) == probe[w][s] = circuit[s].token /\ Live(s)

\* Mutant: only the back-off counts, not the probe of another attempt.
BlockedFor_IgnoresProbe(s) == circuit[s].next

\* Mutant: a probe blocks until somebody reports it.
BlockedFor_UntilReported(s) ==
  IF circuit[s].token # NoToken THEN Larger(circuit[s].next, 1) ELSE circuit[s].next

\* How long reserve_probe refuses: the back-off and, if there is one, the probe.
BlockedFor(s) ==
  IF Live(s) THEN Larger(circuit[s].next, circuit[s].expires) ELSE circuit[s].next

Refused(w, s) == circuit[s].failures > 0 /\ ~ Mine(w, s) /\ BlockedFor(s) > 0

\* Tokens nobody has: a uuid4 is never one of an earlier probe.
Fresh(s) == {k \in Token : /\ circuit[s].token # k
                           /\ \A w \in Worker : probe[w][s] # k /\ attempt[w].token # k}

\* reserve_probe, when it returns: through a closed circuit with no token, with
\* the token the session already has, or with a new one.
Granted(w, s) ==
  \/ /\ circuit[s].failures = 0
     /\ probe' = [probe EXCEPT ![w][s] = circuit[s].token]
     /\ left' = [left EXCEPT ![w][s] = 0]
     /\ UNCHANGED circuit
  \/ /\ circuit[s].failures > 0 /\ Mine(w, s)
     /\ left' = [left EXCEPT ![w][s] = circuit[s].expires]
     /\ UNCHANGED <<circuit, probe>>
  \/ /\ circuit[s].failures > 0 /\ ~ Mine(w, s) /\ BlockedFor(s) = 0
     /\ Fresh(s) # {}
     /\ LET k == CHOOSE k \in Fresh(s) : TRUE IN
          /\ circuit' = [circuit EXCEPT ![s].token = k, ![s].expires = Lease]
          /\ probe' = [probe EXCEPT ![w][s] = k]
     /\ left' = [left EXCEPT ![w][s] = Lease]

\* The waiting jobs of a service (_service_work_filter, status queued or retry).
Waiting(s) == {j \in Job : job[j].status = "queued" /\ ServiceOf(job[j].stage) = s}

\* Mutant: an old token is not recognised.
Failed_AnyToken(s, token) ==
  LET n == Smaller(circuit[s].failures + 1, FailureCap) IN
    /\ circuit' = [circuit EXCEPT ![s] =
         [failures |-> n, next |-> Delay(n), token |-> NoToken, expires |-> 0]]
    /\ job' = [j \in Job |-> IF j \in Waiting(s)
         THEN [job[j] EXCEPT !.available = Larger(@, Delay(n))] ELSE job[j]]

\* service_failed: unless the token is an old one, count and put off the work.
Failed(s, token) ==
  IF token # NoToken /\ circuit[s].token # token
    THEN UNCHANGED <<circuit, job>>
    ELSE LET n == Smaller(circuit[s].failures + 1, FailureCap) IN
           /\ circuit' = [circuit EXCEPT ![s] =
                [failures |-> n, next |-> Delay(n), token |-> NoToken, expires |-> 0]]
           /\ job' = [j \in Job |-> IF j \in Waiting(s)
                THEN [job[j] EXCEPT !.available = Larger(@, Delay(n))] ELSE job[j]]

\* service_recovered: only with the token of the circuit, which may be none.
Recovered(s, token) ==
  IF circuit[s].token # token
    THEN UNCHANGED <<circuit, job>>
    ELSE /\ circuit' = [circuit EXCEPT ![s] = Closed]
         /\ job' = [j \in Job |-> IF circuit[s].failures > 0 /\ j \in Waiting(s)
              THEN [job[j] EXCEPT !.available = 0] ELSE job[j]]

-----------------------------------------------------------------------------
(* The attempts: _process_recoverable_invoice, _process_consult_fiscal_job and
   the handlers of _process_emission_job, split where they commit or call. *)

SvcOf(w)  == ServiceOf(attempt[w].stage)
Owned(w)  == job[attempt[w].job].owner = w
Unchanged == UNCHANGED <<calm, lapses>>

To(w, pc) == attempt' = [attempt EXCEPT ![w].pc = pc]

\* The call is over: its reservation lets nobody call any longer.
CallEnds(w) == left' = [left EXCEPT ![w][SvcOf(w)] = 0]

\* The session is closed and with it db.info.
Ends(w) ==
  /\ attempt' = [attempt EXCEPT ![w] = Idle]
  /\ probe' = [probe EXCEPT ![w] = NoProbe]
  /\ left' = [left EXCEPT ![w] = [s \in Service |-> 0]]

Claim(w, j) ==
  /\ attempt[w].pc = "idle"
  /\ job[j].status = "queued" /\ job[j].available = 0
  /\ job' = [job EXCEPT ![j].status = "processing", ![j].owner = w]
  /\ attempt' = [attempt EXCEPT ![w] =
       [Idle EXCEPT !.pc = "start", !.job = j, !.stage = job[j].stage]]
  /\ Unchanged /\ UNCHANGED <<circuit, probe, left>>

Reserve(w) ==
  /\ attempt[w].pc = "start"
  /\ Granted(w, SvcOf(w))
  /\ attempt' = [attempt EXCEPT ![w].pc = "reserved",
                                ![w].token = probe'[w][SvcOf(w)]]
  /\ Unchanged /\ UNCHANGED job

\* ProviderPaused: the job waits until the circuit may be asked again.
Paused(w) ==
  /\ attempt[w].pc = "start" /\ Owned(w)
  /\ Refused(w, SvcOf(w))
  /\ job' = [job EXCEPT ![attempt[w].job] =
       [@ EXCEPT !.status = "queued", !.owner = NoWorker,
                 !.available = BlockedFor(SvcOf(w))]]
  /\ Ends(w)
  /\ Unchanged /\ UNCHANGED circuit

\* before_provider checks the lease.  A submission leaves its mark with it, and
\* from then on the job is only consulted.
BeginCall(w) ==
  /\ attempt[w].pc = "reserved" /\ Owned(w)
  /\ job' = [job EXCEPT ![attempt[w].job].stage = IF @ = "signed" THEN "consult" ELSE @]
  /\ To(w, "calling")
  /\ Unchanged /\ UNCHANGED <<circuit, probe, left>>

\* What the attempt does when its call is over: report to the circuit (or not)
\* with a token, and then go on, finish or leave the job for later.  What the
\* session remembers and can use no more is forgotten.
Answer(w, pc, then, token) ==
  /\ attempt' = [attempt EXCEPT ![w] =
       [@ EXCEPT !.pc = pc, !.then = then, !.api = FALSE,
                 !.token = IF pc = "finish" THEN NoToken ELSE token]]
  /\ probe' = IF pc = "finish" THEN [probe EXCEPT ![w] = NoProbe] ELSE probe
  /\ CallEnds(w)
  /\ Unchanged /\ UNCHANGED circuit

Stored(w) == attempt[w].token
Session(w) == probe[w][SvcOf(w)]

\* Signed, an outage, or refused for good.
SignAnswered(w) ==
  /\ attempt[w].pc = "calling" /\ attempt[w].stage = "unsigned" /\ Owned(w)
  /\ \/ /\ job' = [job EXCEPT ![attempt[w].job].stage = "signed"]
        /\ Answer(w, "recovered", "continue", Stored(w))
     \/ /\ ~ calm /\ UNCHANGED job
        /\ \/ Answer(w, "failed", "retry", Session(w))
           \/ Answer(w, "finish", "done", NoToken)

\* The verdict of a submission is reported before the lease is checked.  Without
\* one there is a ticket, an outage, or a proof that nothing was submitted.
SendAnswered(w) ==
  /\ attempt[w].pc = "calling" /\ attempt[w].stage = "signed"
  /\ \/ Answer(w, "recovered", "done", Stored(w)) /\ UNCHANGED job
     \/ /\ ~ calm /\ Owned(w)
        /\ \/ Answer(w, "finish", "retry", NoToken) /\ UNCHANGED job
           \/ Answer(w, "failed", "retry", Session(w)) /\ UNCHANGED job
           \/ /\ job' = [job EXCEPT ![attempt[w].job].stage = "signed"]
              /\ Answer(w, "finish", "retry", NoToken)

\* A consultation that answers, even without a verdict, shows that the service
\* works.  An error is an outage (a 202 counts as one when it was a probe), or it
\* says nothing of the service: then the probe is left to run out.
ConsultAnswered(w) ==
  /\ attempt[w].pc = "calling" /\ attempt[w].stage = "consult" /\ Owned(w)
  /\ \/ Answer(w, "recovered", "done", Stored(w))
     \/ /\ ~ calm
        /\ \/ Answer(w, "recovered", "retry", Stored(w))
           \/ Answer(w, "failed", "retry", Session(w))
           \/ Answer(w, "finish", "retry", NoToken)
  /\ UNCHANGED job

\* _try_panel_invoice_retry: the consultation failed, the panel is asked, and
\* whether the service itself failed is kept for the report.
AskPanel(w) ==
  /\ attempt[w].pc = "calling" /\ attempt[w].stage = "consult" /\ Owned(w)
  /\ ~ calm
  /\ \E api \in BOOLEAN :
       attempt' = [attempt EXCEPT ![w].pc = "panel", ![w].api = api]
  /\ CallEnds(w)
  /\ Unchanged /\ UNCHANGED <<circuit, probe, job>>

\* _reserve_panel_retry_attempt asks the circuit again in the same session.
PanelReserve(w) ==
  /\ attempt[w].pc = "panel" /\ Owned(w)
  /\ Granted(w, SvcOf(w))
  /\ To(w, "panelCall")
  /\ Unchanged /\ UNCHANGED job

PanelReport(w, then, token) ==
  Answer(w, IF attempt[w].api THEN "failed" ELSE "finish", then, token)

\* The panel has the verdict, before or after a retry of its own, or it does
\* not (or the circuit refused): then the error of the consultation stands.
PanelAnswered(w) ==
  /\ attempt[w].pc \in {"panel", "panelCall"} /\ Owned(w)
  /\ \/ PanelReport(w, "done", Stored(w))
     \/ PanelReport(w, "retry", Session(w))
  /\ UNCHANGED job

\* service_recovered and service_failed are transactions of their own.
ReportRecovered(w) ==
  /\ attempt[w].pc = "recovered"
  /\ Recovered(SvcOf(w), attempt[w].token)
  /\ attempt' = [attempt EXCEPT ![w] =
       IF @.then = "continue" THEN [@ EXCEPT !.pc = "start", !.stage = "signed",
                                             !.token = NoToken]
                              ELSE [@ EXCEPT !.pc = "finish", !.token = NoToken]]
  /\ probe' = [probe EXCEPT ![w] = NoProbe]
  /\ Unchanged /\ UNCHANGED left

ReportFailed(w) ==
  /\ attempt[w].pc = "failed"
  /\ Failed(SvcOf(w), attempt[w].token)
  /\ attempt' = [attempt EXCEPT ![w].pc = "finish", ![w].token = NoToken]
  /\ probe' = [probe EXCEPT ![w] = NoProbe]
  /\ Unchanged /\ UNCHANGED left

\* The job is settled, or scheduled after retry_seconds(attempts).
Finish(w) ==
  /\ attempt[w].pc = "finish" /\ Owned(w)
  /\ \E n \in 1 .. FailureCap :
       job' = [job EXCEPT ![attempt[w].job] =
         IF attempt[w].then = "done"
           THEN [@ EXCEPT !.status = "done", !.owner = NoWorker]
           ELSE [@ EXCEPT !.status = "queued", !.owner = NoWorker, !.available = Delay(n)]]
  /\ Ends(w)
  /\ Unchanged /\ UNCHANGED circuit

\* LeaseLost: the attempt stops at its next check, without a report.
LeaseLost(w) ==
  /\ attempt[w].pc \notin {"idle", "recovered", "failed"} /\ ~ Owned(w)
  /\ Ends(w)
  /\ Unchanged /\ UNCHANGED <<circuit, job>>

-----------------------------------------------------------------------------
(* Crashes, leases that lapse under a slow attempt, the clock, the provider. *)

Crash(w) ==
  /\ attempt[w].pc # "idle" /\ lapses < MaxLapses /\ lapses' = lapses + 1
  /\ job' = IF Owned(w) THEN [job EXCEPT ![attempt[w].job].owner = NoWorker] ELSE job
  /\ Ends(w)
  /\ UNCHANGED <<circuit, calm>>

\* recover_expired_leases: after a crash, or while the attempt still runs.
Requeue(j) ==
  job' = [job EXCEPT ![j] = [@ EXCEPT !.status = "queued", !.owner = NoWorker,
                                      !.available = 0]]

RecoverJob(j) ==
  /\ job[j].status = "processing" /\ job[j].owner = NoWorker
  /\ Requeue(j)
  /\ UNCHANGED <<circuit, attempt, probe, left, calm, lapses>>

LeaseLapses(j) ==
  /\ job[j].status = "processing" /\ job[j].owner # NoWorker
  /\ lapses < MaxLapses /\ lapses' = lapses + 1
  /\ Requeue(j)
  /\ UNCHANGED <<circuit, attempt, probe, left, calm>>

Less(n) == IF n = 0 THEN 0 ELSE n - 1

Tick ==
  /\ \/ \E s \in Service : circuit[s].next > 0 \/ circuit[s].expires > 0
     \/ \E j \in Job : job[j].available > 0
     \/ \E w \in Worker, s \in Service : left[w][s] > 0
  /\ circuit' = [s \in Service |-> [circuit[s] EXCEPT !.next = Less(@), !.expires = Less(@)]]
  /\ job' = [j \in Job |-> [job[j] EXCEPT !.available = Less(@)]]
  /\ left' = [w \in Worker |-> [s \in Service |-> Less(left[w][s])]]
  /\ UNCHANGED <<attempt, probe, calm, lapses>>

\* Until then each call is answered as the provider likes, and any attempt may
\* die or lose its lease; the bound on lapses is used up with it, so none follows.
CalmReturns ==
  /\ ~ calm /\ calm' = TRUE
  /\ lapses' = MaxLapses
  /\ UNCHANGED <<circuit, job, attempt, probe, left>>

Step(w) ==
  \/ Reserve(w) \/ Paused(w) \/ BeginCall(w)
  \/ SignAnswered(w) \/ SendAnswered(w) \/ ConsultAnswered(w)
  \/ AskPanel(w) \/ PanelReserve(w) \/ PanelAnswered(w)
  \/ ReportRecovered(w) \/ ReportFailed(w) \/ Finish(w) \/ LeaseLost(w)

Next ==
  \/ \E w \in Worker, j \in Job : Claim(w, j)
  \/ \E w \in Worker : Step(w)
  \/ \E w \in Worker : Crash(w)
  \/ \E j \in Job : RecoverJob(j)
  \/ \E j \in Job : LeaseLapses(j)
  \/ Tick
  \/ CalmReturns

Spec == Init /\ [][Next]_vars

\* Threads take due jobs and go on with them, the coordinator recovers dead
\* reservations, time passes.  Nothing is asked of the provider.
Fairness ==
  /\ WF_vars(\E w \in Worker, j \in Job : Claim(w, j))
  /\ \A w \in Worker : WF_vars(Step(w))
  /\ \A j \in Job : WF_vars(RecoverJob(j))
  /\ WF_vars(Tick)

FairSpec == Spec /\ Fairness

-----------------------------------------------------------------------------
(* Properties. *)

AnyToken == Token \cup {NoToken}

CircuitRow == [failures : 0 .. FailureCap, next : 0 .. Longest, token : AnyToken,
               expires : 0 .. Lease]

JobRow == [status : {"queued", "processing", "done"}, stage : Stage,
           owner : Worker \cup {NoWorker}, available : Nat]

Attempt == [pc : {"idle", "start", "reserved", "calling", "panel", "panelCall",
                  "recovered", "failed", "finish"},
            job : Job \cup {NoJob}, stage : Stage, token : AnyToken, api : BOOLEAN,
            then : {"continue", "done", "retry"}]

TypeOK ==
  /\ circuit \in [Service -> CircuitRow]
  /\ job \in [Job -> JobRow]
  /\ attempt \in [Worker -> Attempt]
  /\ probe \in [Worker -> [Service -> AnyToken]]
  /\ left \in [Worker -> [Service -> 0 .. Lease]]
  /\ calm \in BOOLEAN
  /\ lapses \in 0 .. MaxLapses

\* "Only one replica/document may test an open service" (reserve_probe): at most
\* one call at a time goes by a reservation that has not run out, even though
\* calls that began while the circuit was closed report failures with no token
\* and take the token of a running probe away.
OneProbe ==
  \A s \in Service : \A v, w \in Worker :
    left[v][s] > 0 /\ left[w][s] > 0 => v = w

\* An attempt reports to a circuit in this step.
Reports(w) == attempt[w].pc \in {"recovered", "failed"} /\ attempt'[w] # attempt[w]

TokenGoesRightly(s) ==
  circuit[s].token # NoToken /\ circuit'[s].token # circuit[s].token =>
    \/ circuit[s].expires = 0 /\ circuit'[s].token # NoToken
    \/ \E w \in Worker :
         /\ Reports(w)
         /\ \/ attempt[w].token = circuit[s].token
            \/ attempt[w].token = NoToken /\ circuit'[s].failures > 0

\* "A stale result from an expired probe cannot close an active newer probe"
\* (test_emission_worker_postgres.py): the token of a circuit is taken away by
\* the report of the attempt that has it, by a failure of a call that had none,
\* or by the next probe when its time is over; only the first closes the circuit.
ProbeStands == [][\A s \in Service : TokenGoesRightly(s)]_vars

\* Once the provider is back and threads stop dying, every job is finished: probes
\* lost with a crash, with a lease or without a report do not keep a circuit
\* open, and no put-off job is forgotten.
WorkResumes == calm ~> \A j \in Job : job[j].status = "done"
=============================================================================
