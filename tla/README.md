# Formal models of Inkora's fiscal back end

Inkora issues Peruvian fiscal documents (invoices, boletas, credit and debit
notes, dispatch guides, cancellations) for many companies through one provider,
Smart PSE, which talks to SUNAT. A document may never be submitted twice, may
never be called accepted before SUNAT said so, and moves quota, stock and debts
when it is. Several worker replicas, their coordinators, the API and SUNAT all
act on the same rows. This directory holds TLA+ models of that back end
(`src/backend`), their TLC configurations and TLAPS proofs.

Modules at a glance:

| module | what it models | checked by | proved in |
|---|---|---|---|
| `FiscalSubmissionState` | the evidence of submission kept in a job's snapshot | with EmissionQueue | with EmissionQueue |
| `SubmissionPermit` | abstract: a document may be sent once, by one holder | refined by EmissionQueue | `EmissionQueueProofs` |
| `EmissionQueue` | requests, job rows, leases, workers, provider | `Emission`, `Live`, `PauseLeaks`, `PendingNote` | `EmissionQueueProofs`, `VerdictProofs` |
| `PanelRetry` | the retry of an invoice through the provider's panel | `Panel` | `PanelRetryProofs` |
| `FiscalCircuit` | the outage circuits of the provider, their probes and the jobs they put off | `Circuit` | `FiscalCircuitProofs` |
| `WorkerRuntime` | the coordinator's loop of a replica and what wakes it | `RuntimeLive` | |
| `StockHolds` | the balance of a product and the holds of sales on it | with QuoteBilling | `QuoteBillingProofs` |
| `QuoteBilling` | quotes, their conversion, numbers, stock, payments | `Billing` | `QuoteBillingProofs` |
| `LineAllotment` | abstract: parts of a sold line assigned, freed and shipped | refined by SaleLedger | `SaleLedgerProofs` |
| `SaleLedger` | dispatches, notes, cancellation and stock of one sale | `SaleLedger`, `NoteRenumbered` | `SaleLedgerProofs` |
| `InternalTransfer` | transfers of goods, their guides and the stock | `Transfers`, `StrayDeparture` | `InternalTransferProofs` |

`MCEmissionQueue`, `MCPanelRetry`, `MCFiscalCircuit`, `MCWorkerRuntime`,
`MCQuoteBilling`, `MCSaleLedger` and `MCInternalTransfer` give the constants
their small values. `SumTheorems` holds lemmas about sums over finite sets that
the last three proof modules use. `PROJECT.json` maps every definition to the lines it models,
every property to a plausible bug that breaks it, and every hazard of the code
to the properties that would catch it.

To run: `tlc -workers 2 -config Emission.cfg MCEmissionQueue.tla` (likewise for
the others) and `tlapm VerdictProofs.tla` (likewise for the other proof modules).

## 1. Inventory of the system

| component (under `src/backend`) | state it keeps | operations | what is hard | what makes it correct |
|---|---|---|---|---|
| **Emission queue and leases** `services/emission_leases.py`, `crud/emission_jobs.py`, `models/emission_jobs.py` | `document_emission_jobs` (status, action, lease token and expiry, attempts, snapshot), `document_emission_attempts` | enqueue, claim, check, renew, release, recover, reconcile, requeue, contingency on/off | a lease ends while its holder waits for SUNAT; recovery decides from evidence alone whether a document may be sent again | one writer; no second submission; a job in doubt is not lost |
| **Submission contract** `services/fiscal_submission_state.py` | keys of the snapshot of an invoice | initial, can submit, mark possible, mark not submitted, uncertain | rows of older releases have no contract | absence of evidence is not evidence of absence |
| **Emission worker** `services/emission_queue_service.py` | none of its own; an execution between commits | emit or consult a sale, emit a note or guide, cancel; classify and close every exception | each commit is a point where the process can die or the lease end | the mark precedes the call; the document precedes the job |
| **Cancellations** `services/void_recovery_service.py` | batch and constancy in the job's snapshot | prepare, send, consult, store evidence, annul | a crash between the constancy and the reversal | one batch, one reversal, only with a constancy |
| **Stored fiscal result** `crud/_cotizaciones_fiscal.py` | document state, verification, economic effects | store a SUNAT answer, annul | the same acceptance learnt twice; answers out of order | effects once; a verdict is final and true |
| **Fiscal circuit breaker** `services/fiscal_recovery_service.py` | failures, next probe, probe token per service | reserve a probe, failed, recovered, deadlines | several workers probe; stale outcomes | one probe tests an open service; work resumes |
| **Worker runtime** `services/emission_worker_runtime.py` | generation, deadlines, futures, LISTEN connection | wake, prune, heartbeat, recover, claim, drain | lost notices, database errors, pulses between two reads | due work is looked for; leases renewed; drain ends |
| **Internal transfers** `services/internal_transfer_service.py` | orders, dispatches, lines, guide state | create, dispatch, guide, depart, receive, cancel | the guide's emission and its cancellation overlap; late verdicts | goods conserved; commitments are reservations |
| **Inventory** `services/inventory_service.py` | balances (on hand, committed), movements, holds | adjust, hold, finalize, release, return | promises, sales, adjustments and counts meet in one balance; a sale whose goods are gone | what is committed is what open holds promise, and is there |
| **Sale dispatch** `services/sale_dispatch_service.py` | allocations of invoice lines to dispatches | reserve, guide, depart, cancel | concurrent allocation, late verdicts | no line is dispatched twice |
| **Dispatch guides** `crud/guias.py`, `routers/guias.py` | the guide's row | request emission, request consultation, store the result | the request holds no lock of the tenant | a verdict reaches the dispatch once |
| **Credit and debit notes** `services/note_adjustment_service.py`, `services/fiscal_balance_service.py` | credit reserved against a document | reserve, apply, release | a rejected note, a retry, a cancellation at once | credit never exceeds the document |
| **Quotes and conversion** `crud/_cotizaciones_quotes.py`, `crud/_cotizaciones_shared.py`, `crud/_base.py` | quotes, fiscal documents made of them, numbers of a series | edit, delete, convert, number | conversions and edits overlap; documents are deleted again | one document per quote; a number is used once |
| **Payments, quotas** `crud/pagos.py`, `crud/usage_limits.py` | advances and balances; counters per period | pay, apply, check and count | a balance is read without a lock; check and count in two transactions | every payment counts once |
| **Panel retry** `services/panel_retry_state.py`, `services/smartpse_panel_client.py` | a chain of attempts, in audit trail, snapshot and document | list, reserve, POST, complete, read | a crash between a marker and its POST; a lost answer | one POST unanswered; the chain never blocks itself |
| **Provider clients** `services/smartpse_client.py`, `services/facturacion_service.py` | none | build, sign, send, consult, interpret | an answer lost or partial | only a verified constancy is a verdict |
| **Provider answers and evidence** `services/smartpse_response.py`, `services/fiscal_evidence_service.py` | XML and constancy of a document | interpret, validate, retain | parsing and signatures | a verdict only from a constancy of this very document |
| **API routers** `routers/*.py` | none | enqueue, retry, pause, administration | read and write in two transactions | a retry never reopens what is settled |

The remaining parts (other documents by plain CRUD, tenants, users,
subscriptions, catalogue, PDF, storage, reports, imports, the React front end)
keep single rows or nothing and have no protocol between actors.

**How they interact.** A router commits the document (with its stock holds) and
then, through `emission_queue_service.enqueue_*`, a job row; a database trigger
notifies the replicas. A coordinator wakes, renews leases, recovers expired
reservations, and claims due rows for free threads. A thread processes its row:
it validates the context, may ask the circuit breaker, leaves the mark, calls
the provider, stores the result in the document (effects included) and then
closes the job. An acceptance of a guide also reaches the dispatch of a
transfer or of a sale. Everything is shared through PostgreSQL; in memory there
are only the wake signal and the futures of one replica.

## 2. Plan

Order: what can cost a company a duplicate fiscal document first, then what can
leave one unanswered, then the goods and the money that follow from a verdict.

1. `FiscalSubmissionState`, `SubmissionPermit`, `EmissionQueue`, with
   `EmissionQueueProofs` and `VerdictProofs`.
2. `WorkerRuntime`.
3. `InternalTransfer` with `InternalTransferProofs`, which composes orders,
   stock and the guide's job; `SumTheorems`, which its proofs and those of 5 and 6
   need.
4. `FiscalCircuit` with `FiscalCircuitProofs`.
5. `SaleLedger`, with `LineAllotment` and `SaleLedgerProofs`: what is done with
   one accepted sale, whose parts exclude one another only through checks made
   in different transactions.
6. `QuoteBilling` with `QuoteBillingProofs`: how the sale comes about and is
   paid; `StockHolds`, the goods its conversions compete for.
7. `PanelRetry` with `PanelRetryProofs`.

All of these are done. What would come next:

- `StockHolds` and `InternalTransfer` composed on one balance;
- `SaleLedger` and `QuoteBilling` composed on one document, so that notes and
  payments share a balance;
- quotas, if the code comes to claim a limit it keeps.

## 3. EmissionQueue

### State and steps

`job[j]` is the row of a document (with what its attempt rows say in
`history`), `document[j]` the document itself, `provider[j]` what reached Smart
PSE and what became of it, `execution[w]` a worker thread with the token it was
given, `request[c]` an API request between its read and its write, and
`contingency[t]` the pause of a tenant. **One action is one transaction or one
external call**; whatever can happen between two commits (another thread, a
crash, the end of the lease, a recovery, a user's retry, a pause) happens
between two actions. Where `emission_leases.check` takes the row lock, check,
write and commit are one action.

| code | actions |
|---|---|
| enqueue and retry endpoints, `enqueue_*`, `requeue_emission_job` | `Read`, `Create`, `Requeue`, `Abandon` |
| `emit_note` on a draft: `assign_number_for_emission`, `enqueue_note_job` | `NumberNote`: `Load`, `Number`, `LookUp`, then `Create` or `Reopen` |
| `set_tenant_fiscal_contingency` | `EnableContingency`, `DisableContingency` |
| `emission_leases.claim` | `Claim` (the advisory lock makes count and reservation one step) |
| heartbeats that stop or come late | `Expire` |
| `recover_coordinator` | `RecoverExpired`, `ReconcilePending` |
| start of the attempt, context validations, circuit | `StartAttempt`, `TransitionUncertain`, `ContextFails`, `ProviderPauses` |
| signature of an enrolled invoice | `Sign`, `SignDone`, `SignFails`, `Clear`, `HoldSigned` |
| mark and fence, HTTP call, answer | `BeginSend`, `BeginConsult`, `Post`, `NotPosted`, `Answer` |
| consultation job of a guide | `ConsultGuide` |
| `guardar_respuesta_sunat`, `guardar_respuesta_sunat_gre`, proof of no submission, cancellation | `StoreResult`, `WithdrawSend`, `ResumeVoid`, `ApplyVoid`, `VoidApplyFails` |
| success and the exception handlers | `Finish` with `SaleVerdicts`, `NoteVerdicts`, `GuideVerdicts`, `VoidVerdicts` |
| `LeaseLost`, end of a process | `LoseLease`, `Crash` |
| SUNAT | `ProviderDecides`, and the choice of `Post` and `Answers` |

`Answers` is the only statement about the outside: an answer may be lost or
unreadable at any time, and says *accepted* or *rejected* only if that is the
document's fate. Provider fates are chosen freely and never change once final;
a note with a second number is another document for SUNAT and gets a fate anew.

Two writers reach a document besides the executions of its job, and
`document[j].other` remembers them:

- A request that loaded a note as a *draft*. `Number` gives the note a number
  and makes it pending whatever it has become, an accepted note included
  (*renumbering*); its commit releases the lock, and `Reopen` puts a job it read
  as failed back in the queue without looking again (*reopening*).
- The consultation job of a guide (*consultation*), asked for while the guide is
  pending. Like the guide's own job it stores its answer over whatever estado
  there is (`GuideResult`), a pending one over an acceptance included.

So an accepted note or guide is not final in this code, and no property here says
so: `SettledStays` speaks of documents that are sales or cancellations, and of
the job rows of all kinds unless a request reopened one without the lock
(`Unlocked`). For the same reason `OneCallInFlight` leaves `Unlocked` notes out,
`LocalVerdictIsTrue` and `SucceededIsAccepted` leave out the `Renumbered` ones,
and `AppliedOnce` the renumbered notes and consulted guides. What the second
number of a note does is a finding of its own (run `note_renumbered`, section 10),
and what the consultation does to the dispatch is in `InternalTransfer` and
`SaleLedger`.

### Abstractions

- *Time.* A live lease may expire at any moment and a queued or retry row may
  be due at any moment, so no bound on delays is used. `renew` of a live lease
  changes nothing here.
- *Counters.* `attempts` is kept as the attempts that remain (the only thing
  the code asks); submissions and effects are counted up to 2, since the
  properties ask only whether there was a second one.
- *Attempts table.* `history` keeps what the code reads of it: whether an
  attempt ended in doubt, otherwise the class of the latest.
- *Rejections.* A rejection is classified by its wording, which is not
  modelled: any class. `provider_policy` behaves as `ambiguous`.
- *Enrolment.* `enabled_for_job` is a constant per tenant.
- *Legacy rows.* Jobs written before the submission contract existed start in
  the states such a release left, invoices and voids only, already submitted
  once.
- *Consultation of a guide.* The lease of its own row is not modelled: one
  `ConsultGuide` stands for any execution of it, and once there was one there may
  be another at any time.
- *Elsewhere.* The retry through the provider's panel is in `PanelRetry`; the
  clock of the circuit breaker in `FiscalCircuit` (here an open circuit is a
  choice of `ProviderPauses`).
- *Left out.* The claim without a token of older workers, the synchronous path
  (`QuoteBilling` has its documents), the attempt rows of late results, PDF and artifact side effects, a tenant without any user,
  contradictory constancies.

### Runs

All of them have two workers, tokens `k1..k3`, two attempts and limits of two.
Two workers are what a fencing error needs (the old holder and the new one);
three tokens let a job be held a third time while two old holders still run.
Two attempts reach both sides of "attempts remain". Tokens, workers and
requests are interchangeable, so their symmetry is sound for the safety runs;
the liveness runs use none. `OneJob` lets one job at a time be used: jobs meet
only in the limits of `Claim`, and the initial states leave open which one it
is, so one run covers all its kinds. It also cuts what follows on the unlocked
requests: an `Unlocked` note is not taken into a pause, and a `Renumbered` one not
into two executions at a time, where only the types and the lease are claimed of
it (and proved, section 11). The run `emission` has about 316,000 states. No deadlock is asked for: once every job
is finished the system rests.

| run | instance | shows |
|---|---|---|
| `emission` | an enrolled invoice, a plain invoice and a cancellation that an old release may have left half done, a boleta, a note, a guide | `SentOnce`, `OneOwner`, `MarkedBeforeSend`, `LocalVerdictIsTrue`, `AppliedOnce`, `SucceededIsAccepted`, `SettledStays`, `OneCallInFlight`, also for notes and guides, which have no mark, and the refinement `ImplementsPermit` |
| `live` | an enrolled invoice (the kind with every step: signature, mark, consultation), two workers, one client | `ReservationEnds`, `SaleInDoubtResumes` and `AcceptanceIsLearned` under fairness |
| `pause_leaks`, `pending_note` | one boleta or one note | a disagreement each, section 10 |

`SentOnce` is not asserted of notes and guides: they have no mark, and a
timeout after the provider received one leads to a second submission through
the transient retry. The code does not claim otherwise; what the lease does
give them is `OneCallInFlight`, and a note loses that to an unlocked reopening.

### Fairness

`Fairness` assumes that a running thread takes its next step, that the
heartbeats of a thread which no longer owns its job end (`Lapse`), that the
coordinator recovers (it does once a minute) and that a free slot takes due
work. Nothing is assumed of crashes, requests, pauses or the provider: threads
may die forever and `ReservationEnds` still holds. `ProviderFairness` adds,
for `AcceptanceIsLearned` only, that a consultation is eventually reached and
eventually answered with the constancy there is, and that from some moment on
threads do not die and heartbeats are not late. It is an assumption about
SUNAT, not about the code, without which nothing can be learnt.

### The abstract permit

`SubmissionPermit` says what the evidence is for: a document's permit is open,
taken by an execution that is about to call, or spent; it is given back only by
a proof that nothing left, and a taken permit may be forfeited (a crash) but
never reopened by guessing. `permit` maps the queue to it: *open* is what the
snapshot allows, *taken* is an execution between the mark and the call (or with
the proof in its hands), *spent* is everything else. The interesting direction
is that crashes, expired leases, recoveries, retries and legacy rows are all
steps of the permit or stutters.

## 4. WorkerRuntime

One pass of `run()` is split where the code commits or where another thread
can act: `Prune` (shutdown, futures), `Snapshot` (generation), `Heartbeat`,
`Recover`, `Decide`, `Claim` / `EmptyClaim` / `FullClaim`, `Plan` / `Wait`,
`Wake`, with `DbError` for a query that fails (a claim whose commit succeeded
but whose answer is lost leaves a reservation that expires). `Release`, `Done`
and `Callback` are a job's end, its future's and the pulse it owes; `Connect`,
`Deliver`, `Disconnect` the listener; `Enqueue`, `Mature`, `TakenElsewhere`,
`LeftElsewhere` the rest of the world.

- The generation is a counter compared with two copies; the two flags of
  `signal` are exactly the outcomes of these comparisons.
- A pass reads the clock once; which of the deadlines *poll*, *fallback* and
  *next job* have passed is a choice of the pass. The metrics deadline always
  ends a wait in the end, so `Wake` is always possible.
- Left out: metrics, the validation of the listener's URL, tenant limits, rows
  missed by SKIP LOCKED, and the end of the lease of a job that this replica
  itself is running (`EmissionQueue` has it).

`runtime_live` has one thread and two jobs (so that the replica can be full
while work is due), another replica, the three wake modes and database errors:
`DueWorkIsLookedFor`, `LeasesAreTended` (heartbeats and recovery), `DrainEnds`. Fairness:
the loop goes round; each of the deadlines *poll* and *fallback* and the minute
of the recovery passes again and again; a future whose job ended completes and
makes its callback; the database is not down forever. A job may take forever
and every notice may be lost.

One loss needs no failure: a pulse between the pruning of the futures and the
reading of the generation belongs to a pass that counts the finished future as
active; it sees no free slot, takes the generation as seen and waits, so the due
job waits for the 60 s fallback. `DueWorkIsLookedFor` holds all the same, because
the fallback does look.

## 5. InternalTransfer

`transfer[t]` is the order, `dispatch[d]` a dispatch with its one line and its
guide, `stock` and `committed` the balances of the source and the destination.
Every operation of the service locks the tenant's row first, so each is one
action (`CreateTransfer`, `UpdateTransfer`, `CreateDispatch`, `CreateGuide`,
`ConfirmDeparture`, `ReceiveDispatch`, `AdjustStock`), status refresh included.
Two places are not protected by that lock, and are split: `cancel_transfer`
(`CancelRead`, `CancelCommit`), because the request that emits a guide
(`routers/guias.py`) validates (`ReadForEmission`) and marks
(`MarkGuidePending`) without it. `SubmitGuide`, `Decide`, `Consult`,
`SubmissionAnswered`, `ConsultAnswered` and their `...Unanswered` forms are the
guide's job and consultation as the transfer sees them: both may bring the
acceptance, in any order, before or after the goods left.

Abstractions: one good per order (the handlers treat every line alike inside
one transaction); an idempotency key is the identity of a dispatch, and a
repeated request is a stutter; catalogue and establishment checks and the
carrier's own guide, which may only refuse a departure, are left out; SUNAT's
verdict about a guide does not change. `adjusted` and `strayed` are bookkeeping
for the properties. `MaxAdjusted` bounds manual adjustments per warehouse
(including an administrator's adjustment below zero), `Readers` the emission
requests of one guide under way.

`transfers`: one order of one or two goods, stock of two, three dispatches (so
that a refused part is assigned again), adjustments of one, two simultaneous
emission requests; `OneGuide` lets one dispatch have a guide, since guides of
different dispatches meet only in the stock and in the order's status, which
the other dispatches touch without one. `GoodsConserved`, `NeverSendsMore`,
`CommittedIsReserved` and `DepartureStands` hold; the second conjuncts of
`NeverSendsMore` and `CommittedIsReserved` are about behaviours in which no dispatch has left without its reservation, because the
code does allow that one (`stray_departure`), which spoils both.

## 6. FiscalCircuit

`circuit[s]` is the row of a service (`cpe:sign` for signing, `cpe` for
submitting and consulting): failures in a row, time until the next probe, token
and remaining life of the probe. `job[j]` keeps of a job what the circuit
touches: whether it waits, in which of the two queues, who has it and how long
it is put off. `attempt[w]` is the execution in a thread, `probe[w]` what its
session remembers in `db.info`, `left[w]` (history) how long the reservation
its call goes by still lasts.

| code | actions |
|---|---|
| `emission_leases.claim`, recovery of expired leases | `Claim`, `RecoverJob`, `LeaseLapses` |
| `reserve_probe` before a signature, a submission, a consultation | `Reserve`, or `Paused` when it raises `ProviderPaused` |
| fence and mark before the call | `BeginCall` |
| the provider's answer and what it makes the worker report | `SignAnswered`, `SendAnswered`, `ConsultAnswered`, `AskPanel`, `PanelReserve`, `PanelAnswered` |
| `service_recovered`, `service_failed` | `ReportRecovered`, `ReportFailed` |
| closing the job, losing it, dying | `Finish`, `LeaseLost`, `Crash` |
| the clock; the provider is back | `Tick`, `CalmReturns` |

A report is a transaction of its own, so another thread may open, probe or close
the circuit between an answer and its report, and the job may be recovered and
run again meanwhile. A call that began while the circuit was closed has no
token, and its failure is counted whoever probes now; that is the case that
makes the invariants hard. A consultation that failed may go on to the panel,
which asks the circuit again in the same session.

Abstractions. A moment is the time left until it, so the clock needs no bound.
`FailureCap` stops the count of failures where `TimesAssumption` says that the
delay has reached its maximum, so the delays are exactly the code's. What the
session remembers is forgotten as soon as nothing reads it any more (the code
forgets it in the `finally`). `done` is a job that is settled in any way. Left
out: the legal deadlines (they may shorten a delay or end a job), the
enrolment filter and other environments (a circuit and its jobs belong to one
environment), the contingency pause and the panel's own markers.

`circuit` has two threads, an invoice to sign and one in doubt, five tokens (more
than can be remembered at once, so `Reserve` is never short of a fresh one), all
times 1 and one crash or lapsed lease. Two threads are a probe and its
successor, or a probe and a call that began before the outage; a second job is
the one that is put off. Times of 1 still separate *within the probe's life*,
*past it*, *within the back-off* and *past it*; that they are equal is the
boundary case of `LeaseWithinBackoff`. It shows:

- `OneProbe`: at most one call at a time goes by a reservation that has not run
  out;
- `ProbeStands`: an old outcome neither takes the token of a newer probe nor
  closes its circuit;
- `WorkResumes` under `Fairness`: once calls get a verdict and threads stop dying
  (`calm`), every job is settled, whatever probes were lost before. Fair are the
  threads (a due job is taken, an attempt goes on), the coordinator's recovery
  and the clock. `calm` itself is not assumed to come.

`OneProbe` needs a probe to live no longer than the back-off
(`LeaseWithinBackoff`): a failure without a token ends a running probe's
reservation early and only the back-off keeps the next one away. With a lease of
2 and a back-off of 1 TLC finds two probes at once. The defaults (300 s within
900 s and 1800 s) satisfy it; `config.py` itself asks only for 60 s of each.

## 7. QuoteBilling

`quote[q]` is a quote with its total and what its row says is paid; `doc[d]` a
request to convert a quote and the document it may create, with its number and
with how far the request or its job has come (`step`); `advance` and `paidTo`
are the payments of a quote and of a document; `paying[p]` is a payment between
its reading and its commit. `StockHolds`, which the module extends, is the
balance of the product sold (`onHand`, `committed`) and the hold of each
document; its operators are the calls to `inventory_service`, each under the
lock of the balance, and the actions here say when they are made.

| code | actions |
|---|---|
| `update_cotizacion`, `delete_cotizacion` | `EditQuote`, `DeleteQuote` |
| conversion endpoints, `create_fiscal_document_from_quote` | `AskConversion`, `CreateDocument`, `EndRequest` |
| `create_document_holds` and the two ways a lack of stock undoes a document | `HoldStock` (`Hold`), `RefuseStock`, `RefuseOverride` |
| enqueueing, the call, its answer | `EnqueueDocument`, `Submit`, `Accept` (`Finalize`), `Unaccepted`, `Rejected` (`Release`), `RetryDocument` |
| `anular_cotizacion` | `VoidDocument` (`Restore`) |
| `adjust_stock`, `transfer_stock`, `bulk_adjust_stock` | `AdjustStock` (`TakeStock`, `CountStock`) |
| `registrar_pago` | `BeginPayment`, `CommitPayment` |

The conversion locks the quote only when it creates the document; a payment
locks nothing, so the total that it writes may be older than what it changes.
The properties say what survives: `QuoteIsItsDocument`, `SentNumberStands` and
`PaymentsCountOnce`. The last two name the cases in which the code keeps no such
promise, documents of synchronous requests (deleted after they were sent) and
quotes that changed under a payment (`raced`).

Of the goods: `PromisesStand` says that what is committed is exactly what the
open holds promise, however requests die, documents are deleted, rejected,
retried or cancelled, and that it is on hand, except what was taken away by hand
or sold beyond the stock with an administrator's authorisation. `SoldIsGone`
says that what left the stock are the goods of the sales in force that had a
hold when SUNAT accepted them, each once, and that a cancelled sale has given
them back. When goods are missing at the acceptance, the movement is refused
after the sale was flushed as accepted and the promise taken off the balance;
the handler of the exception finds the sale accepted and commits. `missing` marks
such a hold: the sale stands, its hold stays open and its goods never leave.

Abstractions: the number is found and taken in one step, because the constraint
of the table makes the later of two requests repeat; a synchronous document is
neither consulted nor retried afterwards; limits of plan and quota only refuse a
request (`EndRequest`); the direct SUNAT branch is not reachable; the column
`saldo_pendiente` is derived and left out; notes and dispatches are in
`SaleLedger`. A document has one line, at price one, of a product under inventory
control, so its total is also its quantity; entries of stock, which nothing
refuses, are left out (a count may add). `taken`, `counted`, `byHand` and a
hold's `missing` are bookkeeping.

`billing`: two quotes, two conversions, one payer, totals of up to two, a series
that had one number elsewhere, one good on hand and one manual adjustment, count
or authorised lack of stock (`MaxByHand`). Two conversions are what one quote can
be fought over with, or what two quotes need to meet in one number; with one good
the two compete for it, a total of two is always short of goods, and one
adjustment is enough to make an accepted sale miss its goods. About 7.5 million
states.

## 8. SaleLedger

One accepted sale and all that is done with it. `document` and `void` are its
row and its cancellation, `dispatch[d]` a dispatch with its line, its guide, the
guide's job and a consultation, `emitting` the dispatch whose emission request
holds the lock of the sale, `note[n]` a note with its job, `deleting` the notes
that a deletion has read as drafts, `onHand` the stock.

| code | actions |
|---|---|
| `guardar_respuesta_sunat` of the sale, its goods there (`booked`) or not, manual adjustments | `SaleAccepted`, `SaleUnaccepted`, `AdjustStock` |
| cancellation of the sale | `RequestVoid`, `SendVoid`, `FailVoid`, `VoidRejected`, `VoidAccepted` |
| `create_from_document`, `update_dispatch`, `cancel_dispatch`, `confirm_departure` | `ReserveDispatch`, `PrepareDispatch`, `CancelDispatch`, `ConfirmDeparture` |
| emission of a guide, its job, its consultation | `BeginEmission`, `CommitEmission`, `AbortEmission`, `SubmitGuide`, `GuideAnswered`, `GuideUnanswered`, `GuidePending`, `ConsultGuide`, `ConsultAnswered`, `ConsultUnanswered` |
| drafts of notes | `WriteDraft`, `ReadDraft`, `DeleteNote` |
| numbering, older route, retry, job, cancellation, return of goods | `ReadForNumber`, `NumberNote`, `IssueNote`, `RetryNote`, `SubmitNote`, `NoteAccepted`, `NoteExceeds` (its goods refused, its acceptance kept), `NoteDoubtful`, `NoteUnanswered`, `VoidNote`, `ReceiveReturn` |

Dispatches, notes and the cancellation exclude one another, but each looks at
the others in a transaction of its own and acts on it in a later one, often after
the provider's answer. What holds all the same:

- `VoidStaysClean`: between the submission of the cancellation and its end no
  note is numbered and no goods are assigned, so SUNAT's constancy can always be
  applied. The branch of `VoidAccepted` that refuses is in the code and, by this
  property, never taken here;
- `GoodsLeaveCovered`: what leaves has a covered reservation of a sale in force,
  although the emission request may overwrite a cancelled dispatch;
- `CreditWithinSale`, `ReservedIsAvailable`: the credit given, and the credit
  promised to numbered notes, stay within the sale;
- `VoidRestoresStock`: the reversal brings back exactly what the sale took;
- `ImplementsAllotment`: the dispatches refine `LineAllotment`, which says of one
  sold line that the parts assigned never exceed it, that what was shipped stays
  assigned, and that nothing is assigned while a cancellation is under way.

Abstractions: the sale has one line at price one, so a quantity is an amount;
holds and committed quantities of the balance are in `StockHolds` (here the stock
is what is on hand); a request numbers a note and enqueues its job in one step, or dies in
between (`call` stays idle); requests on their way to number one note have all
read the same amount; the cancellation of a note is one step; the older route's
notes with items of their own move no stock, as in the code, and its notes
cannot be retried; its synchronous mode is left out. Requests to emit a guide may
overlap, which is why `BeginEmission` accepts a guide that is already marked.
SUNAT decides about a guide when it is submitted and about a note when it
answers; a job that waits for a person stays as it is. Sales with an authorised
lack of stock, and payments, are not here.

`sale_ledger`: two dispatches, two notes, at most two of them begun, goods taken
away by hand included (`MaxBegun`), two goods sold, two in stock, manual
adjustments that take one.
Any two of the four compete for the same line, amount and stock; with two goods
each may take all or a part.

## 9. PanelRetry

`job[j]` is a consultation's row with its panel marker and its quick reading,
`attempt[a]` the audit trail, `evidence` the document's marker, `run[w]` a
thread, `panel` the provider's record and `post[a]` what became of a POST.

| code | actions |
|---|---|
| leases, crashes | `Claim`, `Expire`, `Stop` |
| `_consume_panel_confirmation`, a constancy that is found | `StartConsult`, `Settle` |
| `_try_panel_invoice_retry`, `retry_invoice`, `eligibility` | `AskPanel`, `ListPanel`, `GiveUp` |
| `_reserve_panel_retry_attempt`, the POST, the panel | `Reserve`, `Post`, `Handle`, `PanelMoves` |
| `_complete_panel_retry_attempt`, any other answer, the handler | `Complete`, `Ambiguous`, `Close` |
| the clock | `ReadFallsDue`, `CoolingEnds` |

By its key (`emit:fiscal:<id>`) an invoice has one job, but the eligibility and
the PostgreSQL tests consider several, so `Job` is a set. Time is reduced to the
pause after a completed attempt (`cooling`) and to the quick reading being early
or due. Permissions, deadlines, contingency and the circuit can only veto
(`GiveUp`); the panel's sessions and HTTP are left out. After a lost answer only
consultations go on, for good: that is what `OnePostUnanswered` costs, and
`ChainStaysUsable` says that nothing but an open attempt has this effect.
`ReadBeforeRepeat` is the order of the quick reading and the next POST.

`panel`: two jobs, two threads, three attempts: one completed, one pending and
one that would be too many.

## 10. Disagreements between the code and what the repository says

| run | what happens |
|---|---|
| `stray_departure` | `confirm_departure` checks neither the dispatch's status nor its line: a dispatch of a cancelled transfer within one establishment leaves without a reservation and takes its quantity a second time from what is committed to others. |
| `pending_note` | A note still being processed by the provider is closed as a failed validation, may be retried by the user and is submitted again, although the comment at `facturacion_service.py:1314` says that it is consulted without being sent again. |
| `pause_leaks` | A request reads the contingency mode before the pause and inserts its row after the sweep: the row is queued and reserved while the tenant is paused. |
| `note_renumbered` | A second request to emit a draft has loaded it before the first one numbered it, reads it again under its lock without refreshing what it loaded, and gives a note that SUNAT accepted a new number and the state *pendiente*. |

## 11. Proofs

`EmissionQueueProofs` and `VerdictProofs` hold for every
number of jobs, tenants, workers, requests and tokens and any limits, from
`ConstantsAssumption` alone (jobs have a kind and a tenant, legacy rows are
invoices or voids, limits are positive).

- `TypeCorrect`: `Spec => []TypeOK`, one step per action.
- `OneOwnerHolds`: `OneOwner` is not inductive; the strengthening
  `TokensDiffer` says that any two executions carry different tokens, which
  `Claim` keeps because a token is fresh. Two executions of one job that both
  pass the check would both have the row's token.
- `MarkedBeforeSendHolds`, `SentOnceHolds`, `PermitImplemented` rest on
  `FenceInv`, for invoices and voids: while an execution holds the permit it is
  the only one, nothing has left yet and the evidence is closed; what was
  submitted has closed evidence; and there was one submission at most.
  `FenceInv` is needed because the HTTP call is *not* fenced: the old holder may
  post long after its lease is gone, and what excludes a second post is the
  mark it left, not the lease.
- For boletas, which have no mark, `SentOnceHolds` uses `BoletaInv`: once a
  boleta may have left (`Exposed`), its row is a consultation, or belongs to the
  execution that is past the call and has an open attempt, or ended in a way
  that no retry endpoint accepts (`Guarded`). It needs two facts about others:
  a retry that was admitted finds the job as it left it (`RetryOf`, from the
  document's row lock), and an owner past its claim has an open attempt
  (`StartedOf`), which is all the recovery looks at.
- `PermitImplemented`: initial states map to initial states and each action to
  a step of the permit or a stutter, with `FenceInv` as the invariant.
- `OneCallInFlightHolds`, `LocalVerdictIsTrueHolds`, `AppliedOnceHolds`,
  `SucceededIsAcceptedHolds` and `SettledStaysHolds` rest on `VerdictInv`, whose
  parts need one another. `CallOf`: a second call is kept out by `FenceInv` where
  there is a mark; elsewhere, while a thread is in the call, by the row, which
  is still its own, a consultation, or waits for a person (`Barred`). `TruthOf`:
  the document, the constancy kept with a batch and the answer a thread still
  carries are all the provider's decision, which is final for a number.
  `GuideOf`: nothing in a guide's document stops a second acceptance, so the
  proof shows that after an acceptance, and after a pending answer, no owner of
  the row can have an answer to store (`Settled`): the owner is the thread that
  stored it, or the job waits for a person, or it succeeded. A consultation
  therefore never meets an answer of the job, and a job that succeeded was never
  consulted. Each part is asked for only while nobody took it away: `VerdictOf`
  has the parts under the same exclusions as the properties (`Unlocked`,
  `Renumbered`, a consultation), `OtherOf` says which kind of document each of
  them can be true of, and `OtherSteps` that none is ever forgotten, so that a
  part which holds after a step held before it. `SettledStaysHolds` follows:
  `SucceededRowStays` for the rows, `SaleStays` for sales and cancellations.
  `SignedOf` says that what SUNAT knows of an enrolled invoice was signed
  before, so that a late signature never touches a settled document.
  `RowSteps`, `ThreadSteps`, `Moves`, `DocumentSteps`, `OtherSteps`, `FateSteps`
  and `SnapshotSteps` say once what any step does to each part of the state; each
  part of the invariant is then proved from them.

`FiscalCircuitProofs` holds for every set of threads, jobs and tokens and for all
times that satisfy `TimesAssumption` and `LeaseWithinBackoff`.

- `CircuitTypes`: `Spec => []TypeOK`, with `Busy` (an attempt under way has a
  job), which the actions need to stay in their types.
- `OneProbeHolds`: `OneProbe` is not inductive. A reservation is `Protected` if
  its token is the circuit's, or if the circuit has no token and is either
  closed (where nobody reserves) or backs off for at least as long as the
  reservation lasts: so no new one begins before this one is over. `ProbeInv` adds that a closed circuit has no probe,
  that two sessions never remember the same token, and `CallGoesBy`, that only
  a thread that is calling, or about to, has time left. `DelayBounds` is where
  `LeaseWithinBackoff` enters.
- `ProbeStandsHolds`: an action property; only the two reports and a new
  reservation touch a token, and each does so rightly.

`PanelRetryProofs` holds for any number of jobs, threads and attempts, from
`PanelAssumption`.

- `OnePostUnansweredHolds`, by `Posts`: one attempt at most is pending, and a
  POST is out only for a pending attempt; a receipt whose POST was not sent
  belongs to one thread; a reservation needs that nothing is pending
  (`EligibleIsQuiet`). The POST itself asks for no lease, so the invariant is
  about attempts and not about owners.
- `ReadBeforeRepeatHolds`, by `Reads`: a thread that may send belongs to a job
  whose reading is done, for as long as it owns the job.
- `ChainStaysUsableHolds`, by `Chain`: the document's marker is the newest
  attempt (`Tip`), the attempts are numbered and linked (`Chained`), and each job
  keeps a copy of an attempt of its own (`Copies`). `TipIsLast` says that the
  newest is the one `CHOOSE` finds.

`SumTheorems` is about the community operator `SumFunctionOnSet`, with which the
models add quantities and amounts over rows. It is a fold in an order that
`CHOOSE` fixes. The lemmas say that the sum of integers is an integer and that of
naturals a natural, that it is the same in every order (`SumRemove`: any element
may be taken out first), and what it does when rows change (`SumSame`,
`SumMonotone`, `SumSplit`, `SumOfPart`, `SumChange`). The induction they need is
stated without an operator parameter: `SubsetInduction` says that a collection
which contains every finite set whose proper subsets it contains, has them all,
and follows from the least element of a set of naturals. Sums exist for finite
sets only, so `QuantityAssumption`, `LedgerAssumption` and `StockAssumption` say
that there are finitely many dispatches, notes and documents. They are rows of
tables.

`SaleLedgerProofs` holds for any finite sets of dispatches and notes, any
quantity and any stock, from `LedgerAssumption`.

- `TypeCorrect`: with the stock never below nothing.
- `VoidStaysCleanHolds` and `GoodsLeaveCoveredHolds`, by `LedgerInv`: it adds
  `InOrder`, which ties a dispatch to its guide, its job and SUNAT's decision (a
  decision needs a job, a job a mark, and nothing that is marked becomes a draft
  again; the reservation outlives the acceptance). The two theorems need each other: goods stay covered because a
  cancellation waits for open dispatches, and a cancellation stays clean because
  departed dispatches are open.
- `CreditWithinSaleHolds`, `ReservedIsAvailableHolds` and
  `VoidRestoresStockHolds`, by `MoneyInv`, which adds `NoteInOrder` (an answer
  that is stored ends a note's job unless its goods are refused, and goods move
  with such an answer) and `Stocked`: the stock is at every moment what was there,
  with adjustments, without what the sale took and with what notes brought back;
  `VoidRestoresStock` is what remains of it when the sale is cancelled, since no
  note that stands has moved goods by then. The two statements about credit need each other: a pending
  note may be accepted because its amount was available, and it stays available
  because only a note that is numbered under the sale's lock takes from it
  (`NumberedNote`), while every other step is `Quiet`.
- `AllotmentImplemented`: the dispatches refine `LineAllotment`, by `AllotInv` (a
  part that is assigned is a part of something). A step that changes one dispatch
  assigns, frees or ships its part, or is a stutter.

`InternalTransferProofs` holds for any transfers, quantities and bounds and any
finite set of dispatches, from `QuantityAssumption`, by the invariant `Inv`:

- `RowInv`: types; a dispatch's line, guide and status fit together
  (`SoundRow`), and so do its guide's jobs (`Papers`); and what a cancellation
  read is still there when it commits (`Cancelling`), although the request that
  emits a guide does not wait for it. `TypeCorrect` needs it, and
  `DepartureStandsHolds` follows: what left has a line that says so, and the
  answers about the guide and the cancellation read only the line.
- `GoodsInv`: the goods of both warehouses with those on the way are what there
  was and what adjustments added, for `GoodsConservedHolds`.
- `CommittedIsReserved` (`CommittedIsReservedHolds`), which is inductive once the
  rows are sound, and its sum is known to follow each of them.
- `Fits`: what is claimed of an order fits in it, also after a cancellation that
  kept the guides under way, whose goods may come free later; with `Settled` (a
  completed order has no open dispatch) it gives `NeverSendsMoreHolds`.

`QuoteBillingProofs` holds for any number of quotes and payers, any totals and
any finite set of conversions, from `BillingAssumption` and `StockAssumption`, by
the invariant `SalesInv`:

- `QuoteIsItsDocumentHolds`, by `BillingInv`, that is `Shape`, `Sound` (what the
  state of one document says about its quote) and the property itself.
- `TypeCorrect`: the types of all rows, with nothing promised below zero.
- `SentNumberStandsHolds`, by `NumbersInv`: live documents differ in their
  numbers, and the document of a job keeps its row from its enqueueing on
  (`Numbered`), so that a number SUNAT knows is not given again.
- `PromisesStandHolds` and `SoldIsGoneHolds`: the two are inductive beside
  `HoldsInv`, which says what a hold tells of where its document stands (a job is
  under way only with its hold, a synchronous request ends with it, goods leave
  when the document is accepted).
- `PaymentsCountOnceHolds`, by `PayInv`: a payment on its way has read what is
  still true of its quote, unless the quote changed under it (`PaymentInOrder`),
  so its commit is within the balance; only accepted documents are paid
  (`PaidWhenIssued`), and a deleted quote has none (`DeletedIsFree`), so an
  acceptance moves the advances once.

**Only model-checked.** Every safety invariant, every action property of safety
and both refinements of the passing runs are proved. What stays with TLC is
liveness, which needs ENABLED: `WorkResumes` of the circuit, `ReservationEnds`,
`SaleInDoubtResumes` and `AcceptanceIsLearned` of the queue, `DueWorkIsLookedFor`,
`LeasesAreTended` and `DrainEnds` of `WorkerRuntime`.

## 12. Not modelled

Formatting, UBL, signatures, PDF, HTTP and parsing: the models take what an
answer means. Administration of tenants, users, subscriptions and catalogue,
reports, imports and the front end: single rows or no state. Quotas and plan
limits: they are checked in one transaction and counted in another, and the code
claims no exact limit. The series of guides: taken under a lock of the tenant,
like the numbers of `QuoteBilling`.

Seen while modelling, and without a property here (the hazards in `PROJECT.json`
name others):

- SUNAT accepts a sale whose goods are no longer on hand: the exception of
  `finalize_document_inventory` reaches the worker's handler, which finds the sale
  accepted and commits it (`services/emission_queue_service.py:1710`). The sale
  counts, `committed` is lowered, the hold stays active and the goods never
  leave; `test_inventory.py` (`test_sunat_acceptance_converts_hold_once`) only
  sees the case in which the goods are there.
- `delete_draft` reads a note without a lock and may delete it after it was
  numbered or accepted (`note_adjustment_service.py:419`); the sums of
  `SaleLedger` name these notes.
- A pending answer about a guide is stored over an accepted one
  (`crud/guias.py:308`; `GuideResult` in `EmissionQueue`, `GuidePending`).
- A request that has just numbered a note goes on without its lock and puts a job
  it read as failed back in the queue (`emission_queue_service.py:229`): another
  request may have requeued it, and the note be in a call, by then (`Reopen`).
- Notes of motives 01 and 06 for undelivered goods do not look at the dispatches
  of the sale (`Adjusts`).
- A rejected note stays *pendiente* and stands in the way of a cancellation.
- The holds of a synchronous document are created after it was finalized
  (`routers/facturacion.py:977`): they stay active and its goods never leave;
  `SoldIsGone` leaves these documents out. In the same way nothing ends the hold
  of a document whose request died before its job was enqueued
  (`routers/facturacion.py:909`), and no user can retry it.
- The cancellation of a sale and `create_from_document` take their locks in
  different orders; the database ends such a deadlock.
- A second acceptance or a late emission request writes the status of a transfer
  dispatch that has left (`internal_transfer_service.py:599`); `DepartureStands`
  asks only for what a departure needs.
