----------------------------- MODULE PanelRetry -----------------------------
(***************************************************************************)
(* The retry of an invoice through the provider's panel                    *)
(* (services/panel_retry_state.py, services/smartpse_panel_client.py and   *)
(* the consultation of services/emission_queue_service.py).                *)
(*                                                                         *)
(* A consultation that finds no constancy may ask the panel to send its    *)
(* own record once more.  Every such POST is reserved under the lease of   *)
(* the job and the lock of the document, in three places: the audit trail, *)
(* the snapshot of the job and the evidence of the document.  Only the     *)
(* explicit failure that this very POST was answered with completes it,    *)
(* and only a completed chain admits another one, after a pause.  One      *)
(* quick reading follows each POST.                                        *)
(*                                                                         *)
(* This is one invoice.  It has one job by the key of its enqueueing; the  *)
(* chain is written to hold among several, so Job is a set.  A completed   *)
(* marker and a started one differ in their state only; time is left out,  *)
(* apart from whether a pause or a quick reading is due.                   *)
(***************************************************************************)
EXTENDS Naturals

CONSTANTS
    Job,      \* consultations of the invoice
    Worker,   \* threads, of any replica
    Attempt,  \* identities of attempts
    None      \* no job, worker or attempt

ASSUME PanelAssumption == None \notin Job \cup Worker \cup Attempt

VARIABLES
    job,       \* rows of the queue with what their snapshots say of the panel
    attempt,   \* the audit trail: attempts that were started and completed
    evidence,  \* the marker kept with the document
    settled,   \* a constancy, of either kind, is stored with the document
    cooling,   \* the pause after the last completed attempt is not over
    run,       \* executions in the threads
    panel,     \* the record of the invoice in the panel
    post       \* what became of the POST of an attempt

vars == <<job, attempt, evidence, settled, cooling, run, panel, post>>

NoMarker == [id |-> None, state |-> "none"]

NewAttempt == [state |-> "none", job |-> None, sequence |-> 0, previous |-> None]

Idle == [job |-> None, step |-> "idle", quiet |-> FALSE, previous |-> None, receipt |-> None]

Step == {"idle", "claimed", "consulting", "listing", "listed", "reserved", "posted", "closing"}

Read == {"none", "early", "due", "consumed"}

Init ==
    /\ job = [j \in Job |-> [status |-> "due", owner |-> None, marker |-> NoMarker,
                             read |-> "none"]]
    /\ attempt = [a \in Attempt |-> NewAttempt]
    /\ evidence = NoMarker
    /\ settled = FALSE
    /\ cooling = FALSE
    /\ run = [w \in Worker |-> Idle]
    /\ panel \in {"error", "busy"}
    /\ post = [a \in Attempt |-> "none"]

-----------------------------------------------------------------------------
(* What the code reads. *)

\* emission_leases.check.
Owns(w) == run[w].job # None /\ job[run[w].job].owner = w

Started == {a \in Attempt : attempt[a].state # "none"}

Last ==
    IF Started = {} THEN None
    ELSE CHOOSE a \in Started : \A b \in Started : attempt[b].sequence <= attempt[a].sequence

\* The audits are starts and completions by turns, numbered and linked.
Chained ==
    \A a \in Started :
        /\ \A b \in Started \ {a} : attempt[a].sequence # attempt[b].sequence
        /\ IF attempt[a].sequence = 1 THEN attempt[a].previous = None
           ELSE \E b \in Started : /\ attempt[a].previous = b
                                   /\ attempt[a].sequence = attempt[b].sequence + 1
                                   /\ attempt[b].state = "failed"

Completed == \A a \in Started : attempt[a].state = "failed"

\* A copy is one of the two audited versions of an attempt of its own job.
Audited(j) ==
    LET a == job[j].marker.id
    IN  /\ a \in Started
        /\ attempt[a].job = j
        /\ job[j].marker.state \in {"possible", attempt[a].state}

\* panel_retry_state.eligibility, apart from the clock.
Consistent ==
    IF Started = {}
    THEN evidence = NoMarker /\ \A j \in Job : job[j].marker = NoMarker
    ELSE /\ Chained /\ Completed
         /\ evidence = [id |-> Last, state |-> "failed"]
         /\ \A a \in Started : job[attempt[a].job].marker # NoMarker
         /\ \A j \in Job : job[j].marker # NoMarker => Audited(j)

Eligible == Consistent /\ ~cooling

-----------------------------------------------------------------------------
(* Leases, threads and time *)

Claim(w, j) ==
    /\ run[w].step = "idle" /\ job[j].status = "due"
    /\ job' = [job EXCEPT ![j].status = "taken", ![j].owner = w]
    /\ run' = [run EXCEPT ![w].job = j, ![w].step = "claimed"]
    /\ UNCHANGED <<attempt, evidence, settled, cooling, panel, post>>

\* The lease of a job ends and its row is recovered.
Expire(j) ==
    /\ job[j].status = "taken"
    /\ job' = [job EXCEPT ![j].status = "due", ![j].owner = None]
    /\ UNCHANGED <<attempt, evidence, settled, cooling, run, panel, post>>

\* A thread dies, or learns at a check that it lost its job.  A POST that is
\* reserved goes out without another check.
Stop(w) ==
    /\ run[w].step # "idle"
    /\ run' = [run EXCEPT ![w] = Idle]
    /\ UNCHANGED <<job, attempt, evidence, settled, cooling, panel, post>>

ReadFallsDue(j) ==
    /\ job[j].read = "early"
    /\ job' = [job EXCEPT ![j].read = "due"]
    /\ UNCHANGED <<attempt, evidence, settled, cooling, run, panel, post>>

CoolingEnds ==
    /\ cooling
    /\ cooling' = FALSE
    /\ UNCHANGED <<job, attempt, evidence, settled, run, panel, post>>

-----------------------------------------------------------------------------
(* The provider, of which nothing is assumed but that a constancy stays *)

PanelMoves ==
    /\ panel # "cdr"
    /\ panel' \in {"error", "busy", "cdr"}
    /\ UNCHANGED <<job, attempt, evidence, settled, cooling, run, post>>

\* A POST that arrived is refused with an explicit temporary failure, or has any
\* other end, which may be anything.
Handle(a) ==
    /\ post[a] = "sent"
    /\ \E end \in {"failed", "other"} : post' = [post EXCEPT ![a] = end]
    /\ UNCHANGED <<job, attempt, evidence, settled, cooling, run, panel>>

-----------------------------------------------------------------------------
(* The consultation *)

\* Mutant: only a reading whose time has come makes the consultation quiet.
Quiet_Due(j) == job[j].read = "due"

\* A scheduled reading that is not done keeps the consultation from sending.
Quiet(j) == job[j].read \in {"early", "due"}

\* _consume_panel_confirmation, with the fence before the provider.
StartConsult(w) ==
    LET j == run[w].job
    IN  /\ run[w].step = "claimed" /\ Owns(w)
        /\ job' = [job EXCEPT ![j].read = IF @ = "due" THEN "consumed" ELSE @]
        /\ run' = [run EXCEPT ![w].step = "consulting", ![w].quiet = Quiet(j)]
        /\ UNCHANGED <<attempt, evidence, settled, cooling, panel, post>>

\* The consultation or the list of the panel has the constancy: it is stored and
\* the job succeeds.
Settle(w) ==
    LET j == run[w].job
    IN  /\ run[w].step \in {"consulting", "listing"} /\ Owns(w)
        /\ panel = "cdr"
        /\ settled' = TRUE
        /\ job' = [job EXCEPT ![j].status = "done", ![j].owner = None]
        /\ run' = [run EXCEPT ![w] = Idle]
        /\ UNCHANGED <<attempt, evidence, cooling, panel, post>>

\* _try_panel_invoice_retry: no constancy is found, and a look at the chain says
\* that the panel may be asked.
AskPanel(w) ==
    /\ run[w].step = "consulting" /\ Owns(w)
    /\ ~run[w].quiet /\ ~settled /\ Eligible
    /\ run' = [run EXCEPT ![w].step = "listing", ![w].previous = Last]
    /\ UNCHANGED <<job, attempt, evidence, settled, cooling, panel, post>>

\* retry_invoice finds the record in a state that may be repeated.
ListPanel(w) ==
    /\ run[w].step = "listing"
    /\ panel = "error"
    /\ run' = [run EXCEPT ![w].step = "listed"]
    /\ UNCHANGED <<job, attempt, evidence, settled, cooling, panel, post>>

\* Anything else ends in the handler: no constancy, a quiet consultation, a
\* chain or a record that does not admit it, a veto of permissions, deadline,
\* pause or circuit.
GiveUp(w) ==
    /\ run[w].step \in {"consulting", "listing", "listed"}
    /\ run' = [run EXCEPT ![w].step = "closing"]
    /\ UNCHANGED <<job, attempt, evidence, settled, cooling, panel, post>>

-----------------------------------------------------------------------------
(* The attempt *)

\* Mutant: what was read before the network is trusted.
StillEligible_AsRead(w) == TRUE

StillEligible(w) == Eligible /\ Last = run[w].previous

\* _reserve_panel_retry_attempt: one fenced commit under the lock of the document.
Reserve(w, a) ==
    LET j == run[w].job
        marker == [id |-> a, state |-> "possible"]
    IN  /\ run[w].step = "listed" /\ Owns(w)
        /\ StillEligible(w)
        /\ ~settled
        /\ a \notin Started
        /\ attempt' = [attempt EXCEPT ![a] =
               [state |-> "possible", job |-> j, previous |-> run[w].previous,
                sequence |-> IF Last = None THEN 1 ELSE attempt[Last].sequence + 1]]
        /\ job' = [job EXCEPT ![j].marker = marker, ![j].read = "early"]
        /\ evidence' = marker
        /\ run' = [run EXCEPT ![w].step = "reserved", ![w].receipt = a]
        /\ UNCHANGED <<settled, cooling, panel, post>>

\* The POST, which may not arrive.
Post(w) ==
    /\ run[w].step = "reserved"
    /\ \E arrives \in BOOLEAN :
           post' = IF arrives THEN [post EXCEPT ![run[w].receipt] = "sent"] ELSE post
    /\ run' = [run EXCEPT ![w].step = "posted"]
    /\ UNCHANGED <<job, attempt, evidence, settled, cooling, panel>>

\* Mutant: the document keeps the marker of the start.
Evidence_Kept(marker) == evidence

\* What the document keeps of the marker that completes an attempt.
Evidence(marker) == marker

\* _complete_panel_retry_attempt: the explicit failure of this POST, while the
\* three places still have its reservation.  The quick reading is put off anew in
\* a second commit, which may not come.
Complete(w) ==
    LET j == run[w].job
        a == run[w].receipt
        marker == [id |-> a, state |-> "failed"]
    IN  /\ run[w].step = "posted" /\ Owns(w)
        /\ post[a] = "failed"
        /\ ~settled
        /\ evidence = [id |-> a, state |-> "possible"] /\ job[j].marker = evidence
        /\ attempt' = [attempt EXCEPT ![a].state = "failed"]
        /\ \E again \in {job[j].read, "early"} :
               job' = [job EXCEPT ![j].marker = marker, ![j].read = again]
        /\ evidence' = Evidence(marker)
        /\ cooling' = TRUE
        /\ run' = [run EXCEPT ![w].step = "closing"]
        /\ UNCHANGED <<settled, panel, post>>

\* Every other answer, or none, or a failure that finds the document settled.
Ambiguous(w) ==
    LET j == run[w].job
    IN  /\ run[w].step = "posted" /\ Owns(w)
        /\ job' = [job EXCEPT ![j].read = IF @ = "due" THEN "early" ELSE @]
        /\ run' = [run EXCEPT ![w].step = "closing"]
        /\ UNCHANGED <<attempt, evidence, settled, cooling, panel, post>>

\* The handler: a job of a settled document succeeds, any other consults again.
Close(w) ==
    LET j == run[w].job
    IN  /\ run[w].step = "closing" /\ Owns(w)
        /\ job' = [job EXCEPT ![j].status = IF settled THEN "done" ELSE "due",
                              ![j].owner = None]
        /\ run' = [run EXCEPT ![w] = Idle]
        /\ UNCHANGED <<attempt, evidence, settled, cooling, panel, post>>

-----------------------------------------------------------------------------
Next ==
    \/ \E w \in Worker :
           \/ \E j \in Job : Claim(w, j)
           \/ Stop(w)
           \/ StartConsult(w) \/ Settle(w) \/ AskPanel(w) \/ ListPanel(w) \/ GiveUp(w)
           \/ \E a \in Attempt : Reserve(w, a)
           \/ Post(w) \/ Complete(w) \/ Ambiguous(w) \/ Close(w)
    \/ \E j \in Job : Expire(j) \/ ReadFallsDue(j)
    \/ \E a \in Attempt : Handle(a)
    \/ CoolingEnds \/ PanelMoves

Spec == Init /\ [][Next]_vars

-----------------------------------------------------------------------------
(* Safety *)

\* The provider is never given a second POST of the invoice while a first one
\* that it got has not been refused explicitly, whichever jobs and threads sent
\* them, however late: test_lost_panel_response_never_allows_second_attempt and
\* test_two_jobs_for_same_invoice_authorize_exactly_one_panel_post.
OnePostUnanswered ==
    \A a, b \in Attempt :
        post[a] \in {"sent", "other"} /\ post[b] \in {"sent", "other"} => a = b

\* A completed chain is never blocked by its own copies: once the pause is over
\* another attempt is admitted, for every job, whatever crashed, expired or
\* answered late in between.
ChainStaysUsable ==
    (\A a \in Attempt : attempt[a].state # "possible") => Consistent

\* A job does its quick reading after a POST before it sends another one, even
\* if it is woken early or the reading is late
\* (test_delayed_quick_consultation_cannot_resend_after_post_cooldown).
ReadBeforeRepeat ==
    [][\A j \in Job :
          job[j].marker # NoMarker /\ job'[j].marker.id # job[j].marker.id
              => job[j].read = "consumed"]_vars

=============================================================================
