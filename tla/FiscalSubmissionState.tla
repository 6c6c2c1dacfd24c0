------------------------ MODULE FiscalSubmissionState ------------------------
(***************************************************************************)
(* Local evidence about the first submission of a document, kept in the    *)
(* payload snapshot of its emission job.                                   *)
(*                                                                         *)
(* Source: backend/services/fiscal_submission_state.py (invoices) and the  *)
(* void_protocol_version / void_send_started / void_result keys that       *)
(* backend/services/void_recovery_service.py keeps in the same snapshot.   *)
(* A snapshot is abstracted to the keys that a decision of the worker      *)
(* reads.  A snapshot written before the contract existed has version 0.   *)
(***************************************************************************)
EXTENDS Naturals

VERSION == 1

Phase == {"none", "not_started", "possible_submission", "not_submitted"}

\* The evidence a cancellation job keeps about its batch (key void_result).
BatchEvidence == {"none", "accepted", "rejected"}

Snapshot == [version     : {0, VERSION},
             phase       : Phase,
             sendStarted : BOOLEAN,
             retrySigned : BOOLEAN,
             result      : BatchEvidence]

\* A snapshot with no submission contract: boletas, notes, guides, and every
\* job created before the contract.
PlainSnapshot == [version |-> 0, phase |-> "none", sendStarted |-> FALSE,
                  retrySigned |-> FALSE, result |-> "none"]

initial_state == [PlainSnapshot EXCEPT !.version = VERSION,
                                       !.phase = "not_started"]

\* The frozen batch of a cancellation: void_send_started is false.
prepare_snapshot == [PlainSnapshot EXCEPT !.version = VERSION]

\* Mutant: a snapshot without a contract counts as not submitted.
can_submit_Lenient(snapshot) ==
    /\ snapshot.phase # "possible_submission"
    /\ ~snapshot.sendStarted

can_submit(snapshot) ==
    /\ snapshot.version = VERSION
    /\ snapshot.phase \in {"not_started", "not_submitted"}
    /\ ~snapshot.sendStarted
    /\ ~snapshot.retrySigned

mark_possible(snapshot) ==
    [snapshot EXCEPT !.phase = "possible_submission", !.sendStarted = TRUE]

can_withdraw(snapshot) ==
    /\ snapshot.version = VERSION
    /\ snapshot.phase = "possible_submission"
    /\ snapshot.sendStarted
    /\ ~snapshot.retrySigned

mark_not_submitted(snapshot) ==
    [snapshot EXCEPT !.phase = "not_submitted", !.sendStarted = FALSE]

\* What the worker leaves in the snapshot of an invoice it may not submit:
\* the mark of an old "retry the signed XML" flow becomes a started send.
uncertain(snapshot) ==
    [snapshot EXCEPT !.sendStarted = @ \/ snapshot.retrySigned,
                     !.retrySigned = FALSE]
=============================================================================
