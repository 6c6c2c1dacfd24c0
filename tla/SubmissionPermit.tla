-------------------------- MODULE SubmissionPermit --------------------------
(***************************************************************************)
(* What the submission contract promises about a document that must not    *)
(* reach the provider twice: an invoice or a cancellation.  There is one   *)
(* permit per document.  It is taken before the call, spent by the call or *)
(* by losing sight of it, and given back only with proof that nothing left.*)
(*                                                                         *)
(* Source: backend/services/fiscal_submission_state.py:1-7 states it for   *)
(* invoices, docs/BAJAS_AUTOMATICAS.md for cancellations.                  *)
(***************************************************************************)
EXTENDS Naturals

CONSTANT Document

VARIABLES permit, sent

vars == <<permit, sent>>

\* A document of unknown history starts with its permit spent.
Init ==
    /\ permit \in [Document -> {"open", "spent"}]
    /\ sent \in [Document -> 0..1]
    /\ \A d \in Document : sent[d] = 1 => permit[d] = "spent"

Take(d) ==
    /\ permit[d] = "open"
    /\ permit' = [permit EXCEPT ![d] = "taken"]
    /\ UNCHANGED sent

GiveBack(d) ==
    /\ permit[d] = "taken"
    /\ permit' = [permit EXCEPT ![d] = "open"]
    /\ UNCHANGED sent

Deliver(d) ==
    /\ permit[d] = "taken"
    /\ permit' = [permit EXCEPT ![d] = "spent"]
    /\ sent' = [sent EXCEPT ![d] = @ + 1]

Forfeit(d) ==
    /\ permit[d] = "taken"
    /\ permit' = [permit EXCEPT ![d] = "spent"]
    /\ UNCHANGED sent

Next == \E d \in Document : Take(d) \/ GiveBack(d) \/ Deliver(d) \/ Forfeit(d)

Spec == Init /\ [][Next]_vars
=============================================================================
