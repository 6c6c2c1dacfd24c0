--------------------------- MODULE MCEmissionQueue ---------------------------
(* Small instances of EmissionQueue for TLC. *)
EXTENDS EmissionQueue, TLC

CONSTANTS j1, j2, j3, j4, j5, j6, t1, t2, k1, k2, k3, w1, w2, c1, c2

\* An invoice of an enrolled company, one of a company that is not, a boleta,
\* a credit note, a guide, a cancellation.
Documents == [j \in Job |-> CASE j \in {j1, j2} -> "invoice" [] j = j3 -> "boleta"
                              [] j = j4 -> "note" [] j = j5 -> "guide" [] j = j6 -> "void"]
Owners    == [j \in Job |-> IF j \in {j2, j3} THEN t2 ELSE t1]
Invoice   == [j \in Job |-> "invoice"]
Boleta    == [j \in Job |-> "boleta"]
Note      == [j \in Job |-> "note"]
OneTenant == [j \in Job |-> t1]

\* One of the jobs of a run at a time: the jobs only meet in the limits of
\* Claim, and a behaviour with one job of each kind is explored for all kinds.
\* A pause of a tenant that is not its owner does not reach it.  A note that a
\* request without its lock wrote is not followed into a pause as well, nor one
\* with a second number into two executions at a time: no property but the types
\* speaks of it there.
Used(j) ==
    \/ job[j].status # "absent" \/ \E c \in Client : request[c].job = j
    \/ Kind[j] = "note" /\ document[j].state # "draft"
UsedJobs == {j \in Job : Used(j)}
OneJob ==
    /\ Cardinality(UsedJobs) <= 1
    /\ \A t \in Tenant, j \in UsedJobs : contingency[t] => TenantOf[j] = t
    /\ \A j \in UsedJobs : Unlocked(j) => ~contingency[TenantOf[j]]
                                      /\ \A c \in Client : request[c].target = "queued"
    /\ \A j \in UsedJobs : Renumbered(j) => \E w \in Worker : execution[w] = Idle

\* Tokens, workers and requests are interchangeable.
Symmetry == Permutations(Token) \cup Permutations(Worker) \cup Permutations(Client)
=============================================================================
