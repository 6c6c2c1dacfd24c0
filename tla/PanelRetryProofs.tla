-------------------------- MODULE PanelRetryProofs --------------------------
(***************************************************************************)
(* What PanelRetry keeps for any number of jobs, threads and attempts.     *)
(* Three invariants rest on Shape: Posts says where a POST may be out,     *)
(* Chain that the three places agree, Reads that a thread which may send   *)
(* has no reading before it.                                               *)
(***************************************************************************)
EXTENDS PanelRetry, TLAPS

Marker == [id : Attempt \cup {None}, state : {"none", "possible", "failed"}]

\* The rows of the queue.
JobShape ==
    job \in [Job -> [status : {"due", "taken", "done"}, owner : Worker \cup {None},
                     marker : Marker, read : Read]]

\* The executions: a thread that is busy has a job, and one that sends an attempt.
RunShape ==
    /\ run \in [Worker -> [job : Job \cup {None}, step : Step, quiet : BOOLEAN,
                           previous : Attempt \cup {None}, receipt : Attempt \cup {None}]]
    /\ \A w \in Worker : run[w].step # "idle" => run[w].job \in Job
    /\ \A w \in Worker : run[w].step \in {"reserved", "posted"} => run[w].receipt \in Attempt

\* The audits, and their POSTs.
AttemptShape ==
    /\ attempt \in [Attempt -> [state : {"none", "possible", "failed"},
                                job : Job \cup {None}, sequence : Nat,
                                previous : Attempt \cup {None}]]
    /\ post \in [Attempt -> {"none", "sent", "failed", "other"}]

\* Everything has the shape its writers give it.
Shape ==
    /\ JobShape /\ RunShape /\ AttemptShape
    /\ evidence \in Marker /\ settled \in BOOLEAN

LEMMA ShapeInit == Init => Shape
<1>. SUFFICES ASSUME Init PROVE Shape
  OBVIOUS
<1>. USE PanelAssumption DEF Init
<1>1. NoMarker \in Marker
  BY DEF NoMarker, Marker
<1>2. JobShape
  BY <1>1 DEF JobShape, Read
<1>3. RunShape
  BY DEF RunShape, Idle, Step
<1>4. AttemptShape
  BY DEF AttemptShape, NewAttempt
<1>. QED
  BY <1>1, <1>2, <1>3, <1>4 DEF Shape

\* What the chain says last is an attempt, or none.
LEMMA LastKnown ==
    ASSUME Shape, Eligible
    PROVE  Last \in Attempt \cup {None}
<1>1. CASE Started = {}
  BY <1>1 DEF Last
<1>2. CASE Started # {}
  <2>1. evidence = [id |-> Last, state |-> "failed"]
    BY <1>2 DEF Eligible, Consistent
  <2>. QED
    BY <2>1 DEF Shape, Marker
<1>. QED
  BY <1>1, <1>2

\* Attempts are numbered from one.
LEMMA NextSequence ==
    ASSUME Shape, Eligible
    PROVE  (IF Last = None THEN 1 ELSE attempt[Last].sequence + 1) \in Nat
BY LastKnown DEF Shape, AttemptShape

LEMMA ShapeStep == Shape /\ [Next]_vars => Shape'
<1>. SUFFICES ASSUME Shape, [Next]_vars PROVE Shape'
  OBVIOUS
<1>. USE PanelAssumption
<1>1. ASSUME NEW w \in Worker, NEW j \in Job, Claim(w, j) PROVE Shape'
  <2>1. JobShape'
    BY <1>1 DEF Shape, JobShape, Claim
  <2>2. RunShape'
    BY <1>1 DEF Shape, RunShape, Claim, Step
  <2>. QED
    BY <1>1, <2>1, <2>2 DEF Shape, AttemptShape, Claim
<1>2. ASSUME NEW w \in Worker, Stop(w) PROVE Shape'
  <2>1. RunShape'
    BY <1>2 DEF Shape, RunShape, Stop, Idle, Step
  <2>. QED
    BY <1>2, <2>1 DEF Shape, AttemptShape, JobShape, Stop
<1>3. ASSUME NEW w \in Worker, StartConsult(w) PROVE Shape'
  <2>1. JobShape'
    BY <1>3 DEF Shape, JobShape, StartConsult, Read
  <2>2. Quiet(run[w].job) \in BOOLEAN
    BY DEF Quiet
  <2>3. RunShape'
    BY <1>3, <2>2 DEF Shape, RunShape, StartConsult, Step
  <2>. QED
    BY <1>3, <2>1, <2>3 DEF Shape, AttemptShape, StartConsult
<1>4. ASSUME NEW w \in Worker, Settle(w) PROVE Shape'
  <2>1. JobShape'
    BY <1>4 DEF Shape, JobShape, Settle
  <2>2. RunShape'
    BY <1>4 DEF Shape, RunShape, Settle, Idle, Step
  <2>. QED
    BY <1>4, <2>1, <2>2 DEF Shape, AttemptShape, Settle
<1>5. ASSUME NEW w \in Worker, AskPanel(w) PROVE Shape'
  <2>1. Last \in Attempt \cup {None}
    BY <1>5, LastKnown DEF AskPanel
  <2>2. RunShape'
    BY <1>5, <2>1 DEF Shape, RunShape, AskPanel, Step
  <2>. QED
    BY <1>5, <2>2 DEF Shape, AttemptShape, JobShape, AskPanel
<1>6. ASSUME NEW w \in Worker, ListPanel(w) PROVE Shape'
  <2>1. RunShape'
    BY <1>6 DEF Shape, RunShape, ListPanel, Step
  <2>. QED
    BY <1>6, <2>1 DEF Shape, AttemptShape, JobShape, ListPanel
<1>7. ASSUME NEW w \in Worker, GiveUp(w) PROVE Shape'
  <2>1. RunShape'
    BY <1>7 DEF Shape, RunShape, GiveUp, Step
  <2>. QED
    BY <1>7, <2>1 DEF Shape, AttemptShape, JobShape, GiveUp
<1>8. ASSUME NEW w \in Worker, NEW a \in Attempt, Reserve(w, a) PROVE Shape'
  <2>1. [id |-> a, state |-> "possible"] \in Marker
    BY DEF Marker
  <2>2. JobShape'
    BY <1>8, <2>1 DEF Shape, JobShape, Reserve, Read
  <2>3. RunShape'
    BY <1>8 DEF Shape, RunShape, Reserve, Step
  <2>4. (IF Last = None THEN 1 ELSE attempt[Last].sequence + 1) \in Nat
    BY <1>8, NextSequence DEF Reserve, StillEligible
  <2>5. AttemptShape'
    BY <1>8, <2>4 DEF Shape, AttemptShape, RunShape, Reserve
  <2>. QED
    BY <1>8, <2>1, <2>2, <2>3, <2>5 DEF Shape, Reserve
<1>9. ASSUME NEW w \in Worker, Post(w) PROVE Shape'
  <2>1. RunShape'
    BY <1>9 DEF Shape, RunShape, Post, Step
  <2>2. AttemptShape'
    BY <1>9 DEF Shape, AttemptShape, Post
  <2>. QED
    BY <1>9, <2>1, <2>2 DEF Shape, JobShape, Post
<1>10. ASSUME NEW w \in Worker, Complete(w) PROVE Shape'
  <2>1. run[w].receipt \in Attempt /\ run[w].job \in Job
    BY <1>10 DEF Shape, RunShape, Complete
  <2>2. [id |-> run[w].receipt, state |-> "failed"] \in Marker
    BY <2>1 DEF Marker
  <2>3. JobShape'
    BY <1>10, <2>1, <2>2 DEF Shape, JobShape, Complete, Read
  <2>4. RunShape'
    BY <1>10 DEF Shape, RunShape, Complete, Step
  <2>5. AttemptShape'
    BY <1>10, <2>1 DEF Shape, AttemptShape, Complete
  <2>. QED
    BY <1>10, <2>2, <2>3, <2>4, <2>5 DEF Shape, Complete, Evidence
<1>11. ASSUME NEW w \in Worker, Ambiguous(w) PROVE Shape'
  <2>1. JobShape'
    BY <1>11 DEF Shape, JobShape, Ambiguous, Read
  <2>2. RunShape'
    BY <1>11 DEF Shape, RunShape, Ambiguous, Step
  <2>. QED
    BY <1>11, <2>1, <2>2 DEF Shape, AttemptShape, Ambiguous
<1>12. ASSUME NEW w \in Worker, Close(w) PROVE Shape'
  <2>1. JobShape'
    BY <1>12 DEF Shape, JobShape, Close
  <2>2. RunShape'
    BY <1>12 DEF Shape, RunShape, Close, Idle, Step
  <2>. QED
    BY <1>12, <2>1, <2>2 DEF Shape, AttemptShape, Close
<1>13. ASSUME NEW j \in Job, Expire(j) PROVE Shape'
  <2>1. JobShape'
    BY <1>13 DEF Shape, JobShape, Expire
  <2>. QED
    BY <1>13, <2>1 DEF Shape, AttemptShape, RunShape, Expire
<1>14. ASSUME NEW j \in Job, ReadFallsDue(j) PROVE Shape'
  <2>1. JobShape'
    BY <1>14 DEF Shape, JobShape, ReadFallsDue, Read
  <2>. QED
    BY <1>14, <2>1 DEF Shape, AttemptShape, RunShape, ReadFallsDue
<1>15. ASSUME NEW a \in Attempt, Handle(a) PROVE Shape'
  BY <1>15 DEF Shape, AttemptShape, JobShape, RunShape, Handle
<1>16. CASE CoolingEnds \/ PanelMoves \/ UNCHANGED vars
  BY <1>16 DEF Shape, AttemptShape, JobShape, RunShape, CoolingEnds, PanelMoves, vars
<1>. QED
  BY <1>1, <1>2, <1>3, <1>4, <1>5, <1>6, <1>7, <1>8, <1>9, <1>10, <1>11, <1>12,
     <1>13, <1>14, <1>15, <1>16 DEF Next

-----------------------------------------------------------------------------
(* One POST *)

\* A POST may be out for a pending attempt only, of which there is one.
Posts ==
    /\ \A a, b \in Attempt :
           attempt[a].state = "possible" /\ attempt[b].state = "possible" => a = b
    /\ \A a \in Attempt : post[a] \in {"sent", "other"} => attempt[a].state = "possible"
    /\ \A a \in Attempt : attempt[a].state = "none" => post[a] = "none"
    /\ \A w \in Worker : run[w].step = "reserved" =>
           /\ attempt[run[w].receipt].state = "possible"
           /\ post[run[w].receipt] = "none"
    /\ \A v, w \in Worker : run[v].step = "reserved" /\ run[w].step = "reserved" => v = w

LEMMA PostsInit == Init => Posts
BY DEF Init, Posts, NewAttempt, Idle

\* Nothing is pending where another attempt is admitted.
LEMMA EligibleIsQuiet ==
    ASSUME Shape, Eligible
    PROVE  \A a \in Attempt : attempt[a].state # "possible"
BY DEF Eligible, Consistent, Completed, Started, Shape, AttemptShape

\* Threads other than those that begin or end a POST do nothing to them.
LEMMA PostsKept ==
    ASSUME Posts, Shape, attempt' = attempt, post' = post,
           \A w \in Worker : run'[w].step = "reserved" => run'[w] = run[w]
    PROVE  Posts'
BY DEF Posts

LEMMA PostsStep == Posts /\ Shape /\ [Next]_vars => Posts'
<1>. SUFFICES ASSUME Posts, Shape, [Next]_vars PROVE Posts'
  OBVIOUS
<1>. USE DEF Shape, RunShape
<1>1. ASSUME NEW w \in Worker, NEW j \in Job, Claim(w, j) PROVE Posts'
  <2>1. \A v \in Worker : run'[v].step = "reserved" => run'[v] = run[v]
    BY <1>1 DEF Claim
  <2>. QED
    BY <1>1, <2>1, PostsKept DEF Claim
<1>2. ASSUME NEW w \in Worker, Stop(w) PROVE Posts'
  <2>1. \A v \in Worker : run'[v].step = "reserved" => run'[v] = run[v]
    BY <1>2 DEF Stop, Idle
  <2>. QED
    BY <1>2, <2>1, PostsKept DEF Stop
<1>3. ASSUME NEW w \in Worker, StartConsult(w) PROVE Posts'
  <2>1. \A v \in Worker : run'[v].step = "reserved" => run'[v] = run[v]
    BY <1>3 DEF StartConsult
  <2>. QED
    BY <1>3, <2>1, PostsKept DEF StartConsult
<1>4. ASSUME NEW w \in Worker, Settle(w) \/ Close(w) PROVE Posts'
  <2>1. \A v \in Worker : run'[v].step = "reserved" => run'[v] = run[v]
    BY <1>4 DEF Settle, Close, Idle
  <2>. QED
    BY <1>4, <2>1, PostsKept DEF Settle, Close
<1>5. ASSUME NEW w \in Worker, AskPanel(w) \/ ListPanel(w) \/ GiveUp(w) \/ Ambiguous(w)
      PROVE  Posts'
  <2>1. \A v \in Worker : run'[v].step = "reserved" => run'[v] = run[v]
    BY <1>5 DEF AskPanel, ListPanel, GiveUp, Ambiguous
  <2>. QED
    BY <1>5, <2>1, PostsKept DEF AskPanel, ListPanel, GiveUp, Ambiguous
<1>6. ASSUME NEW w \in Worker, NEW a \in Attempt, Reserve(w, a) PROVE Posts'
  <2>1. \A b \in Attempt : attempt[b].state # "possible"
    BY <1>6, EligibleIsQuiet DEF Reserve, StillEligible
  <2>2. \A v \in Worker : run[v].step # "reserved"
    BY <2>1 DEF Posts
  <2>3. /\ \A b \in Attempt : b # a => attempt'[b] = attempt[b]
        /\ attempt'[a].state = "possible"
        /\ post' = post /\ post[a] = "none"
    BY <1>6 DEF Reserve, Posts, AttemptShape, Started
  <2>4. /\ \A v \in Worker : v # w => run'[v] = run[v]
        /\ run'[w].receipt = a
    BY <1>6 DEF Reserve
  <2>. QED
    BY <2>1, <2>2, <2>3, <2>4 DEF Posts
<1>7. ASSUME NEW w \in Worker, Post(w) PROVE Posts'
  <2>. DEFINE r == run[w].receipt
  <2>1. /\ r \in Attempt /\ attempt[r].state = "possible"
        /\ attempt' = attempt
    BY <1>7 DEF Post, Posts
  <2>2. /\ \A b \in Attempt : b # r => post'[b] = post[b]
        /\ post'[r] \in {"none", "sent"}
    BY <1>7, <2>1 DEF Post, Posts, AttemptShape
  <2>3. /\ \A v \in Worker : v # w => run'[v] = run[v]
        /\ run'[w].step = "posted" /\ run[w].step = "reserved"
    BY <1>7 DEF Post
  <2>4. \A v \in Worker : run'[v].step # "reserved"
    BY <2>3 DEF Posts
  <2>. QED
    BY <2>1, <2>2, <2>4 DEF Posts
<1>8. ASSUME NEW w \in Worker, Complete(w) PROVE Posts'
  <2>. DEFINE r == run[w].receipt
  <2>1. /\ r \in Attempt /\ post[r] = "failed" /\ post' = post
        /\ attempt'[r].state = "failed"
        /\ \A b \in Attempt : b # r => attempt'[b] = attempt[b]
    BY <1>8 DEF Complete, AttemptShape
  <2>2. \A v \in Worker : run'[v].step = "reserved" => run'[v] = run[v]
    BY <1>8 DEF Complete
  <2>3. \A v \in Worker : run'[v].step = "reserved" => run[v].receipt # r
    BY <2>1, <2>2 DEF Posts
  <2>. QED
    BY <2>1, <2>2, <2>3 DEF Posts
<1>9. ASSUME NEW j \in Job, Expire(j) \/ ReadFallsDue(j) PROVE Posts'
  BY <1>9, PostsKept DEF Expire, ReadFallsDue
<1>10. ASSUME NEW a \in Attempt, Handle(a) PROVE Posts'
  <2>1. /\ \A b \in Attempt : b # a => post'[b] = post[b]
        /\ post[a] = "sent" /\ post'[a] \in {"failed", "other"}
        /\ attempt' = attempt /\ run' = run
    BY <1>10 DEF Handle, AttemptShape
  <2>. QED
    BY <2>1 DEF Posts
<1>11. CASE CoolingEnds \/ PanelMoves \/ UNCHANGED vars
  BY <1>11, PostsKept DEF CoolingEnds, PanelMoves, vars
<1>. QED
  BY <1>1, <1>2, <1>3, <1>4, <1>5, <1>6, <1>7, <1>8, <1>9, <1>10, <1>11 DEF Next

\* The provider is never given a POST of an invoice beside one that it has not
\* refused, for any number of jobs, threads and attempts.
THEOREM OnePostUnansweredHolds == Spec => []OnePostUnanswered
<1>1. Posts => OnePostUnanswered
  BY DEF Posts, OnePostUnanswered
<1>. QED
  BY ShapeInit, ShapeStep, PostsInit, PostsStep, <1>1, PTL DEF Spec

-----------------------------------------------------------------------------
(* The quick reading *)

\* A thread that may come to send.
Sending(w) ==
    \/ run[w].step = "consulting" /\ ~run[w].quiet
    \/ run[w].step \in {"listing", "listed"}

\* A job that has sent has a reading, and while its thread may send another
\* time that reading is done.
Reads ==
    /\ \A j \in Job : job[j].marker # NoMarker => job[j].read # "none"
    /\ \A w \in Worker : Owns(w) /\ Sending(w) => job[run[w].job].read \in {"none", "consumed"}

LEMMA ReadsInit == Init => Reads
BY PanelAssumption DEF Init, Reads, Owns, Idle

LEMMA ReadsStep == Reads /\ Shape /\ [Next]_vars => Reads'
<1>. SUFFICES ASSUME Reads, Shape, [Next]_vars PROVE Reads'
  OBVIOUS
<1>. USE PanelAssumption DEF Shape, JobShape, RunShape, Owns, Sending, Step
<1>1. ASSUME NEW w \in Worker, NEW j \in Job, Claim(w, j) PROVE Reads'
  BY <1>1 DEF Claim, Reads
<1>2. ASSUME NEW w \in Worker, Stop(w) PROVE Reads'
  BY <1>2 DEF Stop, Idle, Reads
<1>3. ASSUME NEW w \in Worker, StartConsult(w) PROVE Reads'
  <2>1. ~Quiet(run[w].job) => job[run[w].job].read \in {"none", "consumed"}
    BY <1>3 DEF StartConsult, Quiet, Read
  <2>2. \A k \in Job : /\ job'[k].marker = job[k].marker /\ job'[k].owner = job[k].owner
                       /\ k # run[w].job => job'[k] = job[k]
                       /\ job[k].read # "due" => job'[k] = job[k]
                       /\ job[k].read = "due" => job'[k].read \in {"due", "consumed"}
    BY <1>3 DEF StartConsult
  <2>3. /\ \A v \in Worker : v # w => run'[v] = run[v]
        /\ run'[w].step = "consulting" /\ run'[w].job = run[w].job /\ Owns(w)
        /\ ~run'[w].quiet => ~Quiet(run[w].job)
    BY <1>3 DEF StartConsult
  <2>. QED
    BY <2>1, <2>2, <2>3 DEF Reads
<1>4. ASSUME NEW w \in Worker, Settle(w) \/ Close(w) PROVE Reads'
  BY <1>4 DEF Settle, Close, Idle, Reads
<1>5. ASSUME NEW w \in Worker, AskPanel(w) \/ ListPanel(w) \/ GiveUp(w) PROVE Reads'
  BY <1>5 DEF AskPanel, ListPanel, GiveUp, Reads
<1>6. ASSUME NEW w \in Worker, NEW a \in Attempt, Reserve(w, a) PROVE Reads'
  <2>1. /\ \A k \in Job : k # run[w].job => job'[k] = job[k]
        /\ job'[run[w].job].read = "early" /\ job'[run[w].job].owner = w
        /\ run[w].job \in Job
    BY <1>6 DEF Reserve
  <2>2. /\ \A v \in Worker : v # w => run'[v] = run[v]
        /\ run'[w].step = "reserved"
    BY <1>6 DEF Reserve
  <2>. QED
    BY <2>1, <2>2 DEF Reads
<1>7. ASSUME NEW w \in Worker, Post(w) PROVE Reads'
  BY <1>7 DEF Post, Reads
<1>8. ASSUME NEW w \in Worker, Complete(w) PROVE Reads'
  <2>1. /\ \A k \in Job : k # run[w].job => job'[k] = job[k]
        /\ job'[run[w].job].read \in {job[run[w].job].read, "early"}
        /\ job'[run[w].job].owner = w
        /\ job[run[w].job].read # "none"
        /\ run[w].job \in Job
    <3>1. run[w].job \in Job /\ Owns(w)
      BY <1>8 DEF Complete
    <3>2. PICK again \in {job[run[w].job].read, "early"} :
             job' = [job EXCEPT ![run[w].job].marker = [id |-> run[w].receipt, state |-> "failed"],
                                ![run[w].job].read = again]
      BY <1>8 DEF Complete
    <3>3. job[run[w].job].marker = [id |-> run[w].receipt, state |-> "possible"]
      BY <1>8 DEF Complete
    <3>4. job[run[w].job].marker # NoMarker
      BY <3>3 DEF NoMarker
    <3>5. job[run[w].job].read # "none"
      BY <3>1, <3>4 DEF Reads
    <3>. QED
      BY <3>1, <3>2, <3>5
  <2>2. /\ \A v \in Worker : v # w => run'[v] = run[v]
        /\ run'[w].step = "closing"
    BY <1>8 DEF Complete
  <2>. QED
    BY <2>1, <2>2 DEF Reads
<1>9. ASSUME NEW w \in Worker, Ambiguous(w) PROVE Reads'
  <2>1. /\ \A k \in Job : k # run[w].job => job'[k] = job[k]
        /\ job'[run[w].job].read \in {job[run[w].job].read, "early"}
        /\ job'[run[w].job].owner = w
        /\ job'[run[w].job].marker = job[run[w].job].marker
        /\ run[w].job \in Job
    <3>0. run[w].step = "posted" /\ Owns(w)
      BY <1>9 DEF Ambiguous
    <3>1. run[w].job \in Job /\ job[run[w].job].owner = w
      BY <3>0
    <3>2. PICK again \in {job[run[w].job].read, "early"} :
             job' = [job EXCEPT ![run[w].job].read = again]
      BY <1>9 DEF Ambiguous
    <3>. QED
      BY <3>1, <3>2
  <2>2. /\ \A v \in Worker : v # w => run'[v] = run[v]
        /\ run'[w].step = "closing"
    <3>1. run' = [run EXCEPT ![w].step = "closing"]
      BY <1>9 DEF Ambiguous
    <3>. QED
      BY <3>1
  <2>3. ASSUME NEW k \in Job, job'[k].marker # NoMarker PROVE job'[k].read # "none"
    <3>1. job[k].read # "none"
      BY <2>1, <2>3 DEF Reads
    <3>. QED
      BY <2>1, <3>1
  <2>4. ASSUME NEW v \in Worker, Owns(v)', Sending(v)'
        PROVE  job'[run'[v].job].read \in {"none", "consumed"}
    <3>1. v # w /\ run'[v] = run[v]
      BY <2>2, <2>4
    <3>2. run[v].job \in Job /\ run[v].job # run[w].job
      BY <2>1, <2>4, <3>1
    <3>. QED
      BY <2>1, <2>4, <3>1, <3>2 DEF Reads
  <2>. QED
    BY <2>3, <2>4 DEF Reads
<1>10. ASSUME NEW j \in Job, Expire(j) \/ ReadFallsDue(j) PROVE Reads'
  BY <1>10 DEF Expire, ReadFallsDue, Reads
<1>11. ASSUME NEW a \in Attempt, Handle(a) PROVE Reads'
  BY <1>11 DEF Handle, Reads
<1>12. CASE CoolingEnds \/ PanelMoves \/ UNCHANGED vars
  BY <1>12 DEF CoolingEnds, PanelMoves, vars, Reads
<1>. QED
  BY <1>1, <1>2, <1>3, <1>4, <1>5, <1>6, <1>7, <1>8, <1>9, <1>10, <1>11, <1>12 DEF Next

\* A marker that is replaced by another attempt's was replaced by a reservation.
LEMMA RepeatStep ==
    ASSUME Reads, Shape, [Next]_vars, NEW j \in Job,
           job[j].marker # NoMarker, job'[j].marker.id # job[j].marker.id
    PROVE  job[j].read = "consumed"
<1>. USE DEF Shape, JobShape
<1>1. ASSUME NEW w \in Worker, NEW k \in Job, Claim(w, k) PROVE FALSE
  BY <1>1 DEF Claim
<1>2. ASSUME NEW w \in Worker, Stop(w) \/ AskPanel(w) \/ ListPanel(w) \/ GiveUp(w) \/ Post(w)
      PROVE  FALSE
  BY <1>2 DEF Stop, AskPanel, ListPanel, GiveUp, Post
<1>3. ASSUME NEW w \in Worker, StartConsult(w) \/ Ambiguous(w) PROVE FALSE
  <2>1. \A k \in Job : job'[k].marker = job[k].marker
    BY <1>3 DEF StartConsult, Ambiguous
  <2>. QED
    BY <2>1
<1>4. ASSUME NEW w \in Worker, Settle(w) \/ Close(w) PROVE FALSE
  BY <1>4 DEF Settle, Close
<1>5. ASSUME NEW w \in Worker, NEW a \in Attempt, Reserve(w, a) PROVE job[j].read = "consumed"
  <2>1. j = run[w].job
    BY <1>5 DEF Reserve
  <2>2. Owns(w) /\ Sending(w)
    BY <1>5 DEF Reserve, Sending
  <2>. QED
    BY <2>1, <2>2 DEF Reads
<1>6. ASSUME NEW w \in Worker, Complete(w) PROVE FALSE
  <2>1. PICK again \in {job[run[w].job].read, "early"} :
           job' = [job EXCEPT ![run[w].job].marker = [id |-> run[w].receipt, state |-> "failed"],
                              ![run[w].job].read = again]
    BY <1>6 DEF Complete
  <2>2. job[run[w].job].marker.id = run[w].receipt
    BY <1>6 DEF Complete
  <2>. QED
    BY <2>1, <2>2
<1>7. ASSUME NEW k \in Job, Expire(k) \/ ReadFallsDue(k) PROVE FALSE
  BY <1>7 DEF Expire, ReadFallsDue
<1>8. ASSUME NEW a \in Attempt, Handle(a) PROVE FALSE
  BY <1>8 DEF Handle
<1>9. ASSUME CoolingEnds \/ PanelMoves \/ UNCHANGED vars PROVE FALSE
  BY <1>9 DEF CoolingEnds, PanelMoves, vars
<1>. QED
  BY <1>1, <1>2, <1>3, <1>4, <1>5, <1>6, <1>7, <1>8, <1>9 DEF Next

\* A job does its quick reading after a POST before it sends another one, for
\* any number of jobs and threads.
THEOREM ReadBeforeRepeatHolds == Spec => ReadBeforeRepeat
<1>1. Reads /\ Shape /\ [Next]_vars =>
          [\A j \in Job :
              job[j].marker # NoMarker /\ job'[j].marker.id # job[j].marker.id
                  => job[j].read = "consumed"]_vars
  BY RepeatStep
<1>. QED
  BY ShapeInit, ShapeStep, ReadsInit, ReadsStep, <1>1, PTL DEF Spec, ReadBeforeRepeat

-----------------------------------------------------------------------------
(* The chain *)

\* The document has the marker of the latest attempt; those before it failed.
Tip ==
    IF Started = {} THEN evidence = NoMarker /\ \A j \in Job : job[j].marker = NoMarker
    ELSE /\ evidence.id \in Started
         /\ evidence.state = attempt[evidence.id].state
         /\ \A b \in Started \ {evidence.id} :
                /\ attempt[b].sequence < attempt[evidence.id].sequence
                /\ attempt[b].state = "failed"

\* Attempts belong to jobs that kept a copy, and copies to attempts.
Copies ==
    /\ \A a \in Started : /\ attempt[a].sequence # 0 /\ attempt[a].job \in Job
                          /\ job[attempt[a].job].marker # NoMarker
    /\ \A j \in Job : job[j].marker # NoMarker => Audited(j)

Chain == Tip /\ Chained /\ Copies

LEMMA ChainInit == Init => Chain
<1>. SUFFICES ASSUME Init PROVE Chain
  OBVIOUS
<1>1. Started = {}
  BY DEF Init, Started, NewAttempt
<1>. QED
  BY <1>1 DEF Init, Chain, Tip, Chained, Copies

LEMMA TipIsLast ==
    ASSUME Shape, Tip, Started # {}
    PROVE  Last = evidence.id
<1>1. Last = CHOOSE a \in Started : \A b \in Started : attempt[b].sequence <= attempt[a].sequence
  BY DEF Last
<1>2. evidence.id \in Started
      /\ \A b \in Started : attempt[b].sequence <= attempt[evidence.id].sequence
  BY DEF Tip, Shape, AttemptShape, Started
<1>3. Last \in Started /\ \A b \in Started : attempt[b].sequence <= attempt[Last].sequence
  BY <1>1, <1>2
<1>. QED
  BY <1>2, <1>3 DEF Tip, Shape, AttemptShape, Started

\* Steps that leave the three places alone.
LEMMA ChainKept ==
    ASSUME Chain, Shape, attempt' = attempt, evidence' = evidence,
           \A j \in Job : job'[j].marker = job[j].marker
    PROVE  Chain'
<1>1. Started' = Started
  BY DEF Started
<1>2. \A j \in Job : Audited(j)' = Audited(j)
  BY <1>1 DEF Audited
<1>3. Tip'
  BY <1>1 DEF Chain, Tip
<1>4. Chained'
  BY <1>1 DEF Chain, Chained
<1>5. Copies'
  BY <1>1, <1>2 DEF Chain, Copies
<1>. QED
  BY <1>3, <1>4, <1>5 DEF Chain

LEMMA ChainReserve ==
    ASSUME Chain, Shape, NEW w \in Worker, NEW a \in Attempt, Reserve(w, a)
    PROVE  Chain'
<1>. USE PanelAssumption
<1>0. PICK j \in Job : j = run[w].job
  BY DEF Reserve, Shape, RunShape
<1>1. /\ a \notin Started /\ Eligible /\ run[w].previous = Last
      /\ evidence' = [id |-> a, state |-> "possible"]
      /\ job'[j].marker = [id |-> a, state |-> "possible"]
      /\ \A k \in Job : k # j => job'[k].marker = job[k].marker
  BY <1>0 DEF Reserve, StillEligible, Shape, JobShape
<1>2. /\ attempt'[a].state = "possible" /\ attempt'[a].job = j /\ attempt'[a].previous = Last
      /\ attempt'[a].sequence = IF Last = None THEN 1 ELSE attempt[Last].sequence + 1
      /\ \A b \in Attempt : b # a => attempt'[b] = attempt[b]
  BY <1>0, <1>1 DEF Reserve, Shape, AttemptShape
<1>3. Started' = Started \cup {a}
  BY <1>2 DEF Started
<1>4. \A b \in Started : attempt[b].state = "failed"
  BY <1>1 DEF Eligible, Consistent, Completed
<1>5. CASE Started = {}
  <2>1. Last = None /\ \A k \in Job : job[k].marker = NoMarker
    BY <1>5 DEF Last, Chain, Tip
  <2>2. Tip'
    BY <1>1, <1>2, <1>3, <1>5 DEF Tip
  <2>3. Chained'
    BY <1>2, <1>3, <1>5, <2>1 DEF Chained
  <2>4. Copies'
    <3>1. Audited(j)'
      BY <1>1, <1>2, <1>3 DEF Audited
    <3>2. \A k \in Job : job'[k].marker # NoMarker => k = j
      BY <1>1, <2>1
    <3>3. job'[j].marker # NoMarker
      BY <1>1 DEF NoMarker
    <3>. QED
      BY <1>1, <1>2, <1>3, <1>5, <2>1, <3>1, <3>2, <3>3 DEF Copies
  <2>. QED
    BY <2>2, <2>3, <2>4 DEF Chain
<1>6. CASE Started # {}
  <2>1. /\ Last = evidence.id /\ Last \in Started /\ Last \in Attempt /\ Last # None
        /\ \A b \in Started : attempt[b].sequence <= attempt[Last].sequence
    BY <1>6, TipIsLast DEF Chain, Tip, Shape, AttemptShape, Started
  <2>2. /\ attempt'[a].sequence = attempt[Last].sequence + 1
        /\ \A b \in Started : attempt[b].sequence \in Nat /\ attempt[b].sequence # 0
    BY <1>2, <2>1 DEF Chain, Copies, Shape, AttemptShape, Started
  <2>3. \A b \in Started : attempt'[b] = attempt[b] /\ attempt[b].sequence < attempt'[a].sequence
    BY <1>1, <1>2, <2>1, <2>2 DEF Started
  <2>4. Tip'
    BY <1>1, <1>2, <1>3, <1>4, <2>3 DEF Tip
  <2>5. Chained'
    <3>1. ASSUME NEW b \in Started', NEW c \in Started' \ {b}
          PROVE  attempt'[b].sequence # attempt'[c].sequence
      <4>1. \A x, y \in Started : x # y => attempt[x].sequence # attempt[y].sequence
        BY DEF Chain, Chained
      <4>2. attempt'[a].sequence \in Nat
        BY <2>1, <2>2
      <4>. QED
        BY <1>3, <2>2, <2>3, <4>1, <4>2
    <3>2. ASSUME NEW b \in Started'
          PROVE  IF attempt'[b].sequence = 1 THEN attempt'[b].previous = None
                 ELSE \E c \in Started' : /\ attempt'[b].previous = c
                                          /\ attempt'[b].sequence = attempt'[c].sequence + 1
                                          /\ attempt'[c].state = "failed"
      <4>1. CASE b = a
        <5>1. /\ attempt'[b].previous = Last /\ Last \in Started'
              /\ attempt'[b].sequence = attempt'[Last].sequence + 1
              /\ attempt'[Last].state = "failed"
          BY <1>2, <1>3, <1>4, <2>1, <2>2, <2>3, <4>1
        <5>2. attempt'[b].sequence # 1
          BY <2>1, <2>2, <4>1
        <5>. QED
          BY <5>1, <5>2
      <4>2. CASE b # a
        BY <1>3, <2>3, <4>2 DEF Chain, Chained
      <4>. QED
        BY <4>1, <4>2
    <3>. QED
      BY <3>1, <3>2 DEF Chained
  <2>6. Copies'
    <3>1. ASSUME NEW k \in Job, job'[k].marker # NoMarker PROVE Audited(k)'
      <4>1. CASE k = j
        BY <1>1, <1>2, <1>3, <4>1 DEF Audited
      <4>2. CASE k # j
        <5>1. Audited(k) /\ job'[k].marker = job[k].marker
          BY <1>1, <3>1, <4>2 DEF Chain, Copies
        <5>. QED
          BY <1>3, <2>3, <5>1 DEF Audited
      <4>. QED
        BY <4>1, <4>2
    <3>2. job'[j].marker # NoMarker
      BY <1>1 DEF NoMarker
    <3>3. \A b \in Started' : /\ attempt'[b].sequence # 0 /\ attempt'[b].job \in Job
                              /\ job'[attempt'[b].job].marker # NoMarker
      BY <1>1, <1>2, <1>3, <2>1, <2>2, <2>3, <3>2 DEF Chain, Copies
    <3>. QED
      BY <3>1, <3>3 DEF Copies
  <2>. QED
    BY <2>4, <2>5, <2>6 DEF Chain
<1>. QED
  BY <1>5, <1>6

LEMMA ChainComplete ==
    ASSUME Chain, Shape, NEW w \in Worker, Complete(w)
    PROVE  Chain'
<1>0. PICK j \in Job, a \in Attempt : j = run[w].job /\ a = run[w].receipt
  BY DEF Complete, Shape, RunShape
<1>1. /\ evidence = [id |-> a, state |-> "possible"] /\ job[j].marker = evidence
      /\ evidence' = [id |-> a, state |-> "failed"]
  BY <1>0 DEF Complete, Evidence
<1>2. /\ job'[j].marker = [id |-> a, state |-> "failed"]
      /\ \A k \in Job : k # j => job'[k].marker = job[k].marker
  <2>1. PICK again \in {job[j].read, "early"} :
           job' = [job EXCEPT ![j].marker = [id |-> a, state |-> "failed"], ![j].read = again]
    BY <1>0 DEF Complete
  <2>. QED
    BY <1>1, <2>1 DEF Shape, JobShape
<1>3. job[j].marker # NoMarker /\ job'[j].marker # NoMarker
  BY <1>1, <1>2 DEF NoMarker
<1>4. a \in Started /\ attempt[a].job = j
  BY <1>1, <1>3 DEF Chain, Copies, Audited
<1>5. /\ attempt'[a].state = "failed"
      /\ \A b \in Attempt : /\ attempt'[b].job = attempt[b].job
                            /\ attempt'[b].sequence = attempt[b].sequence
                            /\ attempt'[b].previous = attempt[b].previous
                            /\ b # a => attempt'[b].state = attempt[b].state
  BY <1>0, <1>1 DEF Complete, Shape, AttemptShape
<1>6. Started' = Started /\ Started \subseteq Attempt
  BY <1>1, <1>4, <1>5 DEF Started
<1>7. Tip'
  BY <1>1, <1>4, <1>5, <1>6 DEF Chain, Tip
<1>8. Chained'
  <2>1. \A b \in Started : attempt[b].state = "failed" => attempt'[b].state = "failed"
    BY <1>5, <1>6
  <2>. QED
    BY <1>5, <1>6, <2>1 DEF Chain, Chained
<1>9. Copies'
  <2>1. ASSUME NEW k \in Job, job'[k].marker # NoMarker PROVE Audited(k)'
    <3>1. CASE k = j
      BY <1>2, <1>4, <1>5, <1>6, <3>1 DEF Audited
    <3>2. CASE k # j
      <4>1. Audited(k) /\ job'[k].marker = job[k].marker
        BY <1>2, <2>1, <3>2 DEF Chain, Copies
      <4>2. job[k].marker.id # a
        BY <1>4, <3>2, <4>1 DEF Audited
      <4>. QED
        BY <1>5, <1>6, <4>1, <4>2 DEF Audited
    <3>. QED
      BY <3>1, <3>2
  <2>. QED
    BY <1>2, <1>3, <1>5, <1>6, <2>1 DEF Chain, Copies
<1>. QED
  BY <1>7, <1>8, <1>9 DEF Chain

LEMMA ChainStep == Chain /\ Shape /\ [Next]_vars => Chain'
<1>. SUFFICES ASSUME Chain, Shape, [Next]_vars PROVE Chain'
  OBVIOUS
<1>. USE DEF Shape, JobShape
<1>1. ASSUME NEW w \in Worker, NEW j \in Job, Claim(w, j) PROVE Chain'
  BY <1>1, ChainKept DEF Claim
<1>2. ASSUME NEW w \in Worker, Stop(w) \/ AskPanel(w) \/ ListPanel(w) \/ GiveUp(w) \/ Post(w)
      PROVE  Chain'
  BY <1>2, ChainKept DEF Stop, AskPanel, ListPanel, GiveUp, Post
<1>3. ASSUME NEW w \in Worker, StartConsult(w) \/ Ambiguous(w) PROVE Chain'
  <2>1. /\ attempt' = attempt /\ evidence' = evidence
        /\ \A k \in Job : job'[k].marker = job[k].marker
    BY <1>3 DEF StartConsult, Ambiguous
  <2>. QED
    BY <2>1, ChainKept
<1>4. ASSUME NEW w \in Worker, Settle(w) \/ Close(w) PROVE Chain'
  BY <1>4, ChainKept DEF Settle, Close
<1>5. ASSUME NEW w \in Worker, NEW a \in Attempt, Reserve(w, a) PROVE Chain'
  BY <1>5, ChainReserve
<1>6. ASSUME NEW w \in Worker, Complete(w) PROVE Chain'
  BY <1>6, ChainComplete
<1>7. ASSUME NEW j \in Job, Expire(j) \/ ReadFallsDue(j) PROVE Chain'
  BY <1>7, ChainKept DEF Expire, ReadFallsDue
<1>8. ASSUME NEW a \in Attempt, Handle(a) PROVE Chain'
  BY <1>8, ChainKept DEF Handle
<1>9. CASE CoolingEnds \/ PanelMoves \/ UNCHANGED vars
  BY <1>9, ChainKept DEF CoolingEnds, PanelMoves, vars
<1>. QED
  BY <1>1, <1>2, <1>3, <1>4, <1>5, <1>6, <1>7, <1>8, <1>9 DEF Next

LEMMA ChainIsUsable == Chain /\ Shape => ChainStaysUsable
<1>. SUFFICES ASSUME Chain, Shape, \A a \in Attempt : attempt[a].state # "possible"
              PROVE  Consistent
  BY DEF ChainStaysUsable
<1>1. CASE Started = {}
  BY <1>1 DEF Chain, Tip, Consistent
<1>2. CASE Started # {}
  <2>1. Completed
    BY DEF Completed, Started, Shape, AttemptShape
  <2>2. evidence = [id |-> Last, state |-> "failed"]
    <3>1. evidence.id = Last /\ evidence.state = "failed"
      BY <1>2, <2>1, TipIsLast DEF Chain, Tip, Completed
    <3>. QED
      BY <3>1 DEF Shape, Marker
  <2>. QED
    BY <1>2, <2>1, <2>2 DEF Chain, Copies, Consistent
<1>. QED
  BY <1>1, <1>2

\* A completed chain is consistent in its three places and admits another
\* attempt, for any number of jobs, threads and attempts.
THEOREM ChainStaysUsableHolds == Spec => []ChainStaysUsable
BY ShapeInit, ShapeStep, ChainInit, ChainStep, ChainIsUsable, PTL DEF Spec

=============================================================================
