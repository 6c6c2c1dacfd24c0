-------------------------- MODULE FiscalCircuitProofs --------------------------
(* Theorems about FiscalCircuit for every set of workers, jobs and tokens and
   every lease and back-off that satisfy the assumptions of the module. *)
EXTENDS FiscalCircuit, TLAPS

-----------------------------------------------------------------------------
(* Types *)

\* An attempt under way has a job.
Busy == \A w \in Worker : attempt[w].pc # "idle" => attempt[w].job \in Job

Typing == TypeOK /\ Busy

\* Every back-off lasts at least as long as a probe.
LEMMA DelayBounds ==
  ASSUME NEW n \in 1 .. FailureCap
  PROVE  Delay(n) \in 1 .. Longest /\ Delay(n) >= Lease
<1>1. n \in {1, 2, 3, 4, 5, 6}
  BY TimesAssumption
<1>2. Doubled[n] \in {1, 2, 4, 8, 16, 32}
  BY <1>1 DEF Doubled
<1>3. First * Doubled[n] \in Nat /\ First * Doubled[n] >= First
  BY <1>2, TimesAssumption
<1>. QED
  BY <1>3, TimesAssumption, LeaseWithinBackoff DEF Delay, Smaller

LEMMA ConstantTypes ==
  /\ Idle \in Attempt /\ Closed \in CircuitRow /\ NoProbe \in [Service -> AnyToken]
  /\ [s \in Service |-> 0] \in [Service -> 0 .. Lease]
BY TimesAssumption DEF Idle, Attempt, Stage, AnyToken, Closed, CircuitRow, NoProbe

LEMMA ServiceOfType ==
  ASSUME NEW x PROVE ServiceOf(x) \in Service
BY DEF ServiceOf, Service

\* A granted reservation keeps the types.
LEMMA GrantedType ==
  ASSUME TypeOK, NEW w \in Worker, NEW s \in Service, Granted(w, s)
  PROVE  /\ circuit' \in [Service -> CircuitRow]
         /\ probe' \in [Worker -> [Service -> AnyToken]]
         /\ left' \in [Worker -> [Service -> 0 .. Lease]]
<1>1. CASE circuit[s].failures = 0 /\ probe' = [probe EXCEPT ![w][s] = circuit[s].token]
           /\ left' = [left EXCEPT ![w][s] = 0] /\ UNCHANGED circuit
  BY <1>1, TimesAssumption DEF TypeOK, CircuitRow
<1>2. CASE left' = [left EXCEPT ![w][s] = circuit[s].expires] /\ UNCHANGED <<circuit, probe>>
  BY <1>2 DEF TypeOK, CircuitRow
<1>3. CASE /\ Fresh(s) # {}
           /\ LET k == CHOOSE k \in Fresh(s) : TRUE IN
                /\ circuit' = [circuit EXCEPT ![s].token = k, ![s].expires = Lease]
                /\ probe' = [probe EXCEPT ![w][s] = k]
           /\ left' = [left EXCEPT ![w][s] = Lease]
  <2>1. PICK k \in Token : /\ circuit' = [circuit EXCEPT ![s].token = k, ![s].expires = Lease]
                           /\ probe' = [probe EXCEPT ![w][s] = k]
    <3>1. (CHOOSE k \in Fresh(s) : TRUE) \in Token
      BY <1>3 DEF Fresh
    <3>. QED BY <1>3, <3>1
  <2>2. Lease \in 0 .. Lease /\ k \in AnyToken
    BY TimesAssumption DEF AnyToken
  <2>3. circuit' \in [Service -> CircuitRow]
    BY <2>1, <2>2 DEF TypeOK, CircuitRow
  <2>4. probe' \in [Worker -> [Service -> AnyToken]]
    BY <2>1, <2>2 DEF TypeOK
  <2>5. left' \in [Worker -> [Service -> 0 .. Lease]]
    BY <1>3, <2>2 DEF TypeOK
  <2>. QED
    BY <2>3, <2>4, <2>5
<1>. QED
  BY <1>1, <1>2, <1>3 DEF Granted

\* A report keeps the types.
LEMMA FailedType ==
  ASSUME TypeOK, NEW s \in Service, NEW k, Failed(s, k)
  PROVE  circuit' \in [Service -> CircuitRow] /\ job' \in [Job -> JobRow]
<1>1. CASE UNCHANGED <<circuit, job>>
  BY <1>1 DEF TypeOK
<1>2. CASE ~ UNCHANGED <<circuit, job>>
  <2>. DEFINE n == Smaller(circuit[s].failures + 1, FailureCap)
  <2>1. n \in 1 .. FailureCap
    BY TimesAssumption DEF TypeOK, CircuitRow, Smaller
  <2>2. Delay(n) \in 1 .. Longest
    BY <2>1, DelayBounds
  <2>3. circuit' = [circuit EXCEPT ![s] =
          [failures |-> n, next |-> Delay(n), token |-> NoToken, expires |-> 0]]
    BY <1>2 DEF Failed
  <2>4. job' = [j \in Job |-> IF j \in Waiting(s)
          THEN [job[j] EXCEPT !.available = Larger(@, Delay(n))] ELSE job[j]]
    BY <1>2 DEF Failed
  <2>. HIDE DEF n
  <2>5. circuit' \in [Service -> CircuitRow]
    BY <2>1, <2>2, <2>3, TimesAssumption DEF TypeOK, CircuitRow, AnyToken
  <2>6. \A j \in Job : job[j].available \in Nat /\ Larger(job[j].available, Delay(n)) \in Nat
    BY <2>2, TimesAssumption DEF TypeOK, JobRow, Larger
  <2>7. job' \in [Job -> JobRow]
    BY <2>4, <2>6 DEF TypeOK, JobRow
  <2>. QED
    BY <2>5, <2>7
<1>. QED
  BY <1>1, <1>2

LEMMA RecoveredType ==
  ASSUME TypeOK, NEW s \in Service, NEW k, Recovered(s, k)
  PROVE  circuit' \in [Service -> CircuitRow] /\ job' \in [Job -> JobRow]
<1>1. CASE UNCHANGED <<circuit, job>>
  BY <1>1 DEF TypeOK
<1>2. CASE circuit[s].token = k
  <2>1. circuit' = [circuit EXCEPT ![s] = Closed]
    BY <1>2 DEF Recovered
  <2>2. job' = [j \in Job |-> IF circuit[s].failures > 0 /\ j \in Waiting(s)
                  THEN [job[j] EXCEPT !.available = 0] ELSE job[j]]
    BY <1>2 DEF Recovered
  <2>3. circuit' \in [Service -> CircuitRow]
    BY <2>1, ConstantTypes DEF TypeOK
  <2>4. job' \in [Job -> JobRow]
    BY <2>2 DEF TypeOK, JobRow
  <2>. QED
    BY <2>3, <2>4
<1>. QED
  BY <1>1, <1>2 DEF Recovered

LEMMA EndsType ==
  ASSUME Typing, NEW w \in Worker, Ends(w)
  PROVE  /\ attempt' \in [Worker -> Attempt] /\ Busy'
         /\ probe' \in [Worker -> [Service -> AnyToken]]
         /\ left' \in [Worker -> [Service -> 0 .. Lease]]
BY ConstantTypes DEF Typing, TypeOK, Busy, Ends, Idle

LEMMA AnswerType ==
  ASSUME Typing, NEW w \in Worker, attempt[w].pc # "idle",
         NEW pc \in {"recovered", "failed", "finish"},
         NEW then \in {"continue", "done", "retry"}, NEW k \in AnyToken,
         Answer(w, pc, then, k)
  PROVE  /\ circuit' \in [Service -> CircuitRow]
         /\ attempt' \in [Worker -> Attempt] /\ Busy'
         /\ probe' \in [Worker -> [Service -> AnyToken]]
         /\ left' \in [Worker -> [Service -> 0 .. Lease]]
         /\ calm' = calm /\ lapses' = lapses
<1>1. NoToken \in AnyToken
  BY DEF AnyToken
<1>2. attempt' \in [Worker -> Attempt]
  <2>. DEFINE a == [attempt[w] EXCEPT !.pc = pc, !.then = then, !.api = FALSE,
                                     !.token = IF pc = "finish" THEN NoToken ELSE k]
  <2>1. attempt[w] \in Attempt
    BY DEF Typing, TypeOK
  <2>2. (IF pc = "finish" THEN NoToken ELSE k) \in AnyToken
    BY <1>1
  <2>3. a \in Attempt
    BY <2>1, <2>2 DEF Attempt
  <2>4. attempt' = [attempt EXCEPT ![w] = a]
    BY DEF Answer
  <2>. QED
    BY <2>3, <2>4 DEF Typing, TypeOK
<1>3. Busy'
  BY DEF Typing, TypeOK, Busy, Answer, Attempt
<1>4. probe' \in [Worker -> [Service -> AnyToken]]
  BY ConstantTypes DEF Typing, TypeOK, Answer
<1>5. left' \in [Worker -> [Service -> 0 .. Lease]]
  BY ConstantTypes, ServiceOfType, TimesAssumption DEF Typing, TypeOK, Answer, CallEnds, SvcOf
<1>. QED
  BY <1>2, <1>3, <1>4, <1>5 DEF Typing, TypeOK, Answer, Unchanged

LEMMA InitTyping == Init => Typing
<1>. SUFFICES ASSUME Init PROVE Typing
  OBVIOUS
<1>1. job \in [Job -> JobRow]
  <2>1. \A j \in Job : [status |-> "queued", stage |-> StartStage[j],
                        owner |-> NoWorker, available |-> 0] \in JobRow
    BY NamesAssumption DEF JobRow
  <2>. QED
    BY <2>1 DEF Init
<1>2. circuit \in [Service -> CircuitRow] /\ attempt \in [Worker -> Attempt]
  BY ConstantTypes DEF Init
<1>3. /\ probe \in [Worker -> [Service -> AnyToken]]
      /\ left \in [Worker -> [Service -> 0 .. Lease]]
  BY ConstantTypes DEF Init
<1>4. Busy
  BY DEF Init, Busy, Idle
<1>5. lapses \in 0 .. MaxLapses
  BY TimesAssumption DEF Init
<1>6. calm \in BOOLEAN
  BY Zenon DEF Init
<1>. QED
  BY <1>1, <1>2, <1>3, <1>4, <1>5, <1>6 DEF Typing, TypeOK

\* Time only shortens what is left.
LEMMA TickTypes ==
  /\ \A n \in Nat : Less(n) \in Nat /\ Less(n) <= n
  /\ \A m \in Nat : \A n \in 0 .. m : Less(n) \in 0 .. m
BY DEF Less

LEMMA TypingStep ==
  ASSUME Typing, [Next]_vars
  PROVE  Typing'
<1>. USE DEF Unchanged
<1>0. TypeOK /\ Busy
  BY DEF Typing
<1>1. ASSUME NEW w \in Worker, NEW j \in Job, Claim(w, j)
      PROVE  Typing'
  <2>1. job[j] \in JobRow /\ job[j].stage \in Stage
    BY <1>0 DEF TypeOK, JobRow
  <2>2. job' \in [Job -> JobRow]
    BY <1>0, <1>1 DEF TypeOK, Claim, JobRow
  <2>3. [Idle EXCEPT !.pc = "start", !.job = j, !.stage = job[j].stage] \in Attempt
    BY <2>1, ConstantTypes DEF Attempt
  <2>4. attempt' \in [Worker -> Attempt] /\ Busy'
    BY <1>0, <1>1, <2>3 DEF TypeOK, Claim, Busy, Idle
  <2>. QED
    BY <1>0, <1>1, <2>2, <2>4 DEF Typing, TypeOK, Claim
<1>2. ASSUME NEW w \in Worker, Reserve(w)
      PROVE  Typing'
  <2>1. SvcOf(w) \in Service
    BY ServiceOfType DEF SvcOf
  <2>2. /\ circuit' \in [Service -> CircuitRow]
        /\ probe' \in [Worker -> [Service -> AnyToken]]
        /\ left' \in [Worker -> [Service -> 0 .. Lease]]
    BY <1>0, <1>2, <2>1, GrantedType DEF Reserve
  <2>3. probe'[w][SvcOf(w)] \in AnyToken
    BY <2>1, <2>2
  <2>4. attempt' \in [Worker -> Attempt] /\ Busy'
    BY <1>0, <1>2, <2>3 DEF TypeOK, Reserve, Attempt, Busy
  <2>. QED
    BY <1>0, <1>2, <2>2, <2>4 DEF Typing, TypeOK, Reserve
<1>3. ASSUME NEW w \in Worker, Paused(w)
      PROVE  Typing'
  <2>1. SvcOf(w) \in Service /\ attempt[w].job \in Job
    BY <1>0, <1>3, ServiceOfType DEF SvcOf, Busy, Paused
  <2>2. BlockedFor(SvcOf(w)) \in Nat
    BY <1>0, <2>1, TimesAssumption DEF BlockedFor, Larger, TypeOK, CircuitRow
  <2>3. job' \in [Job -> JobRow]
    BY <1>0, <1>3, <2>1, <2>2 DEF TypeOK, JobRow, Paused
  <2>. QED
    BY <1>0, <1>3, <2>3, EndsType DEF Typing, TypeOK, Paused
<1>4. ASSUME NEW w \in Worker, BeginCall(w)
      PROVE  Typing'
  <2>1. attempt[w].job \in Job
    BY <1>0, <1>4 DEF Busy, BeginCall
  <2>2. job' \in [Job -> JobRow]
    BY <1>0, <1>4, <2>1 DEF TypeOK, JobRow, BeginCall, Stage
  <2>3. attempt' \in [Worker -> Attempt] /\ Busy'
    BY <1>0, <1>4 DEF TypeOK, BeginCall, To, Attempt, Busy
  <2>. QED
    BY <1>0, <1>4, <2>2, <2>3 DEF Typing, TypeOK, BeginCall
<1>5. ASSUME NEW w \in Worker, Stored(w) \in AnyToken, Session(w) \in AnyToken,
             NoToken \in AnyToken, attempt[w].job \in Job,
             SignAnswered(w) \/ SendAnswered(w)
      PROVE  Typing'
  <2>1. \E pc \in {"recovered", "failed", "finish"}, then \in {"continue", "done", "retry"},
           k \in AnyToken : Answer(w, pc, then, k)
    BY <1>5 DEF SignAnswered, SendAnswered
  <2>2. job' \in [Job -> JobRow]
    <3>1. job' = job \/ job' = [job EXCEPT ![attempt[w].job].stage = "signed"]
      BY <1>5 DEF SignAnswered, SendAnswered
    <3>. QED
      BY <1>0, <1>5, <3>1 DEF TypeOK, JobRow, Stage
  <2>3. attempt[w].pc # "idle"
    BY <1>5 DEF SignAnswered, SendAnswered
  <2>. QED
    BY <1>0, <2>1, <2>2, <2>3, AnswerType DEF Typing, TypeOK
<1>6. ASSUME NEW w \in Worker, Stored(w) \in AnyToken, Session(w) \in AnyToken,
             NoToken \in AnyToken, ConsultAnswered(w) \/ PanelAnswered(w)
      PROVE  Typing'
  <2>1. \E pc \in {"recovered", "failed", "finish"}, then \in {"continue", "done", "retry"},
           k \in AnyToken : Answer(w, pc, then, k)
    BY <1>6 DEF ConsultAnswered, PanelAnswered, PanelReport
  <2>2. job' = job /\ attempt[w].pc # "idle"
    BY <1>6 DEF ConsultAnswered, PanelAnswered
  <2>. QED
    BY <1>0, <2>1, <2>2, AnswerType DEF Typing, TypeOK
<1>7. ASSUME NEW w \in Worker, AskPanel(w)
      PROVE  Typing'
  <2>1. attempt' \in [Worker -> Attempt] /\ Busy'
    <3>1. PICK api \in BOOLEAN :
            attempt' = [attempt EXCEPT ![w].pc = "panel", ![w].api = api]
      BY <1>7 DEF AskPanel
    <3>2. [attempt[w] EXCEPT !.pc = "panel", !.api = api] \in Attempt
      BY <1>0 DEF TypeOK, Attempt
    <3>3. attempt' = [attempt EXCEPT ![w] = [attempt[w] EXCEPT !.pc = "panel", !.api = api]]
      BY <1>0, <3>1 DEF TypeOK, Attempt
    <3>4. attempt' \in [Worker -> Attempt]
      BY <1>0, <3>2, <3>3 DEF TypeOK
    <3>5. \A v \in Worker : attempt'[v].job = attempt[v].job
      BY <1>0, <3>3 DEF TypeOK, Attempt
    <3>6. attempt[w].pc # "idle" /\ \A v \in Worker : v # w => attempt'[v] = attempt[v]
      BY <1>0, <1>7, <3>3 DEF TypeOK, AskPanel
    <3>. QED
      BY <1>0, <3>4, <3>5, <3>6 DEF Busy
  <2>2. left' \in [Worker -> [Service -> 0 .. Lease]]
    BY <1>0, <1>7, ServiceOfType, ConstantTypes, TimesAssumption
       DEF TypeOK, AskPanel, CallEnds, SvcOf
  <2>. QED
    BY <1>0, <1>7, <2>1, <2>2 DEF Typing, TypeOK, AskPanel
<1>8. ASSUME NEW w \in Worker, PanelReserve(w)
      PROVE  Typing'
  <2>1. SvcOf(w) \in Service
    BY ServiceOfType DEF SvcOf
  <2>2. attempt' \in [Worker -> Attempt] /\ Busy'
    BY <1>0, <1>8 DEF TypeOK, PanelReserve, To, Attempt, Busy
  <2>. QED
    BY <1>0, <1>8, <2>1, <2>2, GrantedType DEF Typing, TypeOK, PanelReserve
<1>9. ASSUME NEW w \in Worker, ReportRecovered(w)
      PROVE  Typing'
  <2>1. circuit' \in [Service -> CircuitRow] /\ job' \in [Job -> JobRow]
    BY <1>0, <1>9, RecoveredType, ServiceOfType DEF ReportRecovered, SvcOf
  <2>2. attempt' \in [Worker -> Attempt] /\ Busy'
    BY <1>0, <1>9 DEF TypeOK, ReportRecovered, Attempt, AnyToken, Stage, Busy
  <2>3. probe' \in [Worker -> [Service -> AnyToken]]
    BY <1>0, <1>9, ConstantTypes DEF TypeOK, ReportRecovered
  <2>. QED
    BY <1>0, <1>9, <2>1, <2>2, <2>3 DEF Typing, TypeOK, ReportRecovered
<1>10. ASSUME NEW w \in Worker, ReportFailed(w)
       PROVE  Typing'
  <2>1. circuit' \in [Service -> CircuitRow] /\ job' \in [Job -> JobRow]
    BY <1>0, <1>10, FailedType, ServiceOfType DEF ReportFailed, SvcOf
  <2>2. attempt' \in [Worker -> Attempt] /\ Busy'
    BY <1>0, <1>10 DEF TypeOK, ReportFailed, Attempt, AnyToken, Busy
  <2>3. probe' \in [Worker -> [Service -> AnyToken]]
    BY <1>0, <1>10, ConstantTypes DEF TypeOK, ReportFailed
  <2>. QED
    BY <1>0, <1>10, <2>1, <2>2, <2>3 DEF Typing, TypeOK, ReportFailed
<1>11. ASSUME NEW w \in Worker, Finish(w)
       PROVE  Typing'
  <2>1. attempt[w].job \in Job
    BY <1>0, <1>11 DEF Busy, Finish
  <2>2. PICK n \in 1 .. FailureCap :
          job' = [job EXCEPT ![attempt[w].job] =
            IF attempt[w].then = "done"
              THEN [@ EXCEPT !.status = "done", !.owner = NoWorker]
              ELSE [@ EXCEPT !.status = "queued", !.owner = NoWorker, !.available = Delay(n)]]
    BY <1>11 DEF Finish
  <2>3. Delay(n) \in Nat
    BY DelayBounds, TimesAssumption
  <2>4. job' \in [Job -> JobRow]
    BY <1>0, <2>1, <2>2, <2>3 DEF TypeOK, JobRow
  <2>. QED
    BY <1>0, <1>11, <2>4, EndsType DEF Typing, TypeOK, Finish
<1>12. ASSUME NEW w \in Worker, LeaseLost(w)
       PROVE  Typing'
  BY <1>0, <1>12, EndsType DEF Typing, TypeOK, LeaseLost
<1>13. ASSUME NEW w \in Worker, Crash(w)
       PROVE  Typing'
  <2>1. attempt[w].job \in Job
    BY <1>0, <1>13 DEF Busy, Crash
  <2>2. job' \in [Job -> JobRow]
    BY <1>0, <1>13, <2>1 DEF TypeOK, JobRow, Crash
  <2>3. lapses' \in 0 .. MaxLapses
    BY <1>0, <1>13, TimesAssumption DEF TypeOK, Crash
  <2>. QED
    BY <1>0, <1>13, <2>2, <2>3, EndsType DEF Typing, TypeOK, Crash
<1>14. ASSUME NEW j \in Job, RecoverJob(j) \/ LeaseLapses(j)
       PROVE  Typing'
  <2>1. job' \in [Job -> JobRow]
    <3>1. [job[j] EXCEPT !.status = "queued", !.owner = NoWorker, !.available = 0] \in JobRow
      BY <1>0 DEF TypeOK, JobRow
    <3>. QED
      BY <1>0, <1>14, <3>1 DEF TypeOK, RecoverJob, LeaseLapses, Requeue
  <2>2. lapses' \in 0 .. MaxLapses
    BY <1>0, <1>14, TimesAssumption DEF TypeOK, RecoverJob, LeaseLapses
  <2>. QED
    BY <1>0, <1>14, <2>1, <2>2 DEF Typing, TypeOK, Busy, RecoverJob, LeaseLapses
<1>15. CASE Tick
  <2>1. circuit' \in [Service -> CircuitRow]
    <3>1. ASSUME NEW c \in CircuitRow
          PROVE  [c EXCEPT !.next = Less(@), !.expires = Less(@)] \in CircuitRow
      <4>1. Less(c.next) \in 0 .. Longest
        BY TickTypes, TimesAssumption DEF CircuitRow
      <4>2. Less(c.expires) \in 0 .. Lease
        BY TickTypes, TimesAssumption DEF CircuitRow
      <4>. QED
        BY <4>1, <4>2 DEF CircuitRow
    <3>. QED
      BY <1>0, <1>15, <3>1 DEF TypeOK, Tick
  <2>2. job' \in [Job -> JobRow]
    <3>1. ASSUME NEW r \in JobRow PROVE [r EXCEPT !.available = Less(@)] \in JobRow
      BY TickTypes DEF JobRow
    <3>. QED
      BY <1>0, <1>15, <3>1 DEF TypeOK, Tick
  <2>3. left' \in [Worker -> [Service -> 0 .. Lease]]
    <3>1. \A v \in Worker, s \in Service : Less(left[v][s]) \in 0 .. Lease
      BY <1>0, TickTypes, TimesAssumption DEF TypeOK
    <3>. QED
      BY <1>15, <3>1 DEF Tick
  <2>. QED
    BY <1>0, <1>15, <2>1, <2>2, <2>3 DEF Typing, TypeOK, Busy, Tick
<1>16. CASE CalmReturns
  BY <1>0, <1>16, TimesAssumption DEF Typing, TypeOK, Busy, CalmReturns
<1>17. CASE UNCHANGED vars
  BY <1>0, <1>17 DEF Typing, TypeOK, Busy, vars
<1>18. ASSUME NEW w \in Worker, Step(w)
       PROVE  Typing'
  <2>1. Stored(w) \in AnyToken /\ Session(w) \in AnyToken /\ NoToken \in AnyToken
    BY <1>0, ServiceOfType DEF TypeOK, Stored, Session, SvcOf, Attempt, AnyToken
  <2>2. SignAnswered(w) \/ SendAnswered(w) => attempt[w].job \in Job
    BY <1>0 DEF Busy, SignAnswered, SendAnswered
  <2>. QED
    BY <1>2, <1>3, <1>4, <1>5, <1>6, <1>7, <1>8, <1>9, <1>10, <1>11, <1>12, <1>18,
       <2>1, <2>2 DEF Step
<1>. QED
  BY <1>1, <1>13, <1>14, <1>15, <1>16, <1>17, <1>18 DEF Next

\* The state keeps its types, back-offs stay within the maximum and probes
\* within their lease, whatever attempts die or answer late.
THEOREM CircuitTypes == Spec => []TypeOK
<1>1. Init => Typing
  BY InitTyping
<1>2. Typing /\ [Next]_vars => Typing'
  BY TypingStep
<1>3. Typing => TypeOK
  BY DEF Typing
<1>. QED
  BY <1>1, <1>2, <1>3, PTL DEF Spec

-----------------------------------------------------------------------------
(* One probe at a time.  OneProbe alone is not inductive: a failure without a
   token takes the token of a running probe away, so what protects that probe
   afterwards is the new back-off, which is no shorter than the lease. *)

\* A closed circuit has no probe, so passing through it hands out no token.
ClosedHasNoProbe ==
  \A s \in Service : circuit[s].failures = 0 => circuit[s].token = NoToken

\* No two sessions remember the same token.
ProbesDiffer ==
  \A s \in Service : \A v, w \in Worker :
    v # w /\ probe[v][s] = probe[w][s] => probe[v][s] = NoToken

\* Only a call, or one about to begin, goes by a reservation: that of its service.
CallGoesBy ==
  \A w \in Worker, s \in Service :
    left[w][s] > 0 => /\ attempt[w].pc \in {"reserved", "calling", "panelCall"}
                      /\ SvcOf(w) = s

\* While a reservation lasts, its token is that of the circuit, or nobody's
\* token is and no other probe can begin before it is over.
Protected(w, s) ==
  /\ probe[w][s] # NoToken
  /\ \/ /\ circuit[s].token = probe[w][s]
        /\ circuit[s].expires = left[w][s]
     \/ /\ circuit[s].token = NoToken
        /\ circuit[s].failures = 0 \/ circuit[s].next >= left[w][s]

Reserved == \A w \in Worker, s \in Service : left[w][s] > 0 => Protected(w, s)

ProbeInv == ClosedHasNoProbe /\ ProbesDiffer /\ Reserved /\ OneProbe

\* Steps that leave the circuits alone and at most forget reservations.
LEMMA Forgetting ==
  ASSUME ProbeInv, circuit' = circuit,
         \A w \in Worker, s \in Service :
           /\ left'[w][s] = left[w][s] \/ left'[w][s] = 0
           /\ probe'[w][s] = probe[w][s] \/ (probe'[w][s] = NoToken /\ left'[w][s] = 0)
  PROVE  ProbeInv'
<1>1. ClosedHasNoProbe'
  BY DEF ProbeInv, ClosedHasNoProbe
<1>2. ProbesDiffer'
  BY DEF ProbeInv, ProbesDiffer
<1>3. Reserved'
  BY DEF ProbeInv, Reserved, Protected
<1>4. OneProbe'
  BY DEF ProbeInv, OneProbe
<1>. QED
  BY <1>1, <1>2, <1>3, <1>4 DEF ProbeInv

\* reserve_probe: a new token is handed out only when no reservation lasts.
LEMMA Granting ==
  ASSUME TypeOK, ProbeInv, NEW w \in Worker, NEW s \in Service, Granted(w, s)
  PROVE  ProbeInv'
<1>. USE DEF ProbeInv
<1>1. /\ circuit \in [Service -> CircuitRow]
      /\ probe \in [Worker -> [Service -> AnyToken]]
      /\ left \in [Worker -> [Service -> 0 .. Lease]]
  BY DEF TypeOK
<1>2. CASE /\ circuit[s].failures = 0
           /\ probe' = [probe EXCEPT ![w][s] = circuit[s].token]
           /\ left' = [left EXCEPT ![w][s] = 0]
           /\ UNCHANGED circuit
  <2>1. circuit[s].token = NoToken
    BY <1>2 DEF ClosedHasNoProbe
  <2>2. \A v \in Worker, t \in Service :
          /\ left'[v][t] = left[v][t] \/ left'[v][t] = 0
          /\ probe'[v][t] = probe[v][t] \/ (probe'[v][t] = NoToken /\ left'[v][t] = 0)
    BY <1>1, <1>2, <2>1
  <2>. QED
    BY <1>2, <2>2, Forgetting
<1>3. CASE /\ circuit[s].failures > 0 /\ Mine(w, s)
           /\ left' = [left EXCEPT ![w][s] = circuit[s].expires]
           /\ UNCHANGED <<circuit, probe>>
  <2>1. \A v \in Worker : v # w => ~ (left[v][s] > 0)
    BY <1>3 DEF Reserved, Protected, ProbesDiffer, Mine, Live
  <2>2. /\ left'[w][s] = circuit[s].expires
        /\ \A v \in Worker, t \in Service :
             v # w \/ t # s => left'[v][t] = left[v][t]
    BY <1>1, <1>3
  <2>3. ClosedHasNoProbe' /\ ProbesDiffer'
    BY <1>3 DEF ClosedHasNoProbe, ProbesDiffer
  <2>4. Reserved'
    BY <1>3, <2>2 DEF Reserved, Protected, Mine, Live
  <2>5. OneProbe'
    BY <2>1, <2>2 DEF OneProbe
  <2>. QED
    BY <2>3, <2>4, <2>5
<1>4. CASE /\ circuit[s].failures > 0 /\ ~ Mine(w, s) /\ BlockedFor(s) = 0
           /\ Fresh(s) # {}
           /\ LET k == CHOOSE k \in Fresh(s) : TRUE IN
                /\ circuit' = [circuit EXCEPT ![s].token = k, ![s].expires = Lease]
                /\ probe' = [probe EXCEPT ![w][s] = k]
           /\ left' = [left EXCEPT ![w][s] = Lease]
  <2>1. PICK k \in Fresh(s) : /\ circuit' = [circuit EXCEPT ![s].token = k,
                                                           ![s].expires = Lease]
                              /\ probe' = [probe EXCEPT ![w][s] = k]
    BY <1>4
  <2>2. k # NoToken /\ \A v \in Worker : probe[v][s] # k
    BY NamesAssumption DEF Fresh
  <2>3. \A v \in Worker : ~ (left[v][s] > 0)
    <3>1. circuit[s].next = 0 /\ ~ Live(s)
      <4>1. circuit[s].next \in Nat /\ circuit[s].expires \in Nat
        BY <1>1, TimesAssumption DEF CircuitRow
      <4>. QED
        BY <1>4, <4>1 DEF BlockedFor, Larger, Live
    <3>. QED
      BY <1>1, <1>4, <3>1 DEF Reserved, Protected, Live
  <2>4. /\ circuit'[s].token = k /\ circuit'[s].expires = Lease
        /\ circuit'[s].failures = circuit[s].failures
        /\ \A t \in Service : t # s => circuit'[t] = circuit[t]
    BY <1>1, <2>1 DEF CircuitRow
  <2>5. /\ probe'[w][s] = k
        /\ \A v \in Worker, t \in Service : v # w \/ t # s => probe'[v][t] = probe[v][t]
    BY <1>1, <2>1
  <2>6. /\ left'[w][s] = Lease
        /\ \A v \in Worker, t \in Service : v # w \/ t # s => left'[v][t] = left[v][t]
    BY <1>1, <1>4
  <2>7. ClosedHasNoProbe'
    BY <1>1, <1>4, <2>4 DEF ClosedHasNoProbe, CircuitRow
  <2>8. ProbesDiffer'
    BY <2>2, <2>5 DEF ProbesDiffer
  <2>9. Reserved'
    BY <2>2, <2>3, <2>4, <2>5, <2>6 DEF Reserved, Protected
  <2>10. OneProbe'
    BY <2>3, <2>6 DEF OneProbe
  <2>. QED
    BY <2>7, <2>8, <2>9, <2>10
<1>. QED
  BY <1>2, <1>3, <1>4 DEF Granted

\* Time runs for reservations, probes and back-offs alike.
LEMMA Ticking ==
  ASSUME TypeOK, ProbeInv, Tick
  PROVE  ProbeInv'
<1>. USE DEF ProbeInv
<1>1. \A s \in Service : /\ circuit'[s].token = circuit[s].token
                         /\ circuit'[s].failures = circuit[s].failures
                         /\ circuit'[s].next = Less(circuit[s].next)
                         /\ circuit'[s].expires = Less(circuit[s].expires)
  BY DEF Tick, TypeOK, CircuitRow
<1>2. \A w \in Worker, s \in Service : left'[w][s] = Less(left[w][s])
  BY DEF Tick
<1>3. probe' = probe
  BY DEF Tick
<1>4. \A w \in Worker, s \in Service :
        left[w][s] \in Nat /\ circuit[s].next \in Nat /\ circuit[s].expires \in Nat
  BY TimesAssumption DEF TypeOK, CircuitRow
<1>5. ClosedHasNoProbe' /\ ProbesDiffer'
  BY <1>1, <1>3 DEF ClosedHasNoProbe, ProbesDiffer
<1>6. \A w \in Worker, s \in Service : left'[w][s] > 0 => left[w][s] > 0
  BY <1>2, <1>4 DEF Less
<1>7. ASSUME NEW w \in Worker, NEW s \in Service, left'[w][s] > 0
      PROVE  Protected(w, s)'
  <2>1. Protected(w, s)
    BY <1>6, <1>7 DEF Reserved
  <2>2. circuit[s].next >= left[w][s] => circuit'[s].next >= left'[w][s]
    BY <1>1, <1>2, <1>4 DEF Less
  <2>. QED
    BY <1>1, <1>2, <1>3, <2>1, <2>2 DEF Protected
<1>8. OneProbe'
  BY <1>6 DEF OneProbe
<1>. QED
  BY <1>5, <1>7, <1>8 DEF Reserved

IInv == Typing /\ CallGoesBy /\ ProbeInv

LEMMA InitIInv == Init => IInv
<1>. SUFFICES ASSUME Init PROVE IInv
  OBVIOUS
<1>1. CallGoesBy /\ Reserved /\ OneProbe
  BY DEF Init, CallGoesBy, Reserved, OneProbe
<1>2. ClosedHasNoProbe /\ ProbesDiffer
  BY DEF Init, ClosedHasNoProbe, ProbesDiffer, Closed, NoProbe
<1>. QED
  BY <1>1, <1>2, InitTyping DEF IInv, ProbeInv

\* An attempt that ends gives its reservations up.
LEMMA Ending ==
  ASSUME IInv, NEW w \in Worker, Ends(w), circuit' = circuit
  PROVE  CallGoesBy' /\ ProbeInv'
<1>. USE DEF IInv, Typing
<1>1. /\ \A s \in Service : left'[w][s] = 0 /\ probe'[w][s] = NoToken
      /\ \A v \in Worker : v # w => /\ attempt'[v] = attempt[v]
                                    /\ left'[v] = left[v] /\ probe'[v] = probe[v]
  BY DEF Ends, TypeOK, NoProbe
<1>2. CallGoesBy'
  BY <1>1 DEF CallGoesBy, SvcOf
<1>3. ProbeInv'
  <2>1. \A v \in Worker, s \in Service :
          /\ left'[v][s] = left[v][s] \/ left'[v][s] = 0
          /\ probe'[v][s] = probe[v][s] \/ (probe'[v][s] = NoToken /\ left'[v][s] = 0)
    BY <1>1
  <2>. QED
    BY <2>1, Forgetting
<1>. QED
  BY <1>2, <1>3

\* So does an answer, for the service that was called.
LEMMA Answering ==
  ASSUME IInv, NEW w \in Worker, circuit' = circuit, CallEnds(w),
         \A v \in Worker : v # w => attempt'[v] = attempt[v],
         probe' = probe \/ probe' = [probe EXCEPT ![w] = NoProbe]
  PROVE  CallGoesBy' /\ ProbeInv'
<1>. USE DEF IInv, Typing
<1>1. \A s \in Service :
        left'[w][s] = 0 \/ (~ (left[w][s] > 0) /\ left'[w][s] = left[w][s])
  BY ServiceOfType DEF CallEnds, CallGoesBy, TypeOK, SvcOf
<1>2. \A s \in Service : left[w][s] \in Nat
  BY TimesAssumption DEF TypeOK
<1>3. \A s \in Service : left'[w][s] = 0
  BY <1>1, <1>2
<1>4. \A v \in Worker : v # w => left'[v] = left[v]
  BY DEF CallEnds, TypeOK
<1>5. \A v \in Worker, s \in Service :
        probe'[v][s] = probe[v][s] \/ (v = w /\ probe'[v][s] = NoToken)
  BY DEF TypeOK, NoProbe
<1>6. CallGoesBy'
  BY <1>3, <1>4 DEF CallGoesBy, SvcOf
<1>7. ProbeInv'
  BY <1>3, <1>4, <1>5, Forgetting
<1>. QED
  BY <1>6, <1>7

\* A report comes after the call.  A failure starts a back-off that outlasts
\* every reservation, and a recovery closes the circuit.
LEMMA AfterReport ==
  ASSUME IInv, NEW w \in Worker, attempt[w].pc \in {"recovered", "failed"}, NEW k,
         Failed(SvcOf(w), k) \/ Recovered(SvcOf(w), k),
         \A v \in Worker : v # w => attempt'[v] = attempt[v],
         left' = left, probe' = [probe EXCEPT ![w] = NoProbe]
  PROVE  CallGoesBy' /\ ProbeInv'
<1>. USE DEF IInv, Typing
<1>1. \A s \in Service : ~ (left[w][s] > 0)
  BY DEF CallGoesBy
<1>2. CallGoesBy'
  BY <1>1 DEF CallGoesBy, SvcOf
<1>. DEFINE s == SvcOf(w)
<1>3. s \in Service
  BY ServiceOfType DEF SvcOf
<1>4. /\ \A v \in Worker : v # w => probe'[v] = probe[v]
      /\ \A t \in Service : probe'[w][t] = NoToken
  BY DEF TypeOK, NoProbe
<1>5. CASE circuit' = circuit
  <2>1. \A t \in Service : left[w][t] \in Nat
    BY TimesAssumption DEF TypeOK
  <2>. QED
    BY <1>1, <1>2, <1>4, <1>5, <2>1, Forgetting
<1>6. CASE /\ \A t \in Service : t # s => circuit'[t] = circuit[t]
           /\ circuit'[s].token = NoToken
           /\ \A v \in Worker : left[v][s] > 0 =>
                circuit'[s].failures = 0 \/ circuit'[s].next >= left[v][s]
  <2>1. ClosedHasNoProbe' /\ OneProbe'
    BY <1>6 DEF ProbeInv, ClosedHasNoProbe, OneProbe
  <2>2. ProbesDiffer'
    BY <1>4 DEF ProbeInv, ProbesDiffer
  <2>3. ASSUME NEW v \in Worker, NEW t \in Service, left'[v][t] > 0
        PROVE  Protected(v, t)'
    <3>1. left[v][t] > 0 /\ v # w /\ probe'[v][t] = probe[v][t]
      BY <1>1, <1>4, <2>3
    <3>2. Protected(v, t)
      BY <3>1 DEF ProbeInv, Reserved
    <3>. QED
      BY <1>6, <3>1, <3>2 DEF Protected
  <2>. QED
    BY <1>2, <2>1, <2>2, <2>3 DEF ProbeInv, Reserved
<1>7. CASE Failed(s, k) /\ circuit' # circuit
  <2>. DEFINE n == Smaller(circuit[s].failures + 1, FailureCap)
  <2>1. n \in 1 .. FailureCap
    BY <1>3, TimesAssumption DEF TypeOK, CircuitRow, Smaller
  <2>2. Delay(n) \in Nat /\ Delay(n) >= Lease
    BY <2>1, DelayBounds, TimesAssumption
  <2>3. circuit' = [circuit EXCEPT ![s] =
          [failures |-> n, next |-> Delay(n), token |-> NoToken, expires |-> 0]]
    BY <1>7 DEF Failed
  <2>. HIDE DEF n
  <2>4. \A v \in Worker : Delay(n) >= left[v][s]
    BY <1>3, <2>2, TimesAssumption DEF TypeOK
  <2>5. /\ \A t \in Service : t # s => circuit'[t] = circuit[t]
        /\ circuit'[s].token = NoToken /\ circuit'[s].next = Delay(n)
    BY <1>3, <2>3 DEF TypeOK
  <2>. QED
    BY <1>6, <2>4, <2>5
<1>8. CASE Recovered(s, k) /\ circuit' # circuit
  <2>1. circuit' = [circuit EXCEPT ![s] = Closed]
    BY <1>8 DEF Recovered
  <2>2. /\ \A t \in Service : t # s => circuit'[t] = circuit[t]
        /\ circuit'[s] = Closed
    BY <1>3, <2>1 DEF TypeOK
  <2>. QED
    BY <1>6, <2>2 DEF Closed
<1>. QED
  BY <1>5, <1>7, <1>8

LEMMA ProbeStep ==
  ASSUME IInv, [Next]_vars
  PROVE  CallGoesBy' /\ ProbeInv'
<1>. USE DEF Unchanged
<1>0. TypeOK /\ CallGoesBy /\ ProbeInv
  BY DEF IInv, Typing
\* Steps that touch neither circuits nor sessions.
<1>1. ASSUME UNCHANGED <<circuit, probe, left>>, CallGoesBy' PROVE CallGoesBy' /\ ProbeInv'
  BY <1>0, <1>1, Forgetting
<1>2. ASSUME NEW w \in Worker, NEW j \in Job, Claim(w, j)
      PROVE  CallGoesBy' /\ ProbeInv'
  <2>1. \A s \in Service : ~ (left[w][s] > 0)
    BY <1>0, <1>2 DEF CallGoesBy, Claim
  <2>2. CallGoesBy'
    BY <1>0, <1>2, <2>1 DEF CallGoesBy, Claim, SvcOf, TypeOK
  <2>. QED
    BY <1>1, <1>2, <2>2 DEF Claim
<1>3. ASSUME NEW w \in Worker, BeginCall(w)
      PROVE  CallGoesBy' /\ ProbeInv'
  <2>1. /\ attempt'[w].pc = "calling" /\ attempt'[w].stage = attempt[w].stage
        /\ \A v \in Worker : v # w => attempt'[v] = attempt[v]
    BY <1>0, <1>3 DEF BeginCall, To, TypeOK, Attempt
  <2>2. CallGoesBy'
    BY <1>0, <1>3, <2>1 DEF CallGoesBy, BeginCall, SvcOf
  <2>. QED
    BY <1>1, <1>3, <2>2 DEF BeginCall
<1>4. ASSUME NEW w \in Worker, NEW s \in Service, s = SvcOf(w), Granted(w, s),
             attempt[w].pc \in {"start", "panel"},
             attempt'[w].pc \in {"reserved", "panelCall"},
             attempt'[w].stage = attempt[w].stage,
             \A v \in Worker : v # w => attempt'[v] = attempt[v]
      PROVE  CallGoesBy' /\ ProbeInv'
  <2>1. /\ \A t \in Service : ~ (left[w][t] > 0)
        /\ \A v \in Worker, t \in Service : v # w \/ t # s => left'[v][t] = left[v][t]
    BY <1>0, <1>4 DEF CallGoesBy, Granted, TypeOK
  <2>2. CallGoesBy'
    BY <1>0, <1>4, <2>1 DEF CallGoesBy, SvcOf
  <2>. QED
    BY <1>0, <1>4, <2>2, Granting
<1>5. ASSUME NEW w \in Worker, Reserve(w)
      PROVE  CallGoesBy' /\ ProbeInv'
  <2>1. /\ attempt'[w].pc = "reserved" /\ attempt'[w].stage = attempt[w].stage
        /\ \A v \in Worker : v # w => attempt'[v] = attempt[v]
    BY <1>0, <1>5 DEF Reserve, TypeOK, Attempt
  <2>. QED
    BY <1>4, <1>5, <2>1, ServiceOfType DEF Reserve, SvcOf
<1>6. ASSUME NEW w \in Worker, PanelReserve(w)
      PROVE  CallGoesBy' /\ ProbeInv'
  <2>1. /\ attempt'[w].pc = "panelCall" /\ attempt'[w].stage = attempt[w].stage
        /\ \A v \in Worker : v # w => attempt'[v] = attempt[v]
    BY <1>0, <1>6 DEF PanelReserve, To, TypeOK, Attempt
  <2>. QED
    BY <1>4, <1>6, <2>1, ServiceOfType DEF PanelReserve, SvcOf
<1>7. ASSUME NEW w \in Worker, NEW pc, NEW then, NEW k, Answer(w, pc, then, k)
      PROVE  CallGoesBy' /\ ProbeInv'
  BY <1>0, <1>7, Answering DEF Answer, TypeOK
<1>8. ASSUME NEW w \in Worker, AskPanel(w)
      PROVE  CallGoesBy' /\ ProbeInv'
  BY <1>0, <1>8, Answering DEF AskPanel, TypeOK
<1>9. ASSUME NEW w \in Worker, ReportRecovered(w) \/ ReportFailed(w)
      PROVE  CallGoesBy' /\ ProbeInv'
  BY <1>0, <1>9, AfterReport DEF ReportRecovered, ReportFailed, TypeOK
<1>10. ASSUME NEW w \in Worker, Ends(w), circuit' = circuit
       PROVE  CallGoesBy' /\ ProbeInv'
  BY <1>10, Ending
<1>11. ASSUME NEW j \in Job, RecoverJob(j) \/ LeaseLapses(j)
       PROVE  CallGoesBy' /\ ProbeInv'
  BY <1>0, <1>1, <1>11 DEF RecoverJob, LeaseLapses, CallGoesBy, SvcOf
<1>12. CASE Tick
  <2>1. \A w \in Worker, s \in Service : left'[w][s] > 0 => left[w][s] > 0
    <3>1. \A w \in Worker, s \in Service : left[w][s] \in Nat
      BY <1>0, TimesAssumption DEF TypeOK
    <3>2. \A w \in Worker, s \in Service : left'[w][s] = Less(left[w][s])
      BY <1>12 DEF Tick
    <3>. QED
      BY <3>1, <3>2 DEF Less
  <2>2. CallGoesBy'
    BY <1>0, <1>12, <2>1 DEF Tick, CallGoesBy, SvcOf
  <2>. QED
    BY <1>0, <1>12, <2>2, Ticking
<1>13. CASE CalmReturns \/ UNCHANGED vars
  BY <1>0, <1>1, <1>13 DEF CalmReturns, vars, CallGoesBy, SvcOf
<1>14. ASSUME NEW w \in Worker, Step(w)
       PROVE  CallGoesBy' /\ ProbeInv'
  BY <1>3, <1>5, <1>6, <1>7, <1>8, <1>9, <1>10, <1>14
     DEF Step, Paused, SignAnswered, SendAnswered, ConsultAnswered, PanelAnswered,
         PanelReport, Finish, LeaseLost
<1>. QED
  BY <1>2, <1>10, <1>11, <1>12, <1>13, <1>14 DEF Next, Crash

\* Only one call at a time tests an open service, provided a probe does not
\* live longer than the shortest back-off (LeaseWithinBackoff).
THEOREM OneProbeHolds == Spec => []OneProbe
<1>1. Init => IInv
  BY InitIInv
<1>2. IInv /\ [Next]_vars => IInv'
  BY TypingStep, ProbeStep DEF IInv
<1>3. IInv => OneProbe
  BY DEF IInv, ProbeInv
<1>. QED
  BY <1>1, <1>2, <1>3, PTL DEF Spec

-----------------------------------------------------------------------------
(* What a late answer can do to a circuit *)

LEMMA TokenStep ==
  ASSUME TypeOK, [Next]_vars, NEW s \in Service
  PROVE  TokenGoesRightly(s)
<1>. SUFFICES ASSUME circuit[s].token # NoToken, circuit'[s].token # circuit[s].token
              PROVE  \/ circuit[s].expires = 0 /\ circuit'[s].token # NoToken
                     \/ \E w \in Worker :
                          /\ Reports(w)
                          /\ \/ attempt[w].token = circuit[s].token
                             \/ attempt[w].token = NoToken /\ circuit'[s].failures > 0
  BY DEF TokenGoesRightly
<1>1. /\ circuit \in [Service -> CircuitRow] /\ circuit[s].expires \in Nat
      /\ circuit[s].next \in Nat /\ circuit[s].failures \in Nat
  BY TimesAssumption DEF TypeOK, CircuitRow
<1>2. circuit' # circuit
  OBVIOUS
<1>3. ASSUME NEW w \in Worker, NEW t \in Service, Granted(w, t)
      PROVE  circuit[s].expires = 0 /\ circuit'[s].token # NoToken
  <2>1. /\ BlockedFor(t) = 0 /\ Fresh(t) # {}
        /\ circuit' = [circuit EXCEPT ![t].token = CHOOSE k \in Fresh(t) : TRUE,
                                      ![t].expires = Lease]
    BY <1>2, <1>3 DEF Granted
  <2>2. (CHOOSE k \in Fresh(t) : TRUE) \in Token
    BY <2>1 DEF Fresh
  <2>3. t = s /\ circuit'[s].token \in Token
    BY <1>1, <2>1, <2>2 DEF CircuitRow
  <2>4. ~ Live(s)
    BY <1>1, <2>1, <2>3 DEF BlockedFor, Larger, Live
  <2>. QED
    BY <1>1, <2>3, <2>4, NamesAssumption DEF Live
<1>4. ASSUME NEW w \in Worker, ReportRecovered(w)
      PROVE  Reports(w) /\ attempt[w].token = circuit[s].token
  <2>1. SvcOf(w) \in Service
    BY ServiceOfType DEF SvcOf
  <2>2. attempt[w].token = circuit[s].token
    BY <1>1, <1>2, <1>4, <2>1 DEF ReportRecovered, Recovered
  <2>3. attempt'[w].pc # "recovered"
    BY <1>4 DEF ReportRecovered, TypeOK, Attempt
  <2>. QED
    BY <1>4, <2>2, <2>3 DEF ReportRecovered, Reports
<1>5. ASSUME NEW w \in Worker, ReportFailed(w)
      PROVE  /\ Reports(w)
             /\ \/ attempt[w].token = circuit[s].token
                \/ attempt[w].token = NoToken /\ circuit'[s].failures > 0
  <2>1. SvcOf(w) \in Service
    BY ServiceOfType DEF SvcOf
  <2>. DEFINE n == Smaller(circuit[SvcOf(w)].failures + 1, FailureCap)
  <2>2. circuit' = [circuit EXCEPT ![SvcOf(w)] =
          [failures |-> n, next |-> Delay(n), token |-> NoToken, expires |-> 0]]
    BY <1>2, <1>5 DEF ReportFailed, Failed
  <2>3. n > 0
    BY <2>1, TimesAssumption DEF Smaller, TypeOK, CircuitRow
  <2>. HIDE DEF n
  <2>4. SvcOf(w) = s /\ circuit'[s].failures = n
    BY <1>1, <2>1, <2>2
  <2>5. attempt[w].token = NoToken \/ attempt[w].token = circuit[s].token
    BY <1>2, <1>5, <2>4 DEF ReportFailed, Failed
  <2>6. attempt'[w].pc # "failed"
    BY <1>5 DEF ReportFailed, TypeOK, Attempt
  <2>. QED
    BY <1>5, <2>3, <2>4, <2>5, <2>6 DEF ReportFailed, Reports
<1>6. ~ Tick
  BY DEF Tick, TypeOK, CircuitRow
<1>7. ASSUME NEW w \in Worker, Step(w)
      PROVE  (\E t \in Service : Granted(w, t)) \/ ReportRecovered(w) \/ ReportFailed(w)
  <2>1. SvcOf(w) \in Service
    BY ServiceOfType DEF SvcOf
  <2>2. \A pc, then, k : ~ Answer(w, pc, then, k)
    BY <1>2 DEF Answer
  <2>. QED
    BY <1>2, <1>7, <2>1, <2>2 DEF Step, Reserve, PanelReserve, Paused, BeginCall,
       SignAnswered, SendAnswered, ConsultAnswered, AskPanel, PanelAnswered, PanelReport,
       Finish, LeaseLost
<1>8. \E w \in Worker : Step(w)
  BY <1>2, <1>6 DEF Next, Claim, Crash, RecoverJob, LeaseLapses, CalmReturns, vars
<1>. QED
  BY <1>3, <1>4, <1>5, <1>7, <1>8

\* An old probe's answer takes no newer probe away and closes no circuit that a
\* newer probe is testing.
THEOREM ProbeStandsHolds == Spec => ProbeStands
<1>1. Init => Typing
  BY InitTyping
<1>2. Typing /\ [Next]_vars => Typing'
  BY TypingStep
<1>3. Typing /\ [Next]_vars => [\A s \in Service : TokenGoesRightly(s)]_vars
  BY TokenStep DEF Typing
<1>. QED
  BY <1>1, <1>2, <1>3, PTL DEF Spec, ProbeStands
=============================================================================
