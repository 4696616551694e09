-------------------------- MODULE Acquisition_proofs ---------------------------
(***************************************************************************)
(* For any tasks, workers, sources, domains and limits: acquisition is     *)
(* well typed, loses no task, respects the policy and uses the rate        *)
(* limiter as RateLimiter says.  A task submitted once has a truthful      *)
(* status, an audit trail that is its history, and a TaskLifecycle.        *)
(***************************************************************************)
EXTENDS Acquisition, FiniteSetTheorems, WellFoundedInduction, TLAPS

\* The pause after an error, for whatever the doubling computes.
LEMMA BackoffNat ==
  ASSUME NEW d \in Domains, NEW n
  PROVE  Backoff(d, n) \in Nat
<1>1. Limits[d].maxBackoff \in Nat
  BY LimitsAssumption DEF DomainPolicy
<1> DEFINE doubled == Limits[d].errorBackoff * 2^(n - 1)
<1> HIDE DEF doubled
<1>2. Backoff(d, n) = IF doubled \in 0..Limits[d].maxBackoff THEN doubled
                      ELSE Limits[d].maxBackoff
  BY DEF Backoff, doubled
<1>3. QED BY <1>1, <1>2

\* No method of the limiter leaves its type.
LEMMA MethodsTyped ==
  ASSUME NEW d \in Domains, NEW s \in DomainState
  PROVE  /\ Refreshed(d, s) \in DomainState
         /\ Admitted(d, s) \in DomainState
         /\ Errored(d, s) \in DomainState
         /\ Errored(d, s).cooldownLeft = Backoff(d, s.errors + 1)
         /\ \A success \in BOOLEAN : Released(s, success) \in DomainState
         /\ Elapsed(s) \in DomainState
<1>1. /\ Limits[d].window \in Nat /\ Limits[d].minDelay \in Nat
      /\ Backoff(d, s.errors + 1) \in Nat
  BY LimitsAssumption, BackoffNat DEF DomainPolicy
<1>2. /\ s.inflight + 1 \in Nat /\ s.windowCount + 1 \in Nat /\ s.errors + 1 \in Nat
      /\ \A n \in Nat : Less(n) \in Nat
  BY DEF DomainState, Less
<1>3. Refreshed(d, s) \in DomainState
  BY <1>1 DEF Refreshed, DomainState
<1>4. Admitted(d, s) \in DomainState
  BY <1>1, <1>2 DEF Admitted, DomainState
<1>5. Errored(d, s) \in DomainState /\ Errored(d, s).cooldownLeft = Backoff(d, s.errors + 1)
  <2> DEFINE n == s.errors + 1
             pause == Backoff(d, n)
  <2>1. n \in Nat /\ pause \in Nat /\ Errored(d, s) = [s EXCEPT !.errors = n, !.cooldownLeft = pause]
    BY <1>1, <1>2 DEF Errored
  <2> HIDE DEF n, pause
  <2>2. QED BY <2>1 DEF DomainState, n, pause
<1>6. ASSUME NEW success \in BOOLEAN PROVE Released(s, success) \in DomainState
  <2>1. Less(s.inflight) \in Nat
    BY <1>2 DEF DomainState
  <2>2. QED BY <2>1 DEF Released, DomainState
<1>7. Elapsed(s) \in DomainState
  <2>1. Less(s.delayLeft) \in Nat /\ Less(s.cooldownLeft) \in Nat /\ Less(s.windowLeft) \in Nat
    BY <1>2 DEF DomainState
  <2>2. QED BY <2>1 DEF Elapsed, DomainState
<1>8. QED BY <1>3, <1>4, <1>5, <1>6, <1>7

LEMMA TasksTyped ==
  ASSUME NEW t \in Tasks
  PROVE  /\ SourceOf[t] \in Sources
         /\ DomainOf[t] \in Domains
         /\ TypeOf[t] \in TaskType
  BY AcquisitionAssumption

LEMMA JobsTyped ==
  ASSUME NEW j \in Jobs
  PROVE  /\ j[1] \in Tasks
         /\ j[2] \in 1..MaxSubmits
         /\ j # NoJob
  BY AcquisitionAssumption DEF Jobs

LEMMA WaitForNat ==
  ASSUME NEW d \in Domains, NEW s \in DomainState
  PROVE  WaitFor(d, s) \in Nat
<1>1. s.delayLeft \in Nat /\ s.cooldownLeft \in Nat /\ s.windowLeft \in Nat
  BY DEF DomainState
<1>2. QED BY <1>1 DEF WaitFor, Later

LEMMA LogTyped ==
  ASSUME TypeOK, NEW t \in Tasks, NEW o \in Terminal, NEW n \in Nat, Log(t, o, n)
  PROVE  audit' \in [Tasks -> Seq(AuditRecord)]
<1> DEFINE r == [outcome |-> o, attempt |-> n]
<1>1. r \in AuditRecord
  BY DEF AuditRecord
<1>2. audit[t] \in Seq(AuditRecord) /\ audit \in [Tasks -> Seq(AuditRecord)]
  BY DEF TypeOK
<1> HIDE DEF r
<1>3. Append(audit[t], r) \in Seq(AuditRecord)
  BY <1>1, <1>2
<1>4. audit' = [audit EXCEPT ![t] = Append(audit[t], r)]
  BY DEF Log, r
<1>5. QED BY <1>2, <1>3, <1>4

-------------------------------------------------------------------------------
(***************************************************************************)
(* TypeOK is not inductive by itself: process_task fetches the task of an  *)
(* item from the repository, so there must be one.  Grounded says there is *)
(* for every item waiting, popped or being worked at.                      *)
(***************************************************************************)
Grounded ==
  /\ \A j \in Jobs : queue[j] # NotQueued \/ j \in batch => current[j[1]] >= 1
  /\ \A w \in Workers : worker[w].job # NoJob =>
       worker[w].object >= 1 /\ current[worker[w].job[1]] >= 1

Inv == TypeOK /\ Grounded

WorkerState ==
  [job: Jobs \cup {NoJob}, object: 0..MaxSubmits, attempt: Nat]

LEMMA StateTyped ==
  ASSUME TypeOK
  PROVE  /\ \A d \in Domains : limiter[d] \in DomainState
         /\ \A t \in Tasks : /\ current[t] \in 0..MaxSubmits
                             /\ attempt[t] \in [1..MaxSubmits -> Nat]
                             /\ status[t] \in TaskStatus
         /\ \A j \in Jobs : queue[j] \in Nat \cup {NotQueued}
         /\ \A w \in Workers : worker[w] \in WorkerState
         /\ MaxSubmits \in Nat \ {0} /\ MaxAttempts \in Nat \ {0}
  BY AcquisitionAssumption DEF TypeOK, WorkerState

\* The task behind an item, as process_task finds it.
LEMMA FetchTyped ==
  ASSUME Inv, NEW w \in Workers, NEW j \in Jobs, Take(w, j)
  PROVE  /\ current[j[1]] \in 1..MaxSubmits
         /\ attempt[j[1]][current[j[1]]] \in Nat
         /\ batch' \subseteq Jobs
<1>1. current[j[1]] \in 0..MaxSubmits /\ current[j[1]] >= 1
  BY JobsTyped, StateTyped DEF Inv, Grounded, Take
<1>2. current[j[1]] \in 1..MaxSubmits
  BY <1>1, StateTyped DEF Inv
<1>3. attempt[j[1]] \in [1..MaxSubmits -> Nat]
  BY JobsTyped, StateTyped DEF Inv
<1>4. batch' \subseteq Jobs
  BY DEF Inv, TypeOK, Take
<1>5. QED BY <1>2, <1>3, <1>4

\* What a worker returns from the handler with, and what End makes of it.
LEMMA EndTyped ==
  ASSUME Inv, NEW w \in Workers, NEW o \in Terminal, End(w, o)
  PROVE  /\ worker[w].job \in Jobs
         /\ worker[w].job[1] \in Tasks
         /\ DomainOf[worker[w].job[1]] \in Domains
         /\ worker[w].attempt \in Nat
         /\ worker' = [worker EXCEPT ![w] = Idle]
         /\ worker' \in [Workers -> WorkerState]
         /\ audit' \in [Tasks -> Seq(AuditRecord)]
<1> DEFINE t == worker[w].job[1]
           n == worker[w].object
<1>1. /\ worker[w] \in WorkerState
      /\ worker[w].job # NoJob
      /\ n >= 1
      /\ worker' = [worker EXCEPT ![w] = Idle]
      /\ Log(t, o, attempt[t][n])
  BY StateTyped DEF Inv, Grounded, End
<1>2. /\ worker[w].job \in Jobs
      /\ worker[w].attempt \in Nat
      /\ n \in 0..MaxSubmits
  BY <1>1 DEF WorkerState
<1>3. t \in Tasks /\ DomainOf[t] \in Domains
  BY <1>2, JobsTyped, TasksTyped
<1>4. n \in 1..MaxSubmits
  BY <1>1, <1>2, StateTyped DEF Inv
<1>5. attempt[t][n] \in Nat
  BY <1>3, <1>4, StateTyped DEF Inv
<1>6. Idle \in WorkerState
  BY StateTyped DEF Idle, WorkerState, Inv
<1> HIDE DEF t, n
<1>7. audit' \in [Tasks -> Seq(AuditRecord)]
  BY <1>1, <1>3, <1>5, LogTyped DEF Inv
<1>8. worker' \in [Workers -> WorkerState]
  BY <1>1, <1>6, StateTyped DEF Inv, TypeOK, WorkerState
<1>9. QED BY <1>1, <1>2, <1>3, <1>7, <1>8 DEF t

LEMMA TypeInit == Init => Inv
<1> SUFFICES ASSUME Init PROVE Inv
  OBVIOUS
<1>1. MaxSubmits \in Nat \ {0}
  BY AcquisitionAssumption
<1>2. Idle \in WorkerState
  BY <1>1 DEF Idle, WorkerState
<1>3. TypeOK
  BY <1>1, <1>2 DEF Init, NewDomainState, DomainState, TypeOK, WorkerState, PolicyStatus, TaskStatus,
     Terminal, NotQueued
<1>4. Grounded
  BY DEF Init, Grounded, Idle
<1>5. QED BY <1>3, <1>4 DEF Inv

\* Queueing an item for a delay, with the status that goes with it.
LEMMA EnqueueTyped ==
  ASSUME TypeOK, NEW j \in Jobs, NEW delay \in Nat, EnqueueWithDelay(j, delay)
  PROVE  /\ queue' \in [Jobs -> Nat \cup {NotQueued}]
         /\ status' \in [Tasks -> TaskStatus]
         /\ \A i \in Jobs \ {j} : queue'[i] = queue[i]
<1>1. j[1] \in Tasks /\ "queued" \in TaskStatus
  BY JobsTyped DEF TaskStatus
<1>2. QED BY <1>1 DEF EnqueueWithDelay, TypeOK

LEMMA SetStatusTyped ==
  ASSUME TypeOK, NEW t \in Tasks, NEW s \in TaskStatus,
         status' = [status EXCEPT ![t] = s]
  PROVE  status' \in [Tasks -> TaskStatus]
  BY DEF TypeOK

LEMMA SetLimiterTyped ==
  ASSUME TypeOK, NEW d \in Domains, NEW s \in DomainState,
         limiter' = [limiter EXCEPT ![d] = s]
  PROVE  limiter' \in [Domains -> DomainState]
  BY DEF TypeOK

LEMMA AcceptStep ==
  ASSUME Inv, NEW t \in Tasks, NEW delay \in SubmitDelays, SubmitAccepted(t, delay)
  PROVE  Inv'
<1> DEFINE d == DomainOf[t]
           s == Refreshed(d, limiter[d])
           n == current[t] + 1
<1>1. TypeOK /\ Grounded /\ d \in Domains /\ n \in Nat /\ n >= 1
  BY TasksTyped, StateTyped DEF Inv
<1>2. s \in DomainState
  BY <1>1, MethodsTyped, StateTyped
<1>3. WaitFor(d, s) \in Nat /\ delay \in Nat
  BY <1>1, <1>2, WaitForNat, AcquisitionAssumption
<1>4. Later(delay, WaitFor(d, s)) \in Nat /\ "queued" \in TaskStatus
  BY <1>3 DEF Later, TaskStatus
<1> HIDE DEF d, s
<1>5. /\ n \in 1..MaxSubmits
      /\ limiter' = [limiter EXCEPT ![d] = s]
      /\ current' = [current EXCEPT ![t] = n]
      /\ status' = [status EXCEPT ![t] = "queued"]
      /\ queue' = [queue EXCEPT ![<<t, n>>] = Later(delay, WaitFor(d, s))]
      /\ UNCHANGED <<policy, attempt, batch, worker, audit>>
  BY <1>1, StateTyped DEF SubmitAccepted, d, s
<1>6. <<t, n>> \in Jobs
  BY <1>5 DEF Jobs
<1>7. TypeOK'
  <2>1. limiter' \in [Domains -> DomainState]
    BY <1>1, <1>2, <1>5, SetLimiterTyped
  <2>2. status' \in [Tasks -> TaskStatus]
    BY <1>1, <1>4, <1>5, SetStatusTyped
  <2>3. current' \in [Tasks -> 0..MaxSubmits]
    BY <1>1, <1>5, StateTyped DEF TypeOK
  <2>4. queue' \in [Jobs -> Nat \cup {NotQueued}]
    BY <1>1, <1>4, <1>5, <1>6 DEF TypeOK
  <2>5. QED BY <1>1, <1>5, <2>1, <2>2, <2>3, <2>4 DEF TypeOK
<1>8. Grounded'
  <2>1. \A u \in Tasks : current[u] >= 1 => current'[u] >= 1
    BY <1>1, <1>5, StateTyped DEF TypeOK
  <2>2. current'[t] >= 1
    BY <1>1, <1>5 DEF TypeOK
  <2>3. \A j \in Jobs : j # <<t, n>> => queue'[j] = queue[j]
    BY <1>1, <1>5 DEF TypeOK
  <2>4. QED
    BY <1>1, <1>5, <2>1, <2>2, <2>3, JobsTyped, StateTyped DEF Grounded, WorkerState
<1>9. QED BY <1>7, <1>8 DEF Inv

LEMMA DenyStep ==
  ASSUME Inv, NEW t \in Tasks, SubmitDenied(t)
  PROVE  Inv'
<1> DEFINE n == current[t] + 1
<1>1. /\ TypeOK /\ Grounded /\ n \in Nat /\ n >= 1
      /\ "denied" \in TaskStatus /\ "denied" \in Terminal /\ 0 \in Nat
  BY StateTyped DEF Inv, TaskStatus, Terminal
<1>2. /\ n \in 1..MaxSubmits
      /\ current' = [current EXCEPT ![t] = n]
      /\ status' = [status EXCEPT ![t] = "denied"]
      /\ Log(t, "denied", 0)
      /\ UNCHANGED <<policy, limiter, attempt, queue, batch, worker>>
  BY <1>1, StateTyped DEF SubmitDenied
<1>3. status' \in [Tasks -> TaskStatus]
  BY <1>1, <1>2, SetStatusTyped
<1>4. audit' \in [Tasks -> Seq(AuditRecord)]
  BY <1>1, <1>2, LogTyped
<1>5. current' \in [Tasks -> 0..MaxSubmits]
  BY <1>1, <1>2, StateTyped DEF TypeOK
<1>6. TypeOK'
  BY <1>1, <1>2, <1>3, <1>4, <1>5 DEF TypeOK
<1>7. \A u \in Tasks : current[u] >= 1 => current'[u] >= 1
  BY <1>1, <1>2, StateTyped DEF TypeOK
<1>8. Grounded'
  BY <1>1, <1>2, <1>7, JobsTyped, StateTyped DEF Grounded, WorkerState
<1>9. QED BY <1>6, <1>8 DEF Inv

LEMMA ProcessStep ==
  ASSUME Inv, NEW w \in Workers, NEW j \in Jobs, Process(w, j)
  PROVE  Inv'
<1> DEFINE t == j[1]
           d == DomainOf[t]
           s == Refreshed(d, limiter[d])
           n == attempt[t][current[t]]
<1>1. TypeOK /\ Grounded /\ t \in Tasks /\ d \in Domains /\ j # NoJob
  BY JobsTyped, TasksTyped DEF Inv
<1>2. s \in DomainState /\ Admitted(d, s) \in DomainState
  BY <1>1, MethodsTyped, StateTyped
<1>3. /\ Released(Admitted(d, s), TRUE) \in DomainState
      /\ WaitFor(d, s) \in Nat
  BY <1>1, <1>2, MethodsTyped, WaitForNat
<1>4. /\ {"denied", "succeeded"} \subseteq Terminal
      /\ {"denied", "succeeded", "running"} \subseteq TaskStatus
  BY DEF Terminal, TaskStatus
<1>5. ASSUME Take(w, j)
      PROVE  /\ current[t] \in 1..MaxSubmits
             /\ n \in Nat /\ n + 1 \in Nat
             /\ batch' \subseteq batch /\ batch' \subseteq Jobs
             /\ j \in batch /\ current[t] >= 1
  <2>1. current[t] \in 1..MaxSubmits /\ n \in Nat /\ batch' \subseteq Jobs
    BY <1>5, FetchTyped
  <2>2. QED BY <1>5, <2>1 DEF Take
<1>6. ASSUME Take(w, j), UNCHANGED <<current, worker>>,
             \A i \in Jobs \ {j} : queue'[i] = queue[i]
      PROVE  Grounded'
  BY <1>1, <1>5, <1>6 DEF Grounded
<1> HIDE DEF t, d, s, n
<1>7. ASSUME Deny(w, j) PROVE Inv'
  <2>1. /\ Take(w, j) /\ Log(t, "denied", n)
        /\ status' = [status EXCEPT ![t] = "denied"]
        /\ UNCHANGED <<policy, limiter, current, attempt, queue, worker>>
    BY <1>7 DEF Deny, t, n
  <2>2. audit' \in [Tasks -> Seq(AuditRecord)]
    BY <1>1, <1>4, <1>5, <2>1, LogTyped
  <2>3. status' \in [Tasks -> TaskStatus]
    BY <1>1, <1>4, <2>1, SetStatusTyped
  <2>4. TypeOK'
    BY <1>1, <1>5, <2>1, <2>2, <2>3 DEF TypeOK
  <2>5. QED BY <1>6, <2>1, <2>4 DEF Inv
<1>8. ASSUME Postpone(w, j) PROVE Inv'
  <2>1. /\ Take(w, j) /\ EnqueueWithDelay(j, WaitFor(d, s))
        /\ limiter' = [limiter EXCEPT ![d] = s]
        /\ UNCHANGED <<policy, current, attempt, worker, audit>>
    BY <1>8 DEF Postpone, t, d, s
  <2>2. limiter' \in [Domains -> DomainState]
    BY <1>1, <1>2, <2>1, SetLimiterTyped
  <2>3. /\ queue' \in [Jobs -> Nat \cup {NotQueued}]
        /\ status' \in [Tasks -> TaskStatus]
        /\ \A i \in Jobs \ {j} : queue'[i] = queue[i]
    BY <1>1, <1>3, <2>1, EnqueueTyped
  <2>4. TypeOK'
    BY <1>1, <1>5, <2>1, <2>2, <2>3 DEF TypeOK
  <2>5. QED BY <1>6, <2>1, <2>3, <2>4 DEF Inv
<1>9. ASSUME Start(w, j) PROVE Inv'
  <2> DEFINE r == [job |-> j, object |-> current[t], attempt |-> n + 1]
  <2>1. /\ Take(w, j)
        /\ limiter' = [limiter EXCEPT ![d] = Admitted(d, s)]
        /\ status' = [status EXCEPT ![t] = "running"]
        /\ attempt' = [attempt EXCEPT ![t][current[t]] = n + 1]
        /\ worker' = [worker EXCEPT ![w] = r]
        /\ UNCHANGED <<policy, current, queue, audit>>
    BY <1>9 DEF Start, t, d, s, n
  <2>2. limiter' \in [Domains -> DomainState]
    BY <1>1, <1>2, <2>1, SetLimiterTyped
  <2>3. status' \in [Tasks -> TaskStatus]
    BY <1>1, <1>4, <2>1, SetStatusTyped
  <2>4. attempt' \in [Tasks -> [1..MaxSubmits -> Nat]]
    BY <1>1, <1>5, <2>1, StateTyped DEF TypeOK
  <2>5. r \in WorkerState
    BY <1>1, <1>5, <2>1, StateTyped DEF WorkerState
  <2> HIDE DEF r
  <2>6. worker' \in [Workers -> WorkerState]
    BY <1>1, <2>1, <2>5 DEF TypeOK, WorkerState
  <2>7. TypeOK'
    BY <1>1, <1>5, <2>1, <2>2, <2>3, <2>4, <2>6 DEF TypeOK, WorkerState
  <2>8. r.object >= 1 /\ r.job[1] = t /\ current[t] >= 1
    BY <1>5, <2>1 DEF r, t
  <2>9. Grounded'
    BY <1>1, <1>5, <2>1, <2>8 DEF Grounded, TypeOK
  <2>10. QED BY <2>7, <2>9 DEF Inv
<1>10. ASSUME RunInline(w, j) PROVE Inv'
  <2>1. /\ Take(w, j) /\ Log(t, "succeeded", n + 1)
        /\ limiter' = [limiter EXCEPT ![d] = Released(Admitted(d, s), TRUE)]
        /\ status' = [status EXCEPT ![t] = "succeeded"]
        /\ attempt' = [attempt EXCEPT ![t][current[t]] = n + 1]
        /\ UNCHANGED <<policy, current, queue, worker>>
    BY <1>10 DEF RunInline, t, d, s, n
  <2>2. limiter' \in [Domains -> DomainState]
    BY <1>1, <1>3, <2>1, SetLimiterTyped
  <2>3. status' \in [Tasks -> TaskStatus]
    BY <1>1, <1>4, <2>1, SetStatusTyped
  <2>4. attempt' \in [Tasks -> [1..MaxSubmits -> Nat]]
    BY <1>1, <1>5, <2>1, StateTyped DEF TypeOK
  <2>5. audit' \in [Tasks -> Seq(AuditRecord)]
    BY <1>1, <1>4, <1>5, <2>1, LogTyped
  <2>6. TypeOK'
    BY <1>1, <1>5, <2>1, <2>2, <2>3, <2>4, <2>5 DEF TypeOK
  <2>7. QED BY <1>6, <2>1, <2>6 DEF Inv
<1>11. QED BY <1>7, <1>8, <1>9, <1>10 DEF Process

LEMMA FinishStep ==
  ASSUME Inv, NEW w \in Workers, Finish(w)
  PROVE  Inv'
<1> DEFINE j == worker[w].job
           t == j[1]
           d == DomainOf[t]
           s == Errored(d, limiter[d])
<1>1. TypeOK /\ Grounded /\ {"succeeded", "failed"} \subseteq Terminal
      /\ {"succeeded", "failed"} \subseteq TaskStatus
  BY DEF Inv, Terminal, TaskStatus
<1>2. ASSUME NEW o \in Terminal, End(w, o)
      PROVE  /\ j \in Jobs /\ t \in Tasks /\ d \in Domains
             /\ worker' = [worker EXCEPT ![w] = Idle]
             /\ worker' \in [Workers -> WorkerState]
             /\ audit' \in [Tasks -> Seq(AuditRecord)]
             /\ s \in DomainState /\ s.cooldownLeft \in Nat
             /\ Released(s, FALSE) \in DomainState
             /\ \A success \in BOOLEAN : Released(limiter[d], success) \in DomainState
  <2>1. /\ j \in Jobs /\ t \in Tasks /\ d \in Domains
        /\ worker' = [worker EXCEPT ![w] = Idle]
        /\ worker' \in [Workers -> WorkerState]
        /\ audit' \in [Tasks -> Seq(AuditRecord)]
    BY <1>2, EndTyped
  <2>2. limiter[d] \in DomainState
    BY <1>1, <2>1, StateTyped
  <2>3. s \in DomainState /\ s.cooldownLeft = Backoff(d, limiter[d].errors + 1)
    BY <2>1, <2>2, MethodsTyped
  <2>4. s.cooldownLeft \in Nat
    BY <2>1, <2>3, BackoffNat
  <2>5. Released(s, FALSE) \in DomainState
    BY <2>1, <2>3, MethodsTyped
  <2>6. \A success \in BOOLEAN : Released(limiter[d], success) \in DomainState
    BY <2>1, <2>2, MethodsTyped
  <2>7. QED BY <2>1, <2>3, <2>4, <2>5, <2>6
<1>3. ASSUME worker' = [worker EXCEPT ![w] = Idle], UNCHANGED <<current, batch>>,
             \A i \in Jobs \ {j} : queue'[i] = queue[i],
             j # NoJob
      PROVE  Grounded'
  <2>1. current[j[1]] >= 1
    BY <1>1, <1>3 DEF Grounded
  <2>2. \A v \in Workers : v # w => worker'[v] = worker[v]
    BY <1>1, <1>3 DEF TypeOK
  <2>3. worker'[w].job = NoJob
    BY <1>1, <1>3 DEF TypeOK, Idle
  <2>4. QED BY <1>1, <1>3, <2>1, <2>2, <2>3 DEF Grounded
<1> HIDE DEF j, t, d, s
<1>4. ASSUME NEW o \in {"succeeded", "failed"}, NEW success \in BOOLEAN, End(w, o),
             \/ limiter' = [limiter EXCEPT ![d] = Released(limiter[d], success)]
             \/ limiter' = [limiter EXCEPT ![d] = Released(s, FALSE)],
             status' = [status EXCEPT ![t] = o],
             UNCHANGED <<policy, current, attempt, queue, batch>>
      PROVE  Inv'
  <2>1. o \in Terminal /\ o \in TaskStatus
    BY <1>1
  <2>2. limiter' \in [Domains -> DomainState]
    BY <1>1, <1>2, <1>4, <2>1, SetLimiterTyped
  <2>3. status' \in [Tasks -> TaskStatus]
    BY <1>1, <1>2, <1>4, <2>1, SetStatusTyped
  <2>4. TypeOK'
    BY <1>1, <1>2, <1>4, <2>1, <2>2, <2>3 DEF TypeOK, WorkerState
  <2>5. Grounded'
    BY <1>2, <1>3, <1>4, <2>1 DEF End, j
  <2>6. QED BY <2>4, <2>5 DEF Inv
<1>5. ASSUME Succeed(w) PROVE Inv'
  BY <1>4, <1>5 DEF Succeed, SetLimiter, t, d, j
<1>6. ASSUME Fail(w) PROVE Inv'
  BY <1>4, <1>6 DEF Fail, SetLimiter, t, d, j
<1>7. ASSUME Retry(w) PROVE Inv'
  <2>1. /\ End(w, "failed") /\ "failed" \in Terminal
        /\ limiter' = [limiter EXCEPT ![d] = Released(s, FALSE)]
        /\ EnqueueWithDelay(j, s.cooldownLeft)
        /\ UNCHANGED <<policy, current, attempt, batch>>
    BY <1>1, <1>7 DEF Retry, SetLimiter, t, d, j, s
  <2>2. limiter' \in [Domains -> DomainState]
    BY <1>1, <1>2, <2>1, SetLimiterTyped
  <2>3. /\ queue' \in [Jobs -> Nat \cup {NotQueued}]
        /\ status' \in [Tasks -> TaskStatus]
        /\ \A i \in Jobs \ {j} : queue'[i] = queue[i]
    BY <1>1, <1>2, <2>1, EnqueueTyped
  <2>4. TypeOK'
    BY <1>1, <1>2, <2>1, <2>2, <2>3 DEF TypeOK, WorkerState
  <2>5. Grounded'
    BY <1>2, <1>3, <2>1, <2>3 DEF End, j
  <2>6. QED BY <2>4, <2>5 DEF Inv
<1>8. ASSUME GiveUp(w) PROVE Inv'
  BY <1>4, <1>8 DEF GiveUp, SetLimiter, t, d, j, s
<1>9. QED BY <1>5, <1>6, <1>7, <1>8 DEF Finish

LEMMA QueueStep ==
  ASSUME Inv, PopDue \/ Tick
  PROVE  Inv'
<1>1. TypeOK /\ Grounded
  BY DEF Inv
<1>2. ASSUME PopDue PROVE Inv'
  <2>1. Due \subseteq Jobs /\ \A j \in Due : queue[j] # NotQueued
    BY DEF Due, NotQueued
  <2>2. TypeOK'
    BY <1>1, <1>2, <2>1 DEF PopDue, TypeOK
  <2>3. Grounded'
    BY <1>1, <1>2, <2>1 DEF PopDue, Grounded
  <2>4. QED BY <2>2, <2>3 DEF Inv
<1>3. ASSUME Tick PROVE Inv'
  <2>1. limiter' \in [Domains -> DomainState]
    BY <1>1, <1>3, StateTyped, MethodsTyped DEF Tick
  <2>2. queue' \in [Jobs -> Nat \cup {NotQueued}]
    BY <1>1, <1>3, StateTyped DEF Tick, NotQueued
  <2>3. \A j \in Jobs : queue'[j] # NotQueued => queue[j] # NotQueued
    BY <1>1, <1>3, StateTyped DEF Tick, NotQueued
  <2>4. TypeOK'
    BY <1>1, <1>3, <2>1, <2>2 DEF Tick, TypeOK
  <2>5. Grounded'
    BY <1>1, <1>3, <2>3 DEF Tick, Grounded
  <2>6. QED BY <2>4, <2>5 DEF Inv
<1>4. QED BY <1>2, <1>3

LEMMA InvStep == Inv /\ [Next]_vars => Inv'
<1> SUFFICES ASSUME Inv, [Next]_vars PROVE Inv'
  OBVIOUS
<1>1. ASSUME NEW s \in Sources, NEW p \in PolicyStatus, UpsertPolicy(s, p) PROVE Inv'
  BY <1>1 DEF UpsertPolicy, Inv, TypeOK, Grounded
<1>2. CASE UNCHANGED vars
  BY <1>2 DEF vars, Inv, TypeOK, Grounded
<1>3. ASSUME NEW t \in Tasks, SubmitDenied(t) PROVE Inv'
  BY <1>3, DenyStep
<1>4. QED
  BY <1>1, <1>2, <1>3, AcceptStep, ProcessStep, FinishStep, QueueStep DEF Next

(***************************************************************************)
(* Every reachable state of acquisition is well typed; in particular a     *)
(* worker always finds the task of the item it takes.                      *)
(***************************************************************************)
THEOREM AcquisitionTyped == Spec => []TypeOK
<1>1. Spec => []Inv
  BY TypeInit, InvStep, PTL DEF Spec
<1>2. Inv => TypeOK
  BY DEF Inv
<1>3. QED BY <1>1, <1>2, PTL

-------------------------------------------------------------------------------
(***************************************************************************)
(* No task is lost.  Every step that writes a status also puts the item or *)
(* the worker the status speaks of in place, for the one task it is about, *)
(* and leaves the items and workers of all other tasks where they are.     *)
(***************************************************************************)
Kept(t) ==
  /\ status[t] = "queued" => Pending(t) # {}
  /\ status[t] = "running" => Executing(t) # {}

\* A step that is about one task only.
LEMMA OthersKept ==
  ASSUME NoTaskLost, NEW t \in Tasks, Kept(t)',
         \A u \in Tasks \ {t} : /\ status'[u] = status[u]
                                /\ Pending(u)' = Pending(u)
                                /\ Executing(u)' = Executing(u)
  PROVE  NoTaskLost'
  BY DEF NoTaskLost, Kept

\* Where the items and workers of the other tasks are after a step.
LEMMA OthersLeft ==
  ASSUME Inv, NEW t \in Tasks, NEW w \in Workers, NEW j \in Jobs, j[1] = t,
         \A i \in Jobs \ {j} : queue'[i] = queue[i] /\ (i \in batch' <=> i \in batch),
         \/ UNCHANGED worker
         \/ /\ \A v \in Workers \ {w} : worker'[v] = worker[v]
            /\ worker[w].job \in {j, NoJob} /\ worker'[w].job \in {j, NoJob}
  PROVE  \A u \in Tasks \ {t} : /\ Pending(u)' = Pending(u)
                                /\ Executing(u)' = Executing(u)
<1> SUFFICES ASSUME NEW u \in Tasks \ {t}
             PROVE  Pending(u)' = Pending(u) /\ Executing(u)' = Executing(u)
  OBVIOUS
<1>1. Pending(u)' = Pending(u)
  BY DEF Pending
<1>2. Executing(u)' = Executing(u)
  BY DEF Executing
<1>3. QED BY <1>1, <1>2

LEMMA LostInit == Init => NoTaskLost
  BY DEF Init, NoTaskLost

LEMMA LostProcess ==
  ASSUME Inv, NoTaskLost, NEW w \in Workers, NEW j \in Jobs, Process(w, j)
  PROVE  NoTaskLost'
<1> DEFINE t == j[1]
<1>1. t \in Tasks /\ j # NoJob /\ TypeOK
  BY JobsTyped DEF Inv
<1> HIDE DEF t
<1>2. ASSUME Take(w, j)
      PROVE \A i \in Jobs \ {j} : i \in batch' <=> i \in batch
  BY <1>2 DEF Take
<1>3. ASSUME Take(w, j), UNCHANGED worker, Kept(t)',
             \A i \in Jobs \ {j} : queue'[i] = queue[i],
             \A u \in Tasks \ {t} : status'[u] = status[u]
      PROVE  NoTaskLost'
  BY <1>1, <1>2, <1>3, OthersLeft, OthersKept DEF t
<1>4. ASSUME NEW s \in {"denied", "succeeded"}, Take(w, j), UNCHANGED <<queue, worker>>,
             status' = [status EXCEPT ![t] = s]
      PROVE  NoTaskLost'
  <2>1. Kept(t)' /\ \A u \in Tasks \ {t} : status'[u] = status[u]
    BY <1>1, <1>4 DEF Kept, TypeOK
  <2>2. QED BY <1>3, <1>4, <2>1
<1>5. CASE Deny(w, j)
  BY <1>4, <1>5 DEF Deny, t
<1>6. CASE RunInline(w, j)
  BY <1>4, <1>6 DEF RunInline, t
<1>7. CASE Postpone(w, j)
  <2> DEFINE d == DomainOf[t]
             delay == WaitFor(d, Refreshed(d, limiter[d]))
  <2>1. Take(w, j) /\ UNCHANGED worker /\ EnqueueWithDelay(j, delay)
    BY <1>7 DEF Postpone, t
  <2>2. d \in Domains /\ Refreshed(d, limiter[d]) \in DomainState
    BY <1>1, TasksTyped, StateTyped, MethodsTyped
  <2>3. delay \in Nat
    BY <2>2, WaitForNat
  <2> HIDE DEF d, delay
  <2>4. /\ queue'[j] = delay
        /\ \A i \in Jobs \ {j} : queue'[i] = queue[i]
        /\ status' = [status EXCEPT ![t] = "queued"]
    BY <1>1, <2>1 DEF EnqueueWithDelay, TypeOK, t
  <2>5. j \in Pending(t)'
    BY <2>3, <2>4 DEF Pending, NotQueued, t
  <2>6. Kept(t)' /\ \A u \in Tasks \ {t} : status'[u] = status[u]
    BY <1>1, <2>4, <2>5 DEF Kept, TypeOK
  <2>7. QED BY <1>3, <2>1, <2>4, <2>6
<1>8. CASE Start(w, j)
  <2>1. /\ Take(w, j) /\ UNCHANGED queue
        /\ status' = [status EXCEPT ![t] = "running"]
        /\ \A v \in Workers \ {w} : worker'[v] = worker[v]
        /\ worker[w].job = NoJob /\ worker'[w].job = j
    BY <1>1, <1>8 DEF Start, Take, Idle, TypeOK, t
  <2>2. w \in Executing(t)'
    BY <1>1, <2>1 DEF Executing, t
  <2>3. Kept(t)' /\ \A u \in Tasks \ {t} : status'[u] = status[u]
    BY <1>1, <2>1, <2>2 DEF Kept, TypeOK
  <2>4. QED BY <1>1, <1>2, <2>1, <2>3, OthersLeft, OthersKept DEF t
<1>9. QED BY <1>5, <1>6, <1>7, <1>8 DEF Process

LEMMA LostFinish ==
  ASSUME Inv, NoTaskLost, NEW w \in Workers, Finish(w)
  PROVE  NoTaskLost'
<1>1. TypeOK /\ {"succeeded", "failed"} \subseteq Terminal
  BY DEF Inv, Terminal
<1>2. \E o \in Terminal : End(w, o)
  BY <1>1 DEF Finish, Succeed, Fail, Retry, GiveUp
<1>3. /\ worker[w].job \in Jobs
      /\ worker' = [worker EXCEPT ![w] = Idle]
  BY <1>2, EndTyped
<1>4. PICK j \in Jobs : worker[w].job = j
  BY <1>3
<1> DEFINE t == j[1]
<1>5. /\ j # NoJob /\ t \in Tasks
      /\ \A v \in Workers \ {w} : worker'[v] = worker[v]
      /\ worker'[w].job = NoJob
  BY <1>1, <1>3, JobsTyped DEF TypeOK, Idle
<1> HIDE DEF t
<1>6. ASSUME UNCHANGED batch, Kept(t)',
             \A i \in Jobs \ {j} : queue'[i] = queue[i],
             \A u \in Tasks \ {t} : status'[u] = status[u]
      PROVE  NoTaskLost'
  BY <1>4, <1>5, <1>6, OthersLeft, OthersKept DEF t
<1>7. ASSUME NEW o \in {"succeeded", "failed"}, UNCHANGED <<batch, queue>>,
             status' = [status EXCEPT ![t] = o]
      PROVE  NoTaskLost'
  <2>1. Kept(t)' /\ \A u \in Tasks \ {t} : status'[u] = status[u]
    BY <1>1, <1>5, <1>7 DEF Kept, TypeOK
  <2>2. QED BY <1>6, <1>7, <2>1
<1>8. CASE Succeed(w)
  BY <1>4, <1>7, <1>8 DEF Succeed, t
<1>9. CASE Fail(w)
  BY <1>4, <1>7, <1>9 DEF Fail, t
<1>10. CASE GiveUp(w)
  BY <1>4, <1>7, <1>10 DEF GiveUp, t
<1>11. CASE Retry(w)
  <2> DEFINE d == DomainOf[t]
             delay == Errored(d, limiter[d]).cooldownLeft
  <2>1. UNCHANGED batch /\ EnqueueWithDelay(j, delay)
    BY <1>4, <1>11 DEF Retry, t
  <2>2. d \in Domains /\ limiter[d] \in DomainState
    BY <1>1, <1>5, TasksTyped, StateTyped
  <2>3. delay \in Nat
    BY <2>2, MethodsTyped, BackoffNat
  <2> HIDE DEF d, delay
  <2>4. /\ queue'[j] = delay
        /\ \A i \in Jobs \ {j} : queue'[i] = queue[i]
        /\ status' = [status EXCEPT ![t] = "queued"]
    BY <1>1, <2>1 DEF EnqueueWithDelay, TypeOK, t
  <2>5. j \in Pending(t)'
    BY <2>3, <2>4 DEF Pending, NotQueued, t
  <2>6. Kept(t)' /\ \A u \in Tasks \ {t} : status'[u] = status[u]
    BY <1>1, <1>5, <2>4, <2>5 DEF Kept, TypeOK
  <2>7. QED BY <1>6, <2>1, <2>4, <2>6
<1>12. QED BY <1>8, <1>9, <1>10, <1>11 DEF Finish

LEMMA LostStep == Inv /\ NoTaskLost /\ [Next]_vars => NoTaskLost'
<1> SUFFICES ASSUME Inv, NoTaskLost, [Next]_vars PROVE NoTaskLost'
  OBVIOUS
<1>1. TypeOK
  BY DEF Inv
<1>2. ASSUME UNCHANGED <<status, queue, batch, worker>> PROVE NoTaskLost'
  BY <1>2 DEF NoTaskLost, Pending, Executing
<1>3. ASSUME NEW t \in Tasks, NEW delay \in SubmitDelays, SubmitAccepted(t, delay)
      PROVE  NoTaskLost'
  <2> DEFINE j == <<t, current[t] + 1>>
             d == DomainOf[t]
             due == Later(delay, WaitFor(d, Refreshed(d, limiter[d])))
  <2>1. /\ queue' = [queue EXCEPT ![j] = due]
        /\ status' = [status EXCEPT ![t] = "queued"]
        /\ UNCHANGED <<batch, worker>>
    BY <1>3 DEF SubmitAccepted
  <2>2. j \in Jobs /\ j[1] = t
    BY <1>1, <1>3, StateTyped DEF SubmitAccepted, Jobs
  <2>3. d \in Domains /\ Refreshed(d, limiter[d]) \in DomainState /\ delay \in Nat
    BY <1>1, TasksTyped, StateTyped, MethodsTyped, AcquisitionAssumption
  <2>4. WaitFor(d, Refreshed(d, limiter[d])) \in Nat
    BY <2>3, WaitForNat
  <2>5. due \in Nat
    BY <2>3, <2>4 DEF Later
  <2> HIDE DEF j, d, due
  <2>6. queue'[j] = due /\ \A i \in Jobs \ {j} : queue'[i] = queue[i]
    BY <1>1, <2>1, <2>2 DEF TypeOK
  <2>7. j \in Pending(t)'
    BY <2>2, <2>5, <2>6 DEF Pending, NotQueued
  <2>8. Kept(t)' /\ \A u \in Tasks \ {t} : status'[u] = status[u]
    BY <1>1, <2>1, <2>7 DEF Kept, TypeOK
  <2>9. \A u \in Tasks \ {t} : /\ Pending(u)' = Pending(u)
                               /\ Executing(u)' = Executing(u)
    BY <2>1, <2>2, <2>6 DEF Pending, Executing
  <2>10. QED BY <2>8, <2>9, OthersKept
<1>4. ASSUME NEW t \in Tasks, SubmitDenied(t) PROVE NoTaskLost'
  <2>1. /\ status' = [status EXCEPT ![t] = "denied"]
        /\ UNCHANGED <<queue, batch, worker>>
    BY <1>4 DEF SubmitDenied
  <2>2. QED BY <1>1, <2>1 DEF TypeOK, NoTaskLost, Pending, Executing
<1>5. ASSUME PopDue PROVE NoTaskLost'
  <2>1. \A t \in Tasks : Pending(t)' = Pending(t)
    BY <1>5 DEF PopDue, Pending, Due, NotQueued
  <2>2. QED BY <1>5, <2>1 DEF PopDue, NoTaskLost, Executing
<1>6. ASSUME Tick PROVE NoTaskLost'
  <2>1. \A j \in Jobs : queue'[j] = NotQueued <=> queue[j] = NotQueued
    BY <1>1, <1>6, StateTyped DEF Tick, NotQueued
  <2>2. \A t \in Tasks : Pending(t)' = Pending(t)
    BY <1>6, <2>1 DEF Tick, Pending
  <2>3. QED BY <1>6, <2>2 DEF Tick, NoTaskLost, Executing
<1>7. ASSUME NEW s \in Sources, NEW p \in PolicyStatus, UpsertPolicy(s, p)
      PROVE  NoTaskLost'
  BY <1>2, <1>7 DEF UpsertPolicy
<1>8. CASE UNCHANGED vars
  BY <1>2, <1>8 DEF vars
<1>9. QED
  BY <1>3, <1>4, <1>5, <1>6, <1>7, <1>8, LostProcess, LostFinish DEF Next

(***************************************************************************)
(* A status of queued or running is never left behind without the item or  *)
(* the worker that will change it, however often a task is resubmitted.    *)
(***************************************************************************)
THEOREM NoTaskIsLost == Spec => []NoTaskLost
<1>1. Spec => []Inv
  BY TypeInit, InvStep, PTL DEF Spec
<1>2. QED BY <1>1, LostInit, LostStep, PTL DEF Spec

(***************************************************************************)
(* No attempt of any kind begins against the policy of the moment.         *)
(***************************************************************************)
LEMMA PolicyStep ==
  Inv /\ [Next]_vars =>
    [\A t \in Tasks : attempt'[t] # attempt[t] => Allowed(t)]_vars
<1> SUFFICES ASSUME Inv, Next, NEW t \in Tasks, attempt'[t] # attempt[t]
             PROVE  Allowed(t)
  OBVIOUS
<1>1. \E w \in Workers, j \in Jobs : Start(w, j) \/ RunInline(w, j)
  BY DEF Next, UpsertPolicy, SubmitAccepted, SubmitDenied, PopDue, Process, Deny,
         Postpone, Finish, Succeed, Fail, Retry, GiveUp, Tick
<1>2. PICK w \in Workers, j \in Jobs : Start(w, j) \/ RunInline(w, j)
  BY <1>1
<1>3. /\ Allowed(j[1])
      /\ \A u \in Tasks \ {j[1]} : attempt'[u] = attempt[u]
  BY <1>2, JobsTyped DEF Start, RunInline, Inv, TypeOK
<1>4. QED BY <1>3

(***************************************************************************)
(* No attempt of any kind begins against the policy of the moment: the     *)
(* step that raises an attempt counter has the policy's permission as its  *)
(* guard.                                                                  *)
(***************************************************************************)
THEOREM PolicyRespected == Spec => AttemptNeedsPolicy
<1>1. Spec => []Inv
  BY TypeInit, InvStep, PTL DEF Spec
<1>2. QED BY <1>1, PolicyStep, PTL DEF Spec, AttemptNeedsPolicy

-------------------------------------------------------------------------------
(***************************************************************************)
(* The refinement: a worker's held domain is that of the task it executes. *)
(***************************************************************************)
LEMMA SameMethods ==
  ASSUME NEW d, NEW s
  PROVE  /\ RL!Refreshed(d, s) = Refreshed(d, s)
         /\ RL!CanAcquire(d, s) = CanAcquire(d, s)
         /\ RL!Admitted(d, s) = Admitted(d, s)
         /\ RL!Errored(d, s) = Errored(d, s)
         /\ \A success : RL!Released(s, success) = Released(s, success)
         /\ RL!Elapsed(s) = Elapsed(s)
<1>1. ASSUME NEW n PROVE RL!Less(n) = Less(n)
  BY DEF RL!Less, Less
<1>2. ASSUME NEW a, NEW b PROVE RL!Later(a, b) = Later(a, b)
  BY DEF RL!Later, Later
<1>3. ASSUME NEW n PROVE RL!Backoff(d, n) = Backoff(d, n)
  BY DEF RL!Backoff, Backoff
<1>4. RL!WaitFor(d, s) = WaitFor(d, s)
  BY <1>2 DEF RL!WaitFor, WaitFor
<1>5. RL!Refreshed(d, s) = Refreshed(d, s)
  BY DEF RL!Refreshed, Refreshed
<1>6. RL!CanAcquire(d, s) = CanAcquire(d, s)
  BY <1>4 DEF RL!CanAcquire, CanAcquire
<1>7. RL!Admitted(d, s) = Admitted(d, s)
  BY DEF RL!Admitted, Admitted
<1>8. RL!Errored(d, s) = Errored(d, s)
  BY <1>3 DEF RL!Errored, Errored
<1>9. \A success : RL!Released(s, success) = Released(s, success)
  BY <1>1 DEF RL!Released, Released
<1>10. RL!Elapsed(s) = Elapsed(s)
  BY <1>1 DEF RL!Elapsed, Elapsed
<1>11. QED BY <1>5, <1>6, <1>7, <1>8, <1>9, <1>10

\* The worker that takes a job takes a slot of its domain, and gives it back.
LEMMA HeldDomainMoves ==
  ASSUME Inv, NEW w \in Workers
  PROVE  /\ worker[w] = Idle => HeldDomain[w] = NoDomain
         /\ worker[w].job # NoJob => HeldDomain[w] = DomainOf[worker[w].job[1]]
         /\ worker' = [worker EXCEPT ![w] = Idle]
              => HeldDomain' = [HeldDomain EXCEPT ![w] = NoDomain]
         /\ \A j \in Jobs, r \in WorkerState :
              r.job = j /\ worker' = [worker EXCEPT ![w] = r]
                => HeldDomain' = [HeldDomain EXCEPT ![w] = DomainOf[j[1]]]
<1>1. TypeOK /\ \A j \in Jobs : j # NoJob
  BY JobsTyped DEF Inv
<1>2. \A v \in Workers : HeldDomain[v] = IF worker[v].job = NoJob THEN NoDomain
                                        ELSE DomainOf[worker[v].job[1]]
  BY DEF HeldDomain
<1>3. ASSUME worker' = [worker EXCEPT ![w] = Idle]
      PROVE  HeldDomain' = [HeldDomain EXCEPT ![w] = NoDomain]
  BY <1>1, <1>3 DEF HeldDomain, TypeOK, Idle
<1>4. ASSUME NEW j \in Jobs, NEW r \in WorkerState, r.job = j,
             worker' = [worker EXCEPT ![w] = r]
      PROVE  HeldDomain' = [HeldDomain EXCEPT ![w] = DomainOf[j[1]]]
  BY <1>1, <1>4 DEF HeldDomain, TypeOK
<1>5. worker[w] = Idle => worker[w].job = NoJob
  BY DEF Idle
<1>6. QED BY <1>2, <1>3, <1>4, <1>5

LEMMA LimiterInit == Init => RL!RLInit
<1> SUFFICES ASSUME Init PROVE RL!RLInit
  OBVIOUS
<1>1. HeldDomain = [w \in Workers |-> NoDomain]
  BY DEF Init, HeldDomain, Idle
<1>2. RL!NewDomainState = NewDomainState
  BY DEF RL!NewDomainState, NewDomainState
<1>3. QED BY <1>1, <1>2 DEF Init, RL!RLInit

LEMMA LimiterProcess ==
  ASSUME Inv, NEW w \in Workers, NEW j \in Jobs, Process(w, j)
  PROVE  [RL!RLNext]_(RL!rlVars)
<1> DEFINE d == DomainOf[j[1]]
           s == Refreshed(d, limiter[d])
<1>1. d \in Domains /\ TypeOK
  BY JobsTyped, TasksTyped DEF Inv
<1>2. worker[w] = Idle => HeldDomain[w] = NoDomain
  BY HeldDomainMoves
<1>3. UNCHANGED worker => UNCHANGED HeldDomain
  BY DEF HeldDomain
<1> HIDE DEF d
<1>4. CASE Deny(w, j)
  BY <1>3, <1>4 DEF Deny, RL!rlVars
<1>5. CASE Postpone(w, j)
  <2>1. RL!Acquire(w, d)
    BY <1>2, <1>3, <1>5, SameMethods DEF Postpone, Take, RL!Acquire, d
  <2>2. QED BY <1>1, <2>1 DEF RL!RLNext
<1>6. CASE Start(w, j)
  <2> DEFINE n == attempt[j[1]][current[j[1]]] + 1
             r == [job |-> j, object |-> current[j[1]], attempt |-> n]
  <2>1. Take(w, j) /\ worker' = [worker EXCEPT ![w] = r]
    BY <1>6 DEF Start
  <2>2. current[j[1]] \in 1..MaxSubmits /\ attempt[j[1]][current[j[1]]] \in Nat
    BY <2>1, FetchTyped
  <2>3. n \in Nat
    BY <2>2
  <2>4. r \in WorkerState /\ r.job = j
    BY <2>2, <2>3, StateTyped DEF WorkerState, Inv
  <2> HIDE DEF r
  <2>5. HeldDomain' = [HeldDomain EXCEPT ![w] = d]
    BY <2>1, <2>4, HeldDomainMoves DEF d
  <2>6. HeldDomain[w] = NoDomain
    BY <1>2, <2>1 DEF Take
  <2>7. CanAcquire(d, s) /\ limiter' = [limiter EXCEPT ![d] = Admitted(d, s)]
    BY <1>6 DEF Start, d
  <2>8. RL!Acquire(w, d)
    BY <2>5, <2>6, <2>7, SameMethods DEF RL!Acquire
  <2>9. QED BY <1>1, <2>8 DEF RL!RLNext
<1>7. CASE RunInline(w, j)
  <2>1. /\ Take(w, j) /\ CanAcquire(d, s) /\ UNCHANGED worker
        /\ limiter' = [limiter EXCEPT ![d] = Released(Admitted(d, s), TRUE)]
    BY <1>7 DEF RunInline, d
  <2>2. HeldDomain[w] = NoDomain /\ UNCHANGED HeldDomain
    BY <1>2, <1>3, <2>1 DEF Take
  <2>3. RL!Touch(w, d)
    BY <2>1, <2>2, SameMethods DEF RL!Touch
  <2>4. QED BY <1>1, <2>3 DEF RL!RLNext
<1>8. QED BY <1>4, <1>5, <1>6, <1>7 DEF Process

LEMMA LimiterFinish ==
  ASSUME Inv, NEW w \in Workers, Finish(w)
  PROVE  [RL!RLNext]_(RL!rlVars)
<1> DEFINE d == DomainOf[worker[w].job[1]]
<1>1. ASSUME NEW o \in {"succeeded", "failed"}, End(w, o)
      PROVE  /\ d \in Domains
             /\ HeldDomain[w] = d
             /\ HeldDomain' = [HeldDomain EXCEPT ![w] = NoDomain]
  <2>1. o \in Terminal
    BY DEF Terminal
  <2>2. /\ d \in Domains /\ worker[w].job \in Jobs
        /\ worker' = [worker EXCEPT ![w] = Idle]
    BY <1>1, <2>1, EndTyped
  <2>3. QED BY <2>2, JobsTyped, HeldDomainMoves
<1> HIDE DEF d
<1>2. ASSUME NEW success \in BOOLEAN, NEW o \in {"succeeded", "failed"}, End(w, o),
             limiter' = [limiter EXCEPT ![d] = Released(limiter[d], success)]
      PROVE  RL!RLNext
  <2>1. RL!Release(w, d, success)
    BY <1>1, <1>2, SameMethods DEF RL!Release
  <2>2. QED BY <1>1, <1>2, <2>1 DEF RL!RLNext
<1>3. ASSUME End(w, "failed"),
             limiter' = [limiter EXCEPT ![d] = Released(Errored(d, limiter[d]), FALSE)]
      PROVE  RL!RLNext
  <2>1. RL!BackOff(w, d)
    BY <1>1, <1>3, SameMethods DEF RL!BackOff
  <2>2. QED BY <1>1, <1>3, <2>1 DEF RL!RLNext
<1>4. CASE Succeed(w)
  BY <1>2, <1>4 DEF Succeed, SetLimiter, d
<1>5. CASE Fail(w)
  BY <1>2, <1>5 DEF Fail, SetLimiter, d
<1>6. CASE Retry(w)
  BY <1>3, <1>6 DEF Retry, SetLimiter, d
<1>7. CASE GiveUp(w)
  BY <1>3, <1>7 DEF GiveUp, SetLimiter, d
<1>8. QED BY <1>4, <1>5, <1>6, <1>7 DEF Finish

LEMMA LimiterStep == Inv /\ [Next]_vars => [RL!RLNext]_(RL!rlVars)
<1> SUFFICES ASSUME Inv, [Next]_vars PROVE [RL!RLNext]_(RL!rlVars)
  OBVIOUS
<1>1. UNCHANGED worker => UNCHANGED HeldDomain
  BY DEF HeldDomain
<1>2. ASSUME UNCHANGED <<limiter, worker>> PROVE UNCHANGED RL!rlVars
  BY <1>1, <1>2 DEF RL!rlVars
<1>3. ASSUME NEW s \in Sources, NEW p \in PolicyStatus, UpsertPolicy(s, p)
      PROVE  UNCHANGED <<limiter, worker>>
  BY <1>3 DEF UpsertPolicy
<1>4. ASSUME NEW t \in Tasks, SubmitDenied(t) PROVE UNCHANGED <<limiter, worker>>
  BY <1>4 DEF SubmitDenied
<1>5. ASSUME NEW t \in Tasks, NEW delay \in SubmitDelays, SubmitAccepted(t, delay)
      PROVE  RL!RLNext
  <2>1. DomainOf[t] \in Domains
    BY TasksTyped
  <2>2. RL!Query(DomainOf[t])
    BY <1>1, <1>5, SameMethods DEF SubmitAccepted, RL!Query
  <2>3. QED BY <2>1, <2>2 DEF RL!RLNext
<1>6. ASSUME PopDue \/ UNCHANGED vars PROVE UNCHANGED <<limiter, worker>>
  BY <1>6 DEF PopDue, vars
<1>7. ASSUME Tick PROVE RL!RLNext
  <2>1. RL!Tick
    BY <1>1, <1>7, SameMethods DEF Tick, RL!Tick
  <2>2. QED BY <2>1 DEF RL!RLNext
<1>8. QED
  BY <1>2, <1>3, <1>4, <1>5, <1>6, <1>7, LimiterProcess, LimiterFinish DEF Next

(***************************************************************************)
(* Whatever is submitted and however the workers overlap, scheduler and    *)
(* workers call the rate limiter in the order RateLimiter allows.          *)
(***************************************************************************)
THEOREM LimiterRefined == Spec => LimiterUsedAsSpecified
<1>1. Spec => []Inv
  BY TypeInit, InvStep, PTL DEF Spec
<1>2. QED
  BY <1>1, LimiterInit, LimiterStep, PTL DEF Spec, LimiterUsedAsSpecified, RL!RLSpec

(***************************************************************************)
(* So what is proved of the rate limiter holds of acquisition: no way out  *)
(* of process_task leaks a slot, and no domain sees more requests at once  *)
(* than its cap.  Nobody watches the target here, and what is proved of    *)
(* RateLimiter says nothing of the observer.                               *)
(***************************************************************************)
RLProofs ==
  INSTANCE RateLimiterHistory_proofs WITH
    Callers <- Workers, holding <- HeldDomain, MaxErrors <- 0,
    sinceStart <- <<>>, quiet <- <<>>, recent <- <<>>

\* RL and RLProofs are instances of the same operators under the same names.
LEMMA SameLimiter ==
  /\ RL!RLInit <=> RLProofs!RLInit
  /\ RL!RLNext <=> RLProofs!RLNext
  /\ RL!rlVars = RLProofs!rlVars
  /\ RL!SlotsExact <=> RLProofs!SlotsExact
  /\ RL!WithinLimits <=> RLProofs!WithinLimits
<1>1. RL!RLInit <=> RLProofs!RLInit
  BY DEF RL!RLInit, RLProofs!RLInit, RL!NewDomainState, RLProofs!NewDomainState
<1>2. RL!rlVars = RLProofs!rlVars
  BY DEF RL!rlVars, RLProofs!rlVars
<1>3. ASSUME NEW d, NEW s
      PROVE  /\ RL!Refreshed(d, s) = RLProofs!Refreshed(d, s)
             /\ RL!CanAcquire(d, s) = RLProofs!CanAcquire(d, s)
             /\ RL!Admitted(d, s) = RLProofs!Admitted(d, s)
             /\ RL!Errored(d, s) = RLProofs!Errored(d, s)
             /\ RL!Released(s, TRUE) = RLProofs!Released(s, TRUE)
             /\ RL!Released(s, FALSE) = RLProofs!Released(s, FALSE)
             /\ RL!Elapsed(s) = RLProofs!Elapsed(s)
  BY DEF
     RL!Refreshed, RLProofs!Refreshed, RL!CanAcquire, RLProofs!CanAcquire,
     RL!WaitFor, RLProofs!WaitFor, RL!Later, RLProofs!Later, RL!Less,
     RLProofs!Less, RL!Admitted, RLProofs!Admitted, RL!Errored,
     RLProofs!Errored, RL!Backoff, RLProofs!Backoff, RL!Released,
     RLProofs!Released, RL!Elapsed, RLProofs!Elapsed
<1>4. RL!RLNext <=> RLProofs!RLNext
  <2>1. ASSUME NEW d PROVE RL!Query(d) <=> RLProofs!Query(d)
    BY <1>3 DEF RL!Query, RLProofs!Query
  <2>2. ASSUME NEW c, NEW d PROVE RL!Acquire(c, d) <=> RLProofs!Acquire(c, d)
    BY <1>3 DEF RL!Acquire, RLProofs!Acquire
  <2>3. ASSUME NEW c, NEW d, NEW success \in BOOLEAN
        PROVE  RL!Release(c, d, success) <=> RLProofs!Release(c, d, success)
    BY <1>3 DEF RL!Release, RLProofs!Release
  <2>4. ASSUME NEW c, NEW d PROVE RL!BackOff(c, d) <=> RLProofs!BackOff(c, d)
    BY <1>3 DEF RL!BackOff, RLProofs!BackOff
  <2>5. ASSUME NEW c, NEW d PROVE RL!Touch(c, d) <=> RLProofs!Touch(c, d)
    BY <1>3 DEF RL!Touch, RLProofs!Touch
  <2>6. RL!Tick <=> RLProofs!Tick
    BY <1>3 DEF RL!Tick, RLProofs!Tick
  <2>7. QED
    BY <2>1, <2>2, <2>3, <2>4, <2>5, <2>6 DEF RL!RLNext, RLProofs!RLNext
<1>5. ASSUME NEW d PROVE RL!Holders(d) = RLProofs!Holders(d)
  BY DEF RL!Holders, RLProofs!Holders
<1>6. ASSUME NEW S PROVE RL!Cardinality(S) = RLProofs!Cardinality(S)
  BY DEF RL!Cardinality, RLProofs!Cardinality
<1>7. RL!SlotsExact <=> RLProofs!SlotsExact
  BY <1>5, <1>6 DEF RL!SlotsExact, RLProofs!SlotsExact
<1>8. RL!WithinLimits <=> RLProofs!WithinLimits
  BY <1>5, <1>6 DEF RL!WithinLimits, RLProofs!WithinLimits
<1>9. QED BY <1>1, <1>2, <1>4, <1>7, <1>8

(***************************************************************************)
(* Workers leak no slot of any domain and never exceed its cap: what       *)
(* is proved of the limiter by itself holds of it as acquisition     *)
(* uses it.                                                                *)
(***************************************************************************)
THEOREM SlotsNeverLeak == Spec => []SlotsAccounted
<1>1. /\ Limits \in [Domains -> RLProofs!DomainPolicy]
      /\ RLProofs!IsFiniteSet(Workers) /\ NoDomain \notin Domains
  BY AcquisitionAssumption, LimitsAssumption
     DEF RLProofs!DomainPolicy, DomainPolicy, RLProofs!IsFiniteSet, IsFiniteSet
<1>2. RLProofs!RLSpec => []RLProofs!SlotsExact
  BY <1>1, RLProofs!SlotsAreExact
<1>3. RLProofs!RLSpec => []RLProofs!WithinLimits
  BY <1>1, RLProofs!LimitsAreKept
<1>4. RL!RLSpec => RLProofs!RLSpec
  <2>1. [RL!RLNext]_(RL!rlVars) => [RLProofs!RLNext]_(RLProofs!rlVars)
    BY SameLimiter DEF RL!rlVars, RLProofs!rlVars
  <2>2. RL!RLInit => RLProofs!RLInit
    BY SameLimiter
  <2>3. QED BY <2>1, <2>2, PTL DEF RL!RLSpec, RLProofs!RLSpec
<1>5. RLProofs!SlotsExact /\ RLProofs!WithinLimits => SlotsAccounted
  BY SameLimiter DEF SlotsAccounted
<1>6. QED
  BY LimiterRefined, <1>2, <1>3, <1>4, <1>5, PTL DEF LimiterUsedAsSpecified

-------------------------------------------------------------------------------
(***************************************************************************)
(* Items.  An item that was ever queued is in one place at most: waiting,  *)
(* popped, or with one worker; and there is none of a submission still to  *)
(* come.  This holds under resubmission too, where a task may have several *)
(* items.                                                                  *)
(***************************************************************************)
HeldBy(w, j) == worker[w].job = j

InOnePlace(j) ==
  /\ queue[j] # NotQueued \/ j \in batch \/ (\E w \in Workers : HeldBy(w, j))
       => j[2] <= current[j[1]]
  /\ ~(queue[j] # NotQueued /\ j \in batch)
  /\ \A w \in Workers : HeldBy(w, j) => queue[j] = NotQueued /\ j \notin batch
  /\ \A v, w \in Workers : HeldBy(v, j) /\ HeldBy(w, j) => v = w

Places == \A j \in Jobs : InOnePlace(j)

LEMMA PlacesInit == Init => Places
<1> SUFFICES ASSUME Init, NEW j \in Jobs PROVE InOnePlace(j)
  BY DEF Places
<1>1. queue[j] = NotQueued /\ batch = {} /\ j # NoJob
  BY JobsTyped DEF Init
<1>2. \A w \in Workers : ~HeldBy(w, j)
  BY <1>1 DEF Init, Idle, HeldBy
<1>3. QED BY <1>1, <1>2 DEF InOnePlace

\* A step that moves one item only.
LEMMA OthersInPlace ==
  ASSUME Places, NEW j \in Jobs, InOnePlace(j)',
         \A t \in Tasks : current'[t] = current[t] \/ current'[t] = current[t] + 1,
         \A t \in Tasks : current[t] \in Nat,
         \A i \in Jobs \ {j} : /\ queue'[i] = queue[i] /\ (i \in batch' <=> i \in batch)
                               /\ \A w \in Workers : HeldBy(w, i)' <=> HeldBy(w, i)
  PROVE  Places'
<1> SUFFICES ASSUME NEW i \in Jobs, i # j PROVE InOnePlace(i)'
  BY DEF Places
<1>1. InOnePlace(i) /\ i[1] \in Tasks /\ i[2] \in Nat
  BY JobsTyped, AcquisitionAssumption DEF Places
<1>2. i[2] <= current[i[1]] => i[2] <= current'[i[1]]
  BY <1>1
<1>3. QED BY <1>1, <1>2 DEF InOnePlace

LEMMA CurrentTyped ==
  ASSUME Inv, NEW t \in Tasks
  PROVE  current[t] \in Nat
  BY StateTyped DEF Inv

LEMMA PlacesProcess ==
  ASSUME Inv, Places, NEW w \in Workers, NEW j \in Jobs, Process(w, j)
  PROVE  Places'
<1>1. /\ Take(w, j) /\ UNCHANGED current /\ TypeOK
      /\ j \in batch /\ batch' = batch \ {j} /\ worker[w].job = NoJob /\ j # NoJob
  <2>1. Take(w, j) /\ UNCHANGED current
    BY DEF Process, Deny, Postpone, Start, RunInline
  <2>2. QED BY <2>1, JobsTyped DEF Take, Idle, Inv
<1>2. /\ queue[j] = NotQueued /\ j[2] <= current[j[1]]
      /\ \A v \in Workers : ~HeldBy(v, j)
  BY <1>1 DEF Places, InOnePlace
<1>3. \A i \in Jobs \ {j} : i \in batch' <=> i \in batch
  BY <1>1
<1>4. ASSUME \A i \in Jobs \ {j} : queue'[i] = queue[i], UNCHANGED worker
      PROVE  Places'
  <2>1. InOnePlace(j)'
    BY <1>1, <1>2, <1>4 DEF InOnePlace, HeldBy
  <2>2. QED BY <1>1, <1>3, <1>4, <2>1, CurrentTyped, OthersInPlace DEF HeldBy
<1>5. CASE Deny(w, j)
  BY <1>4, <1>5 DEF Deny
<1>6. CASE RunInline(w, j)
  BY <1>4, <1>6 DEF RunInline
<1>7. CASE Postpone(w, j)
  <2>1. \A i \in Jobs \ {j} : queue'[i] = queue[i]
    BY <1>1, <1>7 DEF Postpone, EnqueueWithDelay, TypeOK
  <2>2. QED BY <1>4, <1>7, <2>1 DEF Postpone
<1>8. CASE Start(w, j)
  <2>1. /\ UNCHANGED queue /\ worker'[w].job = j
        /\ \A v \in Workers \ {w} : worker'[v] = worker[v]
    BY <1>1, <1>8 DEF Start, TypeOK
  <2>2. InOnePlace(j)'
    BY <1>1, <1>2, <2>1 DEF InOnePlace, HeldBy
  <2>3. ASSUME NEW i \in Jobs \ {j}, NEW v \in Workers
        PROVE  HeldBy(v, i)' <=> HeldBy(v, i)
    BY <1>1, <2>1, JobsTyped DEF HeldBy
  <2>4. QED BY <1>1, <1>3, <2>1, <2>2, <2>3, CurrentTyped, OthersInPlace
<1>9. QED BY <1>5, <1>6, <1>7, <1>8 DEF Process

\* The item a worker comes back with, and where every other one is.
LEMMA FinishParts ==
  ASSUME Inv, NEW w \in Workers, Finish(w)
  PROVE  /\ worker[w].job \in Jobs
         /\ UNCHANGED <<current, batch>>
         /\ worker'[w].job = NoJob
         /\ \A v \in Workers \ {w} : worker'[v] = worker[v]
         /\ \A i \in Jobs \ {worker[w].job} : queue'[i] = queue[i]
<1>1. TypeOK /\ {"succeeded", "failed"} \subseteq Terminal
  BY DEF Inv, Terminal
<1>2. \E o \in Terminal : End(w, o)
  BY <1>1 DEF Finish, Succeed, Fail, Retry, GiveUp
<1>3. worker[w].job \in Jobs /\ worker' = [worker EXCEPT ![w] = Idle]
  BY <1>2, EndTyped
<1>4. UNCHANGED <<current, batch>>
  BY DEF Finish, Succeed, Fail, Retry, GiveUp
<1>5. \A i \in Jobs \ {worker[w].job} : queue'[i] = queue[i]
  BY <1>1 DEF Finish, Succeed, Fail, Retry, GiveUp, EnqueueWithDelay, TypeOK
<1>6. worker'[w].job = NoJob /\ \A v \in Workers \ {w} : worker'[v] = worker[v]
  BY <1>1, <1>3 DEF TypeOK, Idle
<1>7. QED BY <1>3, <1>4, <1>5, <1>6

LEMMA PlacesFinish ==
  ASSUME Inv, Places, NEW w \in Workers, Finish(w)
  PROVE  Places'
<1>1. PICK j \in Jobs : worker[w].job = j
  BY FinishParts
<1>2. /\ UNCHANGED <<current, batch>> /\ worker'[w].job = NoJob
      /\ \A v \in Workers \ {w} : worker'[v] = worker[v]
      /\ \A i \in Jobs \ {j} : queue'[i] = queue[i]
  BY <1>1, FinishParts
<1>3. /\ j \notin batch /\ j[2] <= current[j[1]] /\ j # NoJob
      /\ \A v \in Workers : HeldBy(v, j) => v = w
  BY <1>1, JobsTyped DEF Places, InOnePlace, HeldBy
<1>4. \A v \in Workers : ~HeldBy(v, j)'
  BY <1>2, <1>3 DEF HeldBy
<1>5. InOnePlace(j)'
  BY <1>2, <1>3, <1>4 DEF InOnePlace
<1>6. ASSUME NEW i \in Jobs \ {j}, NEW v \in Workers
      PROVE  HeldBy(v, i)' <=> HeldBy(v, i)
  BY <1>1, <1>2, JobsTyped DEF HeldBy
<1>7. QED BY <1>2, <1>5, <1>6, CurrentTyped, OthersInPlace

LEMMA PlacesStep == Inv /\ Places /\ [Next]_vars => Places'
<1> SUFFICES ASSUME Inv, Places, [Next]_vars PROVE Places'
  OBVIOUS
<1>1. TypeOK
  BY DEF Inv
<1>2. ASSUME UNCHANGED <<queue, batch, worker, current>> PROVE Places'
  BY <1>2 DEF Places, InOnePlace, HeldBy
<1>3. ASSUME NEW t \in Tasks, NEW delay \in SubmitDelays, SubmitAccepted(t, delay)
      PROVE  Places'
  <2> PICK j : j = <<t, current[t] + 1>>
    OBVIOUS
  <2>1. /\ current[t] \in Nat /\ current[t] + 1 \in 1..MaxSubmits
        /\ current' = [current EXCEPT ![t] = current[t] + 1]
        /\ UNCHANGED <<batch, worker>>
    BY <1>3, CurrentTyped, AcquisitionAssumption DEF SubmitAccepted
  <2>2. j \in Jobs /\ j[1] = t /\ j[2] = current[t] + 1
    BY <2>1 DEF Jobs
  <2>3. \A i \in Jobs \ {j} : queue'[i] = queue[i]
    BY <1>1, <1>3 DEF SubmitAccepted, TypeOK
  <2>4. current'[t] = current[t] + 1 /\ \A u \in Tasks \ {t} : current'[u] = current[u]
    BY <1>1, <2>1 DEF TypeOK
  <2>5. j \notin batch /\ \A w \in Workers : ~HeldBy(w, j)
    BY <2>1, <2>2 DEF Places, InOnePlace
  <2>6. InOnePlace(j)'
    BY <2>1, <2>2, <2>4, <2>5 DEF InOnePlace, HeldBy
  <2>7. QED BY <2>1, <2>2, <2>3, <2>4, <2>6, CurrentTyped, OthersInPlace DEF HeldBy
<1>4. ASSUME NEW t \in Tasks, SubmitDenied(t) PROVE Places'
  <2>1. /\ current' = [current EXCEPT ![t] = current[t] + 1]
        /\ UNCHANGED <<queue, batch, worker>>
    BY <1>4 DEF SubmitDenied
  <2>2. \A u \in Tasks : current'[u] = current[u] \/ current'[u] = current[u] + 1
    BY <1>1, <2>1 DEF TypeOK
  <2>3. ASSUME NEW j \in Jobs PROVE InOnePlace(j)'
    <3>1. InOnePlace(j) /\ j[1] \in Tasks /\ j[2] \in Nat /\ current[j[1]] \in Nat
      BY JobsTyped, CurrentTyped, AcquisitionAssumption DEF Places
    <3>2. j[2] <= current[j[1]] => j[2] <= current'[j[1]]
      BY <2>2, <3>1
    <3>3. QED BY <2>1, <3>1, <3>2 DEF InOnePlace, HeldBy
  <2>4. QED BY <2>3 DEF Places
<1>5. ASSUME PopDue PROVE Places'
  <2>1. ASSUME NEW j \in Jobs PROVE InOnePlace(j)'
    <3>1. InOnePlace(j) /\ NotQueued # 0
      BY DEF Places, NotQueued
    <3>2. CASE j \in Due
      BY <1>5, <3>1, <3>2 DEF PopDue, Due, InOnePlace, HeldBy
    <3>3. CASE j \notin Due
      BY <1>5, <3>1, <3>3 DEF PopDue, InOnePlace, HeldBy
    <3>4. QED BY <3>2, <3>3
  <2>2. QED BY <2>1 DEF Places
<1>6. ASSUME Tick PROVE Places'
  <2>1. \A j \in Jobs : queue'[j] = NotQueued <=> queue[j] = NotQueued
    BY <1>1, <1>6, StateTyped DEF Tick, NotQueued
  <2>2. QED BY <1>6, <2>1 DEF Tick, Places, InOnePlace, HeldBy
<1>7. ASSUME NEW s \in Sources, NEW p \in PolicyStatus, UpsertPolicy(s, p) PROVE Places'
  BY <1>2, <1>7 DEF UpsertPolicy
<1>8. CASE UNCHANGED vars
  BY <1>2, <1>8 DEF vars
<1>9. QED
  BY <1>3, <1>4, <1>5, <1>6, <1>7, <1>8, PlacesProcess, PlacesFinish DEF Next

(***************************************************************************)
(* The status of a task submitted once.  Where its one item is decides     *)
(* what the status says, and the other way round.                          *)
(***************************************************************************)
Truthful(t) ==
  /\ Pending(t) # {} <=> status[t] = "queued"
  /\ Executing(t) # {} <=> status[t] = "running"

Truth == \A t \in Tasks : current[t] <= 1 => Truthful(t)

\* Its items are all the same one.
LEMMA OneItem ==
  ASSUME Inv, Places, NEW t \in Tasks, current[t] <= 1
  PROVE  /\ \A i, j \in Pending(t) : i = j
         /\ \A v, w \in Executing(t) : v = w
         /\ \A w \in Executing(t) : worker[w].job \in Jobs
<1> DEFINE j == <<t, 1>>
<1>1. ASSUME NEW i \in Jobs, i[1] = t, i[2] <= current[t] PROVE i = j
  <2>1. i[2] \in 1..MaxSubmits /\ current[t] \in Nat
    BY JobsTyped, CurrentTyped
  <2>2. i[2] = 1
    BY <1>1, <2>1, AcquisitionAssumption
  <2>3. i = <<i[1], i[2]>>
    BY DEF Jobs
  <2>4. QED BY <1>1, <2>2, <2>3
<1>2. \A i \in Pending(t) : i = j
  BY <1>1 DEF Pending, Places, InOnePlace
<1>3. ASSUME NEW w \in Executing(t)
      PROVE  HeldBy(w, j) /\ j \in Jobs /\ worker[w].job \in Jobs /\ w \in Workers
  <2>1. worker[w].job \in Jobs /\ worker[w].job[1] = t /\ w \in Workers
    BY StateTyped DEF Executing, Inv, WorkerState
  <2>2. worker[w].job[2] <= current[t]
    BY <2>1 DEF Places, InOnePlace, HeldBy
  <2>3. QED BY <1>1, <2>1, <2>2 DEF HeldBy
<1> HIDE DEF j
<1>4. \A v, w \in Executing(t) : v = w
  BY <1>3 DEF Places, InOnePlace
<1>5. QED BY <1>2, <1>3, <1>4

LEMMA TruthInit == Init => Truth
<1> SUFFICES ASSUME Init, NEW t \in Tasks PROVE Truthful(t)
  BY DEF Truth
<1>1. Pending(t) = {} /\ Executing(t) = {}
  BY DEF Init, Pending, Executing, Idle
<1>2. status[t] = "absent"
  BY DEF Init
<1>3. QED BY <1>1, <1>2 DEF Truthful

\* A step that is about one task only.
LEMMA OthersTruthful ==
  ASSUME Truth, NEW t \in Tasks, current'[t] <= 1 => Truthful(t)',
         \A u \in Tasks \ {t} : /\ current'[u] = current[u]
                                /\ status'[u] = status[u]
                                /\ Pending(u)' = Pending(u)
                                /\ Executing(u)' = Executing(u)
  PROVE  Truth'
  BY DEF Truth, Truthful

LEMMA TruthProcess ==
  ASSUME Inv, Places, Truth, NEW w \in Workers, NEW j \in Jobs, Process(w, j)
  PROVE  Truth'
<1> PICK t \in Tasks : j[1] = t
  BY JobsTyped
<1>1. Take(w, j) /\ UNCHANGED current /\ TypeOK /\ j # NoJob
  BY JobsTyped DEF Process, Deny, Postpone, Start, RunInline, Inv
<1>2. /\ j \in batch /\ batch' = batch \ {j} /\ worker[w].job = NoJob
      /\ queue[j] = NotQueued
  BY <1>1 DEF Take, Idle, Places, InOnePlace
<1>3. current[t] <= 1 =>
        /\ j \in Pending(t) /\ \A i \in Pending(t) : i = j
        /\ Executing(t) = {}
  <2>1. j \in Pending(t)
    BY <1>2 DEF Pending
  <2>2. current[t] <= 1 => status[t] = "queued" /\ Truthful(t)
    BY <2>1 DEF Truth, Truthful
  <2>3. QED BY <2>1, <2>2, OneItem DEF Truthful
<1>4. \A i \in Jobs \ {j} : i \in batch' <=> i \in batch
  BY <1>2
<1>5. ASSUME current[t] <= 1, UNCHANGED queue PROVE Pending(t)' = {}
  BY <1>2, <1>3, <1>5 DEF Pending
<1>6. ASSUME UNCHANGED worker, \A i \in Jobs \ {j} : queue'[i] = queue[i],
             NEW s \in TaskStatus, status' = [status EXCEPT ![t] = s],
             current[t] <= 1 => Truthful(t)'
      PROVE  Truth'
  <2>1. \A u \in Tasks \ {t} : status'[u] = status[u] /\ current'[u] = current[u]
    BY <1>1, <1>6 DEF TypeOK
  <2>2. \A u \in Tasks \ {t} : Pending(u)' = Pending(u) /\ Executing(u)' = Executing(u)
    BY <1>4, <1>6, OthersLeft
  <2>3. QED BY <1>1, <1>6, <2>1, <2>2, OthersTruthful
<1>7. ASSUME NEW s \in {"denied", "succeeded"}, UNCHANGED <<queue, worker>>,
             status' = [status EXCEPT ![t] = s]
      PROVE  Truth'
  <2>1. status'[t] = s /\ s \in TaskStatus
    BY <1>1, <1>7 DEF TypeOK, TaskStatus, Terminal
  <2>2. Executing(t)' = Executing(t)
    BY <1>7 DEF Executing
  <2>3. current[t] <= 1 => Truthful(t)'
    BY <1>3, <1>5, <1>7, <2>1, <2>2 DEF Truthful
  <2>4. QED BY <1>6, <1>7, <2>1, <2>3
<1>8. CASE Deny(w, j)
  BY <1>7, <1>8 DEF Deny
<1>9. CASE RunInline(w, j)
  BY <1>7, <1>9 DEF RunInline
<1>10. CASE Postpone(w, j)
  <2> DEFINE d == DomainOf[t]
             delay == WaitFor(d, Refreshed(d, limiter[d]))
  <2>1. UNCHANGED worker /\ EnqueueWithDelay(j, delay)
    BY <1>10 DEF Postpone
  <2>2. d \in Domains /\ Refreshed(d, limiter[d]) \in DomainState
    BY <1>1, TasksTyped, StateTyped, MethodsTyped
  <2>3. delay \in Nat
    BY <2>2, WaitForNat
  <2> HIDE DEF d, delay
  <2>4. /\ queue'[j] = delay
        /\ \A i \in Jobs \ {j} : queue'[i] = queue[i]
        /\ status' = [status EXCEPT ![t] = "queued"]
        /\ status'[t] = "queued" /\ "queued" \in TaskStatus
    BY <1>1, <2>1 DEF EnqueueWithDelay, TypeOK, TaskStatus
  <2>5. j \in Pending(t)' /\ Executing(t)' = Executing(t)
    BY <2>1, <2>3, <2>4 DEF Pending, Executing, NotQueued
  <2>6. current[t] <= 1 => Truthful(t)'
    BY <1>3, <2>4, <2>5 DEF Truthful
  <2>7. QED BY <1>6, <2>1, <2>4, <2>6
<1>11. CASE Start(w, j)
  <2>1. /\ UNCHANGED queue
        /\ status' = [status EXCEPT ![t] = "running"]
        /\ \A v \in Workers \ {w} : worker'[v] = worker[v]
        /\ worker'[w].job = j
    BY <1>1, <1>11 DEF Start, TypeOK
  <2>2. w \in Executing(t)'
    BY <1>1, <2>1 DEF Executing
  <2>3. status'[t] = "running" /\ \A u \in Tasks \ {t} : status'[u] = status[u]
    BY <1>1, <2>1 DEF TypeOK
  <2>4. current[t] <= 1 => Truthful(t)'
    BY <1>5, <2>1, <2>2, <2>3 DEF Truthful
  <2>5. \A u \in Tasks \ {t} : Pending(u)' = Pending(u) /\ Executing(u)' = Executing(u)
    BY <1>2, <1>4, <2>1, OthersLeft
  <2>6. QED BY <1>1, <2>3, <2>4, <2>5, OthersTruthful
<1>12. QED BY <1>8, <1>9, <1>10, <1>11 DEF Process

LEMMA TruthFinish ==
  ASSUME Inv, Places, Truth, NEW w \in Workers, Finish(w)
  PROVE  Truth'
<1>1. PICK j \in Jobs : worker[w].job = j
  BY FinishParts
<1> PICK t \in Tasks : j[1] = t
  BY JobsTyped
<1>2. /\ UNCHANGED <<current, batch>> /\ worker'[w].job = NoJob /\ TypeOK /\ j # NoJob
      /\ \A v \in Workers \ {w} : worker'[v] = worker[v]
      /\ \A i \in Jobs \ {j} : queue'[i] = queue[i]
  BY <1>1, FinishParts, JobsTyped DEF Inv
<1>3. current[t] <= 1 => Pending(t) = {} /\ Executing(t)' = {}
  <2>1. w \in Executing(t)
    BY <1>1, <1>2 DEF Executing
  <2>2. current[t] <= 1 => status[t] = "running" /\ Truthful(t)
    BY <2>1 DEF Truth, Truthful
  <2>3. current[t] <= 1 => \A v \in Executing(t) : v = w
    BY <2>1, OneItem
  <2>4. Executing(t)' \subseteq Executing(t) \ {w}
    BY <1>2 DEF Executing
  <2>5. QED BY <2>2, <2>3, <2>4 DEF Truthful
<1>4. \A u \in Tasks \ {t} : Pending(u)' = Pending(u) /\ Executing(u)' = Executing(u)
  BY <1>1, <1>2, OthersLeft
<1>5. ASSUME NEW s, status' = [status EXCEPT ![t] = s],
             current[t] <= 1 => Truthful(t)'
      PROVE  Truth'
  <2>1. \A u \in Tasks \ {t} : status'[u] = status[u] /\ current'[u] = current[u]
    BY <1>2, <1>5 DEF TypeOK
  <2>2. QED BY <1>2, <1>4, <1>5, <2>1, OthersTruthful
<1>6. ASSUME NEW s \in {"succeeded", "failed"}, UNCHANGED queue,
             status' = [status EXCEPT ![t] = s]
      PROVE  Truth'
  <2>1. status'[t] = s
    BY <1>2, <1>6 DEF TypeOK
  <2>2. Pending(t)' = Pending(t)
    BY <1>2, <1>6 DEF Pending
  <2>3. current[t] <= 1 => Truthful(t)'
    BY <1>3, <1>6, <2>1, <2>2 DEF Truthful
  <2>4. QED BY <1>5, <1>6, <2>3
<1>7. CASE Succeed(w)
  BY <1>1, <1>6, <1>7 DEF Succeed
<1>8. CASE Fail(w)
  BY <1>1, <1>6, <1>8 DEF Fail
<1>9. CASE GiveUp(w)
  BY <1>1, <1>6, <1>9 DEF GiveUp
<1>10. CASE Retry(w)
  <2> DEFINE d == DomainOf[t]
             delay == Errored(d, limiter[d]).cooldownLeft
  <2>1. EnqueueWithDelay(j, delay)
    BY <1>1, <1>10 DEF Retry
  <2>2. d \in Domains /\ limiter[d] \in DomainState
    BY <1>2, TasksTyped, StateTyped
  <2>3. delay \in Nat
    BY <2>2, MethodsTyped, BackoffNat
  <2> HIDE DEF d, delay
  <2>4. /\ queue'[j] = delay
        /\ status' = [status EXCEPT ![t] = "queued"]
        /\ status'[t] = "queued"
    BY <1>2, <2>1 DEF EnqueueWithDelay, TypeOK
  <2>5. j \in Pending(t)'
    BY <2>3, <2>4 DEF Pending, NotQueued
  <2>6. current[t] <= 1 => Truthful(t)'
    BY <1>3, <2>4, <2>5 DEF Truthful
  <2>7. QED BY <1>5, <2>4, <2>6
<1>11. QED BY <1>7, <1>8, <1>9, <1>10 DEF Finish

LEMMA TruthStep == Inv /\ Places /\ Truth /\ [Next]_vars => Truth'
<1> SUFFICES ASSUME Inv, Places, Truth, [Next]_vars PROVE Truth'
  OBVIOUS
<1>1. TypeOK
  BY DEF Inv
<1>2. ASSUME UNCHANGED <<status, queue, batch, worker, current>> PROVE Truth'
  BY <1>2 DEF Truth, Truthful, Pending, Executing
<1>3. ASSUME NEW t \in Tasks, current[t] = 0
      PROVE  Pending(t) = {} /\ Executing(t) = {}
  BY <1>3 DEF Inv, Grounded, Pending, Executing
<1>4. ASSUME NEW t \in Tasks, NEW delay \in SubmitDelays, SubmitAccepted(t, delay)
      PROVE  Truth'
  <2> DEFINE j == <<t, current[t] + 1>>
             d == DomainOf[t]
             due == Later(delay, WaitFor(d, Refreshed(d, limiter[d])))
  <2>1. /\ queue' = [queue EXCEPT ![j] = due]
        /\ status' = [status EXCEPT ![t] = "queued"]
        /\ current' = [current EXCEPT ![t] = current[t] + 1]
        /\ UNCHANGED <<batch, worker>>
    BY <1>4 DEF SubmitAccepted
  <2>2. j \in Jobs /\ j[1] = t
    BY <1>1, <1>4, StateTyped DEF SubmitAccepted, Jobs
  <2>3. d \in Domains /\ Refreshed(d, limiter[d]) \in DomainState /\ delay \in Nat
    BY <1>1, TasksTyped, StateTyped, MethodsTyped, AcquisitionAssumption
  <2>4. WaitFor(d, Refreshed(d, limiter[d])) \in Nat
    BY <2>3, WaitForNat
  <2>5. due \in Nat
    BY <2>3, <2>4 DEF Later
  <2>6. /\ current[t] \in Nat /\ current'[t] = current[t] + 1
        /\ \A u \in Tasks \ {t} : current'[u] = current[u]
    BY <1>1, <2>1, CurrentTyped DEF TypeOK
  <2> PICK i : i = j
    OBVIOUS
  <2> HIDE DEF j, d, due
  <2>7. queue'[i] = due /\ \A k \in Jobs \ {i} : queue'[k] = queue[k]
    BY <1>1, <2>1, <2>2 DEF TypeOK
  <2>8. i \in Pending(t)' /\ status'[t] = "queued"
    BY <1>1, <2>1, <2>2, <2>5, <2>7 DEF Pending, NotQueued, TypeOK
  <2>9. \A u \in Tasks : Executing(u)' = Executing(u)
    BY <2>1 DEF Executing
  <2>10. current'[t] <= 1 => Truthful(t)'
    BY <1>3, <2>6, <2>8, <2>9 DEF Truthful
  <2>11. \A u \in Tasks \ {t} : Pending(u)' = Pending(u) /\ status'[u] = status[u]
    BY <1>1, <2>1, <2>2, <2>7 DEF Pending, TypeOK
  <2>12. QED BY <2>6, <2>9, <2>10, <2>11, OthersTruthful
<1>5. ASSUME NEW t \in Tasks, SubmitDenied(t) PROVE Truth'
  <2>1. /\ status' = [status EXCEPT ![t] = "denied"]
        /\ current' = [current EXCEPT ![t] = current[t] + 1]
        /\ UNCHANGED <<queue, batch, worker>>
    BY <1>5 DEF SubmitDenied
  <2>2. /\ current[t] \in Nat /\ current'[t] = current[t] + 1 /\ status'[t] = "denied"
        /\ \A u \in Tasks \ {t} : current'[u] = current[u] /\ status'[u] = status[u]
    BY <1>1, <2>1, CurrentTyped DEF TypeOK
  <2>3. \A u \in Tasks : Pending(u)' = Pending(u) /\ Executing(u)' = Executing(u)
    BY <2>1 DEF Pending, Executing
  <2>4. current'[t] <= 1 => Truthful(t)'
    BY <1>3, <2>2, <2>3 DEF Truthful
  <2>5. QED BY <2>2, <2>3, <2>4, OthersTruthful
<1>6. ASSUME PopDue PROVE Truth'
  <2>1. \A t \in Tasks : Pending(t)' = Pending(t)
    BY <1>1, <1>6 DEF PopDue, Due, Pending, NotQueued
  <2>2. QED BY <1>6, <2>1 DEF PopDue, Truth, Truthful, Executing
<1>7. ASSUME Tick PROVE Truth'
  <2>1. \A j \in Jobs : queue'[j] # NotQueued <=> queue[j] # NotQueued
    BY <1>1, <1>7, StateTyped DEF Tick, NotQueued
  <2>2. \A t \in Tasks : Pending(t)' = Pending(t)
    BY <1>7, <2>1 DEF Tick, Pending
  <2>3. QED BY <1>7, <2>2 DEF Tick, Truth, Truthful, Executing
<1>8. ASSUME NEW s \in Sources, NEW p \in PolicyStatus, UpsertPolicy(s, p) PROVE Truth'
  BY <1>2, <1>8 DEF UpsertPolicy
<1>9. CASE UNCHANGED vars
  BY <1>2, <1>9 DEF vars
<1>10. QED
  BY <1>4, <1>5, <1>6, <1>7, <1>8, <1>9, TruthProcess, TruthFinish DEF Next

LEMMA TruthGives == Inv /\ Places /\ Truth => StatusTruthful
<1> SUFFICES ASSUME Inv, Places, Truth, NEW t \in Tasks, current[t] <= 1
             PROVE  Truthful(t) /\ Cardinality(Executing(t)) <= 1
  BY DEF StatusTruthful, Truthful
<1>1. Truthful(t)
  BY DEF Truth
<1>2. CASE Executing(t) = {}
  <2>1. Cardinality({}) = 0
    BY FS_EmptySet
  <2>2. Cardinality(Executing(t)) = 0
    BY <1>2, <2>1, Zenon
  <2>3. QED BY <1>1, <2>2
<1>3. CASE Executing(t) # {}
  <2>1. PICK w : Executing(t) = {w}
    BY <1>3, OneItem
  <2>2. Cardinality({w}) = 1
    BY FS_Singleton
  <2>3. Cardinality(Executing(t)) = 1
    BY <2>1, <2>2, Zenon
  <2>4. QED BY <1>1, <2>3
<1>4. QED BY <1>2, <1>3

(***************************************************************************)
(* A task submitted once has its one item or its one worker exactly when   *)
(* its status says so, with any number of workers and of other tasks.      *)
(***************************************************************************)
THEOREM StatusIsTruthful == Spec => []StatusTruthful
<1>1. Spec => []Inv
  BY TypeInit, InvStep, PTL DEF Spec
<1>2. Spec => [](Inv /\ Places)
  BY <1>1, PlacesInit, PlacesStep, PTL DEF Spec
<1>3. QED BY <1>2, TruthInit, TruthStep, TruthGives, PTL DEF Spec

-------------------------------------------------------------------------------
(***************************************************************************)
(* The life of a task submitted once.  Its audit trail keeps up with its   *)
(* attempt counter: while it is queued every attempt is on record, while   *)
(* it is running every attempt but the one under way, and as long as it is *)
(* neither over nor denied every record is of a failure.                   *)
(***************************************************************************)
EntryRight(t, i) ==
  IF audit[t][i].outcome = "denied"
  THEN i = Len(audit[t]) /\ audit[t][i].attempt = i - 1
  ELSE audit[t][i].attempt = i /\ i <= MaxAttempts

Failures(t, n) == \A i \in 1..n : audit[t][i].outcome = "failed"

TrailRight(t) ==
  /\ \A i \in 1..Len(audit[t]) : EntryRight(t, i)
  /\ Failures(t, Len(audit[t]) - 1)
  /\ status[t] \in Terminal =>
       Len(audit[t]) > 0 /\ audit[t][Len(audit[t])].outcome = status[t]

CountsRight(t) ==
  /\ current[t] = 0 =>
       status[t] = "absent" /\ attempt[t][1] = 0 /\ Len(audit[t]) = 0
  /\ status[t] = "queued" =>
       attempt[t][1] < MaxAttempts /\ Len(audit[t]) = attempt[t][1]
  /\ status[t] = "running" =>
       attempt[t][1] <= MaxAttempts /\ Len(audit[t]) + 1 = attempt[t][1]
  /\ status[t] \notin Terminal => Failures(t, Len(audit[t]))

HoldersRight(t) ==
  \A w \in Executing(t) : worker[w].object = 1 /\ worker[w].attempt = attempt[t][1]

Life(t) == TrailRight(t) /\ CountsRight(t) /\ HoldersRight(t)

Lives == \A t \in Tasks : current[t] <= 1 => Life(t)

LEMMA LivesGive == Inv /\ Lives => AuditTellsHistory
<1> SUFFICES ASSUME Inv, Lives, NEW t \in Tasks, current[t] <= 1
             PROVE  LET log == audit[t]
                        n == Len(log)
                    IN  /\ \A i \in 1..n :
                             IF log[i].outcome = "denied"
                             THEN i = n /\ log[i].attempt = i - 1
                             ELSE log[i].attempt = i /\ i <= MaxAttempts
                        /\ \A i \in 1..(n - 1) : log[i].outcome = "failed"
                        /\ status[t] \in Terminal => n > 0 /\ log[n].outcome = status[t]
  BY DEF AuditTellsHistory
<1>1. TrailRight(t)
  BY DEF Lives, Life
<1>2. QED BY <1>1 DEF TrailRight, EntryRight, Failures

LEMMA TrailTyped ==
  ASSUME Inv, NEW t \in Tasks
  PROVE  Len(audit[t]) \in Nat /\ attempt[t][1] \in Nat
<1>1. audit[t] \in Seq(AuditRecord) /\ attempt[t] \in [1..MaxSubmits -> Nat]
  BY StateTyped DEF Inv, TypeOK
<1>2. 1 \in 1..MaxSubmits
  BY AcquisitionAssumption
<1>3. Len(audit[t]) \in Nat
  BY <1>1
<1>4. attempt[t][1] \in Nat
  BY <1>1, <1>2
<1>5. QED BY <1>3, <1>4

LEMMA LivesInit == Init => Lives
<1> SUFFICES ASSUME Init, NEW t \in Tasks PROVE Life(t)
  BY DEF Lives
<1>1. /\ audit[t] = <<>> /\ status[t] = "absent" /\ attempt[t][1] = 0
      /\ Executing(t) = {}
  BY AcquisitionAssumption DEF Init, Executing, Idle
<1>2. Len(audit[t]) = 0 /\ "absent" \notin Terminal
  BY <1>1 DEF Terminal
<1>3. QED
  BY <1>1, <1>2
     DEF Life, TrailRight, CountsRight, HoldersRight, Failures

\* A step that is about one task only.
LEMMA OthersLive ==
  ASSUME Lives, NEW t \in Tasks, current'[t] <= 1 => Life(t)',
         \A u \in Tasks \ {t} :
           /\ current'[u] = current[u] /\ status'[u] = status[u]
           /\ attempt'[u] = attempt[u] /\ audit'[u] = audit[u]
           /\ Executing(u)' = Executing(u)
           /\ \A w \in Executing(u) : worker'[w] = worker[w]
  PROVE  Lives'
<1> SUFFICES ASSUME NEW u \in Tasks \ {t}, current[u] <= 1 PROVE Life(u)'
  BY DEF Lives
<1>1. Life(u)
  BY DEF Lives
<1>2. TrailRight(u)'
  BY <1>1 DEF Life, TrailRight, EntryRight, Failures
<1>3. CountsRight(u)'
  BY <1>1 DEF Life, CountsRight, Failures
<1>4. HoldersRight(u)'
  BY <1>1 DEF Life, HoldersRight
<1>5. QED BY <1>2, <1>3, <1>4 DEF Life

\* The trail after one more record.
LEMMA LogAppends ==
  ASSUME Inv, NEW t \in Tasks, NEW o \in Terminal, NEW n \in Nat, Log(t, o, n)
  PROVE  /\ Len(audit'[t]) = Len(audit[t]) + 1
         /\ \A i \in 1..Len(audit[t]) : audit'[t][i] = audit[t][i]
         /\ audit'[t][Len(audit[t]) + 1].outcome = o
         /\ audit'[t][Len(audit[t]) + 1].attempt = n
         /\ \A u \in Tasks \ {t} : audit'[u] = audit[u]
<1> DEFINE r == [outcome |-> o, attempt |-> n]
<1>1. r \in AuditRecord /\ audit[t] \in Seq(AuditRecord) /\ r.outcome = o /\ r.attempt = n
  BY DEF AuditRecord, Inv, TypeOK
<1> HIDE DEF r
<1>2. audit' = [audit EXCEPT ![t] = Append(audit[t], r)]
  BY DEF Log, r
<1>3. audit'[t] = Append(audit[t], r) /\ \A u \in Tasks \ {t} : audit'[u] = audit[u]
  BY <1>2 DEF Inv, TypeOK
<1>4. QED BY <1>1, <1>3

LEMMA TrailExtends ==
  ASSUME Inv, NEW t \in Tasks, TrailRight(t), Failures(t, Len(audit[t])),
         NEW o \in Terminal, NEW n \in Nat, Log(t, o, n),
         IF o = "denied" THEN n = Len(audit[t])
                         ELSE n = Len(audit[t]) + 1 /\ n <= MaxAttempts
  PROVE  /\ Len(audit'[t]) = Len(audit[t]) + 1
         /\ \A i \in 1..Len(audit'[t]) : EntryRight(t, i)'
         /\ \A i \in 1..Len(audit[t]) : audit'[t][i].outcome = "failed"
         /\ audit'[t][Len(audit'[t])].outcome = o
<1> PICK k : k = Len(audit[t])
  OBVIOUS
<1>1. k \in Nat
  BY TrailTyped
<1>2. /\ Len(audit'[t]) = k + 1
      /\ \A i \in 1..k : audit'[t][i] = audit[t][i]
      /\ audit'[t][k + 1].outcome = o /\ audit'[t][k + 1].attempt = n
  BY LogAppends
<1>3. \A i \in 1..k : audit[t][i].outcome = "failed"
  BY DEF Failures
<1>4. ASSUME NEW i \in 1..k PROVE EntryRight(t, i)'
  <2>1. EntryRight(t, i) /\ audit[t][i].outcome # "denied"
    BY <1>3 DEF TrailRight
  <2>2. audit'[t][i] = audit[t][i]
    BY <1>2
  <2>3. QED BY <2>1, <2>2 DEF EntryRight
<1>5. EntryRight(t, k + 1)'
  <2>1. CASE o = "denied"
    BY <1>1, <1>2, <2>1 DEF EntryRight
  <2>2. CASE o # "denied"
    BY <1>1, <1>2, <2>2 DEF EntryRight
  <2>3. QED BY <2>1, <2>2
<1>6. \A i \in 1..k + 1 : EntryRight(t, i)'
  <2>1. 1..k + 1 = (1..k) \cup {k + 1}
    BY <1>1
  <2>2. QED BY <1>4, <1>5, <2>1
<1>7. \A i \in 1..k : audit'[t][i].outcome = "failed"
  BY <1>2, <1>3
<1>8. QED BY <1>2, <1>6, <1>7

\* A record that ends the life of the task, and one of a failure to be retried.
LEMMA TrailEnds ==
  ASSUME Inv, NEW t \in Tasks, TrailRight(t), Failures(t, Len(audit[t])),
         NEW o \in Terminal, NEW n \in Nat, Log(t, o, n),
         IF o = "denied" THEN n = Len(audit[t])
                         ELSE n = Len(audit[t]) + 1 /\ n <= MaxAttempts,
         status' = [status EXCEPT ![t] = o]
  PROVE  /\ TrailRight(t)'
         /\ current'[t] # 0 => CountsRight(t)'
<1>1. /\ Len(audit'[t]) = Len(audit[t]) + 1
      /\ \A i \in 1..Len(audit'[t]) : EntryRight(t, i)'
      /\ \A i \in 1..Len(audit[t]) : audit'[t][i].outcome = "failed"
      /\ audit'[t][Len(audit'[t])].outcome = o
  BY TrailExtends
<1>2. Len(audit[t]) \in Nat /\ status'[t] = o
  BY TrailTyped DEF Inv, TypeOK
<1>3. Len(audit'[t]) > 0 /\ Len(audit'[t]) - 1 = Len(audit[t])
  BY <1>1, <1>2
<1>4. (Failures(t, Len(audit[t]) - 1))'
  BY <1>1, <1>3 DEF Failures
<1>5. TrailRight(t)'
  BY <1>1, <1>2, <1>3, <1>4 DEF TrailRight
<1>6. o \notin {"queued", "running"}
  BY DEF Terminal
<1>7. QED BY <1>2, <1>5, <1>6 DEF CountsRight

LEMMA TrailGoesOn ==
  ASSUME Inv, NEW t \in Tasks, TrailRight(t), Failures(t, Len(audit[t])),
         NEW n \in Nat, Log(t, "failed", n), n = Len(audit[t]) + 1, n < MaxAttempts,
         attempt'[t][1] = n, current'[t] # 0, status'[t] = "queued"
  PROVE  TrailRight(t)' /\ CountsRight(t)'
<1>1. "failed" \in Terminal /\ "queued" \notin Terminal
  BY DEF Terminal
<1>2. MaxAttempts \in Nat
  BY AcquisitionAssumption
<1>3. /\ Len(audit'[t]) = Len(audit[t]) + 1
      /\ \A i \in 1..Len(audit'[t]) : EntryRight(t, i)'
      /\ \A i \in 1..Len(audit[t]) : audit'[t][i].outcome = "failed"
      /\ audit'[t][Len(audit'[t])].outcome = "failed"
  BY <1>1, <1>2, TrailExtends
<1>4. Len(audit[t]) \in Nat /\ Len(audit'[t]) - 1 = Len(audit[t])
  BY <1>3, TrailTyped
<1>5. (Failures(t, Len(audit[t]) - 1))'
  BY <1>3, <1>4 DEF Failures
<1>6. (Failures(t, Len(audit[t])))'
  BY <1>3, <1>4 DEF Failures
<1>7. TrailRight(t)'
  BY <1>1, <1>3, <1>5 DEF TrailRight
<1>8. CountsRight(t)'
  BY <1>1, <1>3, <1>4, <1>6 DEF CountsRight
<1>9. QED BY <1>7, <1>8

LEMMA LivesProcess ==
  ASSUME Inv, Places, Truth, Lives, NEW w \in Workers, NEW j \in Jobs, Process(w, j)
  PROVE  Lives'
<1> PICK t \in Tasks, c \in Nat : j[1] = t /\ c = current[t]
  BY JobsTyped, CurrentTyped
<1>1. Take(w, j) /\ UNCHANGED current /\ TypeOK /\ j # NoJob
  BY JobsTyped DEF Process, Deny, Postpone, Start, RunInline, Inv
<1>2. /\ j \in batch /\ worker[w].job = NoJob
      /\ c \in 1..MaxSubmits /\ attempt[t][c] \in Nat
      /\ attempt[t] \in [1..MaxSubmits -> Nat]
  BY <1>1, FetchTyped, StateTyped DEF Take, Idle
<1>3. ASSUME c <= 1
      PROVE  /\ c = 1 /\ status[t] = "queued" /\ Executing(t) = {} /\ Life(t)
             /\ attempt[t][1] < MaxAttempts /\ Len(audit[t]) = attempt[t][1]
             /\ Failures(t, Len(audit[t]))
  <2>1. j \in Pending(t)
    BY <1>2 DEF Pending
  <2>2. Truthful(t) /\ Life(t)
    BY <1>3 DEF Truth, Lives
  <2>3. status[t] = "queued" /\ Executing(t) = {}
    BY <2>1, <2>2 DEF Truthful
  <2>4. "queued" \notin Terminal
    BY DEF Terminal
  <2>5. QED BY <1>2, <1>3, <2>2, <2>3, <2>4 DEF Life, CountsRight
<1>4. ASSUME UNCHANGED worker
      PROVE  \A u \in Tasks : Executing(u)' = Executing(u)
  BY <1>4 DEF Executing
<1>5. ASSUME UNCHANGED worker, c <= 1 PROVE HoldersRight(t)'
  BY <1>3, <1>4, <1>5 DEF HoldersRight
<1>6. CASE Deny(w, j)
  <2>1. /\ Log(t, "denied", attempt[t][c]) /\ status' = [status EXCEPT ![t] = "denied"]
        /\ UNCHANGED <<current, attempt, worker>> /\ "denied" \in Terminal
    BY <1>6 DEF Deny, Terminal
  <2>2. \A u \in Tasks \ {t} : audit'[u] = audit[u] /\ status'[u] = status[u]
    BY <1>1, <1>2, <2>1, LogAppends DEF TypeOK
  <2>3. ASSUME c <= 1 PROVE Life(t)'
    <3>1. TrailRight(t) /\ attempt[t][c] = Len(audit[t]) /\ current'[t] # 0
      BY <1>1, <1>3, <2>3 DEF Life
    <3>2. TrailRight(t)' /\ CountsRight(t)'
      BY <1>2, <1>3, <2>1, <2>3, <3>1, TrailEnds
    <3>3. QED BY <1>5, <2>1, <2>3, <3>2 DEF Life
  <2>4. QED BY <1>4, <2>1, <2>2, <2>3, OthersLive
<1>7. CASE Postpone(w, j)
  <2>1. /\ status' = [status EXCEPT ![t] = "queued"]
        /\ UNCHANGED <<current, attempt, worker, audit>>
    BY <1>7 DEF Postpone, EnqueueWithDelay
  <2>2. status'[t] = "queued" /\ \A u \in Tasks \ {t} : status'[u] = status[u]
    BY <1>1, <2>1 DEF TypeOK
  <2>3. ASSUME c <= 1 PROVE Life(t)'
    <3>1. Life(t) /\ status'[t] = status[t]
      BY <1>3, <2>2, <2>3
    <3>2. TrailRight(t)' /\ CountsRight(t)'
      BY <2>1, <3>1
         DEF Life, TrailRight, EntryRight, CountsRight, Failures
    <3>3. QED BY <1>5, <2>1, <2>3, <3>2 DEF Life
  <2>4. QED BY <1>4, <2>1, <2>2, <2>3, OthersLive
<1>8. ASSUME attempt' = [attempt EXCEPT ![t][c] = attempt[t][c] + 1]
      PROVE  /\ \A u \in Tasks \ {t} : attempt'[u] = attempt[u]
             /\ c = 1 => attempt'[t][1] = attempt[t][1] + 1
  BY <1>1, <1>2, <1>8 DEF TypeOK
<1>9. CASE RunInline(w, j)
  <2> PICK n : n = attempt[t][c] + 1
    OBVIOUS
  <2>1. /\ Log(t, "succeeded", n) /\ status' = [status EXCEPT ![t] = "succeeded"]
        /\ attempt' = [attempt EXCEPT ![t][c] = attempt[t][c] + 1]
        /\ UNCHANGED <<current, worker>> /\ "succeeded" \in Terminal /\ n \in Nat
    BY <1>2, <1>9 DEF RunInline, Terminal
  <2>2. \A u \in Tasks \ {t} : /\ audit'[u] = audit[u] /\ status'[u] = status[u]
                               /\ attempt'[u] = attempt[u]
    BY <1>1, <1>8, <2>1, LogAppends DEF TypeOK
  <2>3. ASSUME c <= 1 PROVE Life(t)'
    <3>1. /\ TrailRight(t) /\ n = Len(audit[t]) + 1 /\ n <= MaxAttempts
          /\ current'[t] # 0
      BY <1>1, <1>2, <1>3, <2>3, AcquisitionAssumption DEF Life
    <3>2. TrailRight(t)' /\ CountsRight(t)'
      BY <1>3, <2>1, <2>3, <3>1, TrailEnds
    <3>3. QED BY <1>5, <2>1, <2>3, <3>2 DEF Life
  <2>4. QED BY <1>4, <2>1, <2>2, <2>3, OthersLive
<1>10. CASE Start(w, j)
  <2> PICK n, r : n = attempt[t][c] + 1 /\ r = [job |-> j, object |-> c, attempt |-> n]
    OBVIOUS
  <2>1. /\ status' = [status EXCEPT ![t] = "running"]
        /\ attempt' = [attempt EXCEPT ![t][c] = attempt[t][c] + 1]
        /\ worker' = [worker EXCEPT ![w] = r]
        /\ UNCHANGED <<current, audit>>
    BY <1>10 DEF Start
  <2>2. /\ worker'[w] = r /\ \A v \in Workers \ {w} : worker'[v] = worker[v]
        /\ status'[t] = "running" /\ \A u \in Tasks \ {t} : status'[u] = status[u]
    BY <1>1, <2>1 DEF TypeOK
  <2>3. r.job = j /\ r.object = c /\ r.attempt = n /\ n \in Nat
    BY <1>2
  <2>4. \A u \in Tasks \ {t} : /\ Executing(u)' = Executing(u)
                               /\ \A v \in Executing(u) : worker'[v] = worker[v]
    BY <1>2, <2>2, <2>3 DEF Executing
  <2>5. ASSUME c <= 1 PROVE Life(t)'
    <3>1. /\ Life(t) /\ attempt'[t][1] = n /\ n <= MaxAttempts /\ c = 1
          /\ Len(audit[t]) + 1 = n
      BY <1>2, <1>3, <1>8, <2>1, <2>3, <2>5, AcquisitionAssumption
    <3>2. "running" \notin Terminal
      BY DEF Terminal
    <3>3. TrailRight(t)'
      BY <2>1, <2>2, <3>1, <3>2 DEF Life, TrailRight, EntryRight, Failures
    <3>4. CountsRight(t)'
      BY <1>3, <2>1, <2>2, <2>5, <3>1, <3>2 DEF CountsRight, Failures
    <3>5. \A v \in Executing(t)' : v = w
      BY <1>3, <2>2, <2>5 DEF Executing
    <3>6. HoldersRight(t)'
      BY <2>2, <2>3, <3>1, <3>5 DEF HoldersRight
    <3>7. QED BY <3>3, <3>4, <3>6 DEF Life
  <2>6. QED BY <1>8, <2>1, <2>2, <2>4, <2>5, OthersLive
<1>11. QED BY <1>6, <1>7, <1>9, <1>10 DEF Process

LEMMA LivesFinish ==
  ASSUME Inv, Places, Truth, Lives, NEW w \in Workers, Finish(w)
  PROVE  Lives'
<1> PICK j \in Jobs : worker[w].job = j
  BY FinishParts
<1> PICK t \in Tasks : j[1] = t
  BY JobsTyped
<1> PICK a : a = attempt[t][worker[w].object]
  OBVIOUS
<1>1. /\ UNCHANGED <<current, attempt>> /\ worker'[w].job = NoJob /\ TypeOK /\ j # NoJob
      /\ \A v \in Workers \ {w} : worker'[v] = worker[v]
  <2>1. UNCHANGED attempt
    BY DEF Finish, Succeed, Fail, Retry, GiveUp
  <2>2. QED BY <2>1, FinishParts, JobsTyped DEF Inv
<1>2. w \in Executing(t) /\ current[t] # 0
  BY <1>1 DEF Executing, Inv, Grounded
<1>3. ASSUME current[t] <= 1
      PROVE  /\ Life(t) /\ a = attempt[t][1] /\ worker[w].attempt = a
             /\ a <= MaxAttempts /\ Len(audit[t]) + 1 = a
             /\ Failures(t, Len(audit[t])) /\ Executing(t)' = {}
  <2>1. Life(t) /\ Truthful(t)
    BY <1>3 DEF Lives, Truth
  <2>2. status[t] = "running" /\ "running" \notin Terminal
    BY <1>2, <2>1 DEF Truthful, Terminal
  <2>3. \A v \in Executing(t) : v = w
    BY <1>2, <1>3, OneItem
  <2>4. Executing(t)' = {}
    BY <1>1, <2>3 DEF Executing
  <2>5. worker[w].object = 1 /\ worker[w].attempt = attempt[t][1]
    BY <1>2, <2>1 DEF Life, HoldersRight
  <2>6. QED BY <2>1, <2>2, <2>4, <2>5 DEF Life, CountsRight
<1>4. \A u \in Tasks \ {t} : /\ Executing(u)' = Executing(u)
                             /\ \A v \in Executing(u) : worker'[v] = worker[v]
  BY <1>1 DEF Executing
<1>5. ASSUME NEW o \in Terminal, End(w, o)
      PROVE  Log(t, o, a) /\ a \in Nat
  <2>1. worker[w].object \in 1..MaxSubmits
    BY <1>1, <1>2, StateTyped DEF Executing, Inv, Grounded, WorkerState
  <2>2. a \in Nat
    BY <2>1, StateTyped DEF Inv
  <2>3. QED BY <1>5, <2>2 DEF End
<1>6. \A u \in Tasks \ {t} : audit'[u] = audit[u] /\ status'[u] = status[u]
  <2>1. PICK o \in Terminal : End(w, o)
    BY DEF Finish, Succeed, Fail, Retry, GiveUp, Terminal
  <2>2. \A u \in Tasks \ {t} : audit'[u] = audit[u]
    BY <1>5, <2>1, LogAppends
  <2>3. \E s : status' = [status EXCEPT ![t] = s]
    BY DEF Finish, Succeed, Fail, Retry, GiveUp, EnqueueWithDelay
  <2>4. QED BY <1>1, <2>2, <2>3 DEF TypeOK
<1>7. ASSUME current[t] <= 1 => TrailRight(t)' /\ CountsRight(t)' PROVE Lives'
  <2>1. ASSUME current[t] <= 1 PROVE Life(t)'
    BY <1>3, <1>7, <2>1 DEF Life, HoldersRight
  <2>2. QED BY <1>1, <1>4, <1>6, <2>1, OthersLive
<1>8. ASSUME NEW o \in {"succeeded", "failed"}, End(w, o),
             status' = [status EXCEPT ![t] = o]
      PROVE  Lives'
  <2>1. o \in Terminal /\ o # "denied"
    BY DEF Terminal
  <2>2. ASSUME current[t] <= 1 PROVE TrailRight(t)' /\ CountsRight(t)'
    <3>1. TrailRight(t) /\ current'[t] # 0 /\ Log(t, o, a) /\ a \in Nat
      BY <1>1, <1>2, <1>3, <1>5, <1>8, <2>1, <2>2 DEF Life
    <3>2. QED BY <1>3, <1>8, <2>1, <2>2, <3>1, TrailEnds
  <2>3. QED BY <1>7, <2>2
<1>9. CASE Succeed(w)
  BY <1>8, <1>9 DEF Succeed
<1>10. CASE Fail(w)
  BY <1>8, <1>10 DEF Fail
<1>11. CASE GiveUp(w)
  BY <1>8, <1>11 DEF GiveUp
<1>12. CASE Retry(w)
  <2>1. End(w, "failed") /\ "failed" \in Terminal /\ worker[w].attempt < MaxAttempts
        /\ status' = [status EXCEPT ![t] = "queued"]
    BY <1>12 DEF Retry, EnqueueWithDelay, Terminal
  <2>2. status'[t] = "queued" /\ Log(t, "failed", a) /\ a \in Nat
    BY <1>1, <1>5, <2>1 DEF TypeOK
  <2>3. ASSUME current[t] <= 1 PROVE TrailRight(t)' /\ CountsRight(t)'
    <3>1. /\ TrailRight(t) /\ a = Len(audit[t]) + 1 /\ a < MaxAttempts
          /\ attempt'[t][1] = a /\ current'[t] # 0 /\ Failures(t, Len(audit[t]))
      BY <1>1, <1>2, <1>3, <2>1, <2>3 DEF Life
    <3>2. QED BY <2>2, <3>1, TrailGoesOn
  <2>4. QED BY <1>7, <2>3
<1>13. QED BY <1>9, <1>10, <1>11, <1>12 DEF Finish

LEMMA LivesStep == Inv /\ Places /\ Truth /\ Lives /\ [Next]_vars => Lives'
<1> SUFFICES ASSUME Inv, Places, Truth, Lives, [Next]_vars PROVE Lives'
  OBVIOUS
<1>1. TypeOK
  BY DEF Inv
<1>2. ASSUME UNCHANGED <<current, status, attempt, audit, worker>> PROVE Lives'
  BY <1>2 DEF Lives, Life, TrailRight, EntryRight, CountsRight, HoldersRight, Failures,
              Executing
<1>3. ASSUME NEW t \in Tasks, current[t] = 0
      PROVE  /\ Executing(t) = {} /\ Life(t) /\ attempt[t][1] = 0 /\ Len(audit[t]) = 0
  <2>1. Life(t)
    BY <1>3 DEF Lives
  <2>2. Executing(t) = {}
    BY <1>3 DEF Inv, Grounded, Executing
  <2>3. QED BY <1>3, <2>1, <2>2 DEF Life, CountsRight
<1>4. ASSUME NEW t \in Tasks, NEW delay \in SubmitDelays, SubmitAccepted(t, delay)
      PROVE  Lives'
  <2>1. /\ status' = [status EXCEPT ![t] = "queued"]
        /\ current' = [current EXCEPT ![t] = current[t] + 1]
        /\ UNCHANGED <<attempt, worker, audit>>
    BY <1>4 DEF SubmitAccepted
  <2>2. /\ current[t] \in Nat /\ current'[t] = current[t] + 1 /\ status'[t] = "queued"
        /\ \A u \in Tasks \ {t} : current'[u] = current[u] /\ status'[u] = status[u]
    BY <1>1, <2>1, CurrentTyped DEF TypeOK
  <2>3. \A u \in Tasks : Executing(u)' = Executing(u)
    BY <2>1 DEF Executing
  <2>4. ASSUME current'[t] <= 1 PROVE Life(t)'
    <3>1. /\ Executing(t)' = {} /\ Life(t) /\ attempt'[t][1] = 0 /\ Len(audit'[t]) = 0
          /\ current'[t] # 0 /\ 0 < MaxAttempts /\ "queued" \notin Terminal
      BY <1>3, <2>1, <2>2, <2>3, <2>4, AcquisitionAssumption DEF Terminal
    <3>2. QED
      BY <2>2, <3>1
         DEF Life, TrailRight, CountsRight, HoldersRight, Failures
  <2>5. QED BY <2>1, <2>2, <2>3, <2>4, OthersLive
<1>5. ASSUME NEW t \in Tasks, SubmitDenied(t) PROVE Lives'
  <2>1. /\ status' = [status EXCEPT ![t] = "denied"]
        /\ current' = [current EXCEPT ![t] = current[t] + 1]
        /\ Log(t, "denied", 0) /\ "denied" \in Terminal
        /\ UNCHANGED <<attempt, worker>>
    BY <1>5 DEF SubmitDenied, Terminal
  <2>2. /\ current[t] \in Nat /\ current'[t] = current[t] + 1
        /\ \A u \in Tasks \ {t} : /\ current'[u] = current[u] /\ status'[u] = status[u]
                                  /\ audit'[u] = audit[u]
    BY <1>1, <2>1, CurrentTyped, LogAppends DEF TypeOK
  <2>3. \A u \in Tasks : Executing(u)' = Executing(u)
    BY <2>1 DEF Executing
  <2>4. ASSUME current'[t] <= 1 PROVE Life(t)'
    <3>1. /\ Executing(t)' = {} /\ Life(t) /\ Len(audit[t]) = 0 /\ current'[t] # 0
      BY <1>3, <2>2, <2>3, <2>4
    <3>2. TrailRight(t) /\ Failures(t, Len(audit[t]))
      BY <3>1 DEF Life, Failures
    <3>3. 0 \in Nat /\ 0 = Len(audit[t])
      BY <3>1
    <3>4. TrailRight(t)' /\ (current'[t] # 0 => CountsRight(t)')
      BY <2>1, <3>2, <3>3, TrailEnds
    <3>5. QED BY <3>1, <3>4 DEF Life, HoldersRight
  <2>5. QED BY <2>1, <2>2, <2>3, <2>4, OthersLive
<1>6. ASSUME PopDue \/ Tick \/ UNCHANGED vars PROVE Lives'
  BY <1>2, <1>6 DEF PopDue, Tick, vars
<1>7. ASSUME NEW s \in Sources, NEW p \in PolicyStatus, UpsertPolicy(s, p) PROVE Lives'
  BY <1>2, <1>7 DEF UpsertPolicy
<1>8. QED BY <1>4, <1>5, <1>6, <1>7, LivesProcess, LivesFinish DEF Next

LEMMA AlwaysLives == Spec => [](Inv /\ Places /\ Truth /\ Lives)
<1>1. Spec => []Inv
  BY TypeInit, InvStep, PTL DEF Spec
<1>2. Spec => [](Inv /\ Places)
  BY <1>1, PlacesInit, PlacesStep, PTL DEF Spec
<1>3. Spec => [](Inv /\ Places /\ Truth)
  BY <1>2, TruthInit, TruthStep, PTL DEF Spec
<1>4. QED BY <1>3, LivesInit, LivesStep, PTL DEF Spec

(***************************************************************************)
(* The audit trail of a task submitted once is its history: attempts 1, 2, *)
(* ... all failed but the last, at most MaxAttempts of them, and the last  *)
(* record says what the status says.                                       *)
(***************************************************************************)
THEOREM AuditIsHistory == Spec => []AuditTellsHistory
<1>1. QED BY AlwaysLives, LivesGive, PTL

-------------------------------------------------------------------------------
(***************************************************************************)
(* The refinement of TaskLifecycle, for clients that submit a task once.   *)
(***************************************************************************)
TriesNow == [t \in Tasks |-> attempt[t][1]]

LEMMA LifecycleInit == Init => Lifecycle!TLInit
<1> SUFFICES ASSUME Init PROVE Lifecycle!TLInit
  OBVIOUS
<1>1. \A t \in Tasks : attempt[t][1] = 0
  BY AcquisitionAssumption DEF Init
<1>2. QED BY <1>1 DEF Init, Lifecycle!TLInit

\* A step leaves the attempt counters alone, or raises the one of a task.
LEMMA SameTries ==
  UNCHANGED attempt => UNCHANGED TriesNow
  BY DEF TriesNow

LEMMA OneMoreTry ==
  ASSUME Inv, NEW t \in Tasks,
         attempt' = [attempt EXCEPT ![t][1] = attempt[t][1] + 1]
  PROVE  TriesNow' = [TriesNow EXCEPT ![t] = @ + 1]
<1>1. /\ attempt \in [Tasks -> [1..MaxSubmits -> Nat]]
      /\ 1 \in 1..MaxSubmits
  BY AcquisitionAssumption DEF Inv, TypeOK
<1>2. /\ attempt'[t][1] = attempt[t][1] + 1
      /\ \A u \in Tasks \ {t} : attempt'[u] = attempt[u]
  BY <1>1
<1>3. /\ TriesNow' = [u \in Tasks |-> attempt'[u][1]]
      /\ [TriesNow EXCEPT ![t] = @ + 1]
           = [u \in Tasks |-> IF u = t THEN attempt[t][1] + 1 ELSE attempt[u][1]]
  BY DEF TriesNow
<1>4. \A u \in Tasks :
        attempt'[u][1] = IF u = t THEN attempt[t][1] + 1 ELSE attempt[u][1]
  BY <1>2
<1>5. QED BY <1>3, <1>4

LEMMA LifecycleProcess ==
  ASSUME MaxSubmits = 1, Inv, Places, Truth, Lives,
         NEW w \in Workers, NEW j \in Jobs, Process(w, j)
  PROVE  [Lifecycle!TLNext]_(Lifecycle!tlVars)
<1> PICK t \in Tasks : j[1] = t
  BY JobsTyped
<1>1. Take(w, j) /\ TypeOK
  BY DEF Process, Deny, Postpone, Start, RunInline, Inv
<1>2. current[t] = 1
  <2>1. current[t] \in 1..MaxSubmits
    BY <1>1, FetchTyped
  <2>2. QED BY <2>1
<1>3. status[t] = "queued" /\ attempt[t][1] < MaxAttempts
  <2>1. j \in Pending(t)
    BY <1>1 DEF Pending, Take
  <2>2. Truthful(t) /\ Life(t)
    BY <1>2 DEF Truth, Lives
  <2>3. QED BY <2>1, <2>2 DEF Truthful, Life, CountsRight
<1>4. TriesNow[t] < MaxAttempts
  BY <1>3 DEF TriesNow
<1>5. CASE Deny(w, j)
  <2>1. status' = [status EXCEPT ![t] = "denied"] /\ UNCHANGED TriesNow
    BY <1>5, SameTries DEF Deny
  <2>2. Lifecycle!Refuse(t)
    BY <1>3, <2>1 DEF Lifecycle!Refuse, Lifecycle!Move, TriesNow
  <2>3. QED BY <2>2 DEF Lifecycle!TLNext
<1>6. CASE Postpone(w, j)
  <2>1. status' = [status EXCEPT ![t] = "queued"] /\ UNCHANGED TriesNow
    BY <1>6, SameTries DEF Postpone, EnqueueWithDelay
  <2>2. UNCHANGED status
    BY <1>1, <1>3, <2>1 DEF TypeOK
  <2>3. QED BY <2>1, <2>2 DEF Lifecycle!tlVars, TriesNow
<1>7. ASSUME attempt' = [attempt EXCEPT ![t][1] = attempt[t][1] + 1]
      PROVE  Lifecycle!Attempt(t)
  <2>1. TriesNow' = [TriesNow EXCEPT ![t] = @ + 1]
    BY <1>7, OneMoreTry
  <2>2. QED BY <1>4, <2>1 DEF Lifecycle!Attempt, TriesNow
<1>8. CASE Start(w, j)
  <2>1. /\ status' = [status EXCEPT ![t] = "running"]
        /\ attempt' = [attempt EXCEPT ![t][1] = attempt[t][1] + 1]
    BY <1>2, <1>8 DEF Start
  <2>2. Lifecycle!Begin(t)
    BY <1>3, <1>7, <2>1 DEF Lifecycle!Begin, Lifecycle!Move
  <2>3. QED BY <2>2 DEF Lifecycle!TLNext
<1>9. CASE RunInline(w, j)
  <2>1. /\ status' = [status EXCEPT ![t] = "succeeded"]
        /\ attempt' = [attempt EXCEPT ![t][1] = attempt[t][1] + 1]
    BY <1>2, <1>9 DEF RunInline
  <2>2. Lifecycle!BeginAndEnd(t)
    BY <1>3, <1>7, <2>1 DEF Lifecycle!BeginAndEnd, Lifecycle!Move
  <2>3. QED BY <2>2 DEF Lifecycle!TLNext
<1>10. QED BY <1>5, <1>6, <1>8, <1>9 DEF Process

LEMMA LifecycleFinish ==
  ASSUME MaxSubmits = 1, Inv, Places, Truth, Lives, NEW w \in Workers, Finish(w)
  PROVE  [Lifecycle!TLNext]_(Lifecycle!tlVars)
<1> PICK j \in Jobs : worker[w].job = j
  BY FinishParts
<1> PICK t \in Tasks : j[1] = t
  BY JobsTyped
<1>1. w \in Executing(t) /\ current[t] <= 1
  BY JobsTyped, StateTyped DEF Executing, Inv
<1>2. /\ status[t] = "running"
      /\ worker[w].attempt = attempt[t][1]
  BY <1>1 DEF Truth, Truthful, Lives, Life, HoldersRight
<1>3. UNCHANGED TriesNow
  BY SameTries DEF Finish, Succeed, Fail, Retry, GiveUp
<1>4. ASSUME NEW o \in {"succeeded", "failed"}, status' = [status EXCEPT ![t] = o]
      PROVE  Lifecycle!TLNext
  <2>1. Lifecycle!Conclude(t)
    BY <1>2, <1>3, <1>4 DEF Lifecycle!Conclude, Lifecycle!Move, TriesNow
  <2>2. QED BY <2>1 DEF Lifecycle!TLNext
<1>5. CASE Succeed(w)
  BY <1>4, <1>5 DEF Succeed
<1>6. CASE Fail(w)
  BY <1>4, <1>6 DEF Fail
<1>7. CASE GiveUp(w)
  BY <1>4, <1>7 DEF GiveUp
<1>8. CASE Retry(w)
  <2>1. status' = [status EXCEPT ![t] = "queued"] /\ worker[w].attempt < MaxAttempts
    BY <1>8 DEF Retry, EnqueueWithDelay
  <2>2. TriesNow[t] < MaxAttempts
    BY <1>2, <2>1 DEF TriesNow
  <2>3. Lifecycle!TryAgain(t)
    BY <1>2, <1>3, <2>1, <2>2 DEF Lifecycle!TryAgain, Lifecycle!Move, TriesNow
  <2>4. QED BY <2>3 DEF Lifecycle!TLNext
<1>9. QED BY <1>5, <1>6, <1>7, <1>8 DEF Finish

LEMMA LifecycleStep ==
  ASSUME MaxSubmits = 1
  PROVE  Inv /\ Places /\ Truth /\ Lives /\ [Next]_vars
           => [Lifecycle!TLNext]_(Lifecycle!tlVars)
<1> SUFFICES ASSUME Inv, Places, Truth, Lives, [Next]_vars
             PROVE  [Lifecycle!TLNext]_(Lifecycle!tlVars)
  OBVIOUS
<1>1. ASSUME NEW t \in Tasks, current[t] + 1 <= MaxSubmits, UNCHANGED attempt,
             NEW s \in {"queued", "denied"}, status' = [status EXCEPT ![t] = s]
      PROVE  Lifecycle!TLNext
  <2>1. current[t] = 0
    BY <1>1, CurrentTyped
  <2>2. status[t] = "absent" /\ UNCHANGED TriesNow
    BY <1>1, <2>1, SameTries DEF Lives, Life, CountsRight
  <2>3. Lifecycle!Accept(t) \/ Lifecycle!Refuse(t)
    BY <1>1, <2>2 DEF Lifecycle!Accept, Lifecycle!Refuse, Lifecycle!Move, TriesNow
  <2>4. QED BY <2>3 DEF Lifecycle!TLNext
<1>2. ASSUME NEW t \in Tasks, NEW delay \in SubmitDelays, SubmitAccepted(t, delay)
      PROVE  Lifecycle!TLNext
  BY <1>1, <1>2 DEF SubmitAccepted
<1>3. ASSUME NEW t \in Tasks, SubmitDenied(t) PROVE Lifecycle!TLNext
  BY <1>1, <1>3 DEF SubmitDenied
<1>4. ASSUME UNCHANGED <<status, attempt>> PROVE UNCHANGED Lifecycle!tlVars
  BY <1>4, SameTries DEF Lifecycle!tlVars, TriesNow
<1>5. ASSUME PopDue \/ Tick \/ UNCHANGED vars PROVE UNCHANGED Lifecycle!tlVars
  BY <1>4, <1>5 DEF PopDue, Tick, vars
<1>6. ASSUME NEW s \in Sources, NEW p \in PolicyStatus, UpsertPolicy(s, p)
      PROVE  UNCHANGED Lifecycle!tlVars
  BY <1>4, <1>6 DEF UpsertPolicy
<1>7. QED
  BY <1>2, <1>3, <1>5, <1>6, LifecycleProcess, LifecycleFinish DEF Next

(***************************************************************************)
(* To a client that submits every task once, acquisition is a              *)
(* TaskLifecycle: no more than MaxAttempts attempts one after another, and *)
(* a task that ended stays as it ended.                                    *)
(***************************************************************************)
THEOREM LifecycleImplemented ==
  ASSUME MaxSubmits = 1
  PROVE  Spec => LifecycleKept
<1>1. Inv /\ Places /\ Truth /\ Lives /\ [Next]_vars
        => [Lifecycle!TLNext]_(Lifecycle!tlVars)
  BY LifecycleStep
<1>2. QED
  BY <1>1, AlwaysLives, LifecycleInit, PTL
     DEF Spec, LifecycleKept, Lifecycle!TLSpec
-------------------------------------------------------------------------------
(***************************************************************************)
(* Sums over finite sets.                                                  *)
(***************************************************************************)
LEMMA LeastExists ==
  ASSUME NEW S, S \subseteq Nat, S # {}
  PROVE  \E n \in S : \A m \in S : n <= m
<1>1. PICK n \in S : \A m \in S : <<m, n>> \notin OpToRel(<, Nat)
  BY WFMin, NatLessThanWellFounded, Zenon
<1>2. ASSUME NEW m \in S PROVE ~(m < n)
  BY <1>1, Zenon DEF OpToRel
<1>3. QED BY <1>2

Sum(f, S) == MapThenSumSet(LAMBDA x : f[x], S)

\* g is what a sum is computed by: whatever element is taken first.
SumsUp(g, f, S) ==
  /\ g[{}] = 0
  /\ \A T \in SUBSET S : g[T] \in Nat
  /\ \A T \in SUBSET S : \A x \in T : g[T] = f[x] + g[T \ {x}]

LEMMA SumIs ==
  ASSUME NEW S, IsFiniteSet(S), NEW f, \A x \in S : f[x] \in Nat
  PROVE  \E g : Sum(f, S) = g[S] /\ SumsUp(g, f, S)
<1> DEFINE First(T) == CHOOSE x \in T : TRUE
           Step(g, T) == IF T = {} THEN 0 ELSE f[First(T)] + g[T \ {First(T)}]
           Small(n) == {T \in SUBSET S : Cardinality(T) <= n}
           Upto(n) == \E g : g = [T \in Small(n) |-> Step(g, T)]
           sum == CHOOSE g : g = [T \in SUBSET S |-> Step(g, T)]
<1>1. Sum(f, S) = sum[S]
  BY DEF Sum, MapThenSumSet, MapThenFoldSet
<1>2. \A T \in SUBSET S : IsFiniteSet(T) /\ Cardinality(T) \in Nat /\ Cardinality(T) <= Cardinality(S)
      /\ (Cardinality(T) = 0 <=> T = {})
  BY FS_Subset, FS_CardinalityType, FS_EmptySet
<1>3. ASSUME NEW T \in SUBSET S, NEW x \in T
      PROVE  T \ {x} \in SUBSET S /\ Cardinality(T \ {x}) = Cardinality(T) - 1
  BY <1>2, FS_RemoveElement
<1>4. ASSUME NEW T \in SUBSET S, T # {} PROVE First(T) \in T
  BY <1>4
<1>5. \A n \in Nat : Upto(n)
  <2> DEFINE Bad == {n \in Nat : ~Upto(n)}
  <2>1. SUFFICES ASSUME Bad # {} PROVE FALSE
    OBVIOUS
  <2>2. PICK n \in Bad : \A k \in Bad : n <= k
    <3> HIDE DEF Upto
    <3>1. Bad \subseteq Nat
      OBVIOUS
    <3> HIDE DEF Bad
    <3>2. QED BY <2>1, <3>1, LeastExists
  <2>3. n # 0
    <3> DEFINE g == [T \in Small(0) |-> 0]
    <3>1. \A T \in Small(0) : T = {}
      BY <1>2
    <3>2. g = [T \in Small(0) |-> Step(g, T)]
      <4> HIDE DEF Small
      <4>1. \A T \in Small(0) : Step(g, T) = 0
        BY <3>1
      <4> HIDE DEF Step
      <4>2. QED BY <4>1
    <3> HIDE DEF g, Step, Small
    <3>3. Upto(0)
      BY <3>2
    <3>4. QED BY <3>3
  <2>4. n \in Nat /\ n - 1 \in Nat /\ Upto(n - 1)
    <3>1. n \in Nat /\ n - 1 \in Nat /\ n - 1 < n
      BY <2>3
    <3>2. n - 1 \notin Bad
      <4> HIDE DEF Bad
      <4>1. QED BY <3>1, <2>2
    <3>3. QED BY <3>1, <3>2
  <2>5. PICK g : g = [T \in Small(n - 1) |-> Step(g, T)]
    BY <2>4
  <2> DEFINE h == [T \in Small(n) |-> Step(g, T)]
  <2>6. ASSUME NEW T \in Small(n) PROVE Step(g, T) = Step(h, T)
    <3>1. CASE T = {}
      BY <3>1
    <3>2. CASE T # {}
      <4> DEFINE R == T \ {First(T)}
      <4>1. R \in Small(n - 1) /\ R \in Small(n)
        <5>1. First(T) \in T /\ T \in SUBSET S /\ Cardinality(T) <= n /\ Cardinality(T) \in Nat
          BY <1>2, <1>4, <3>2
        <5> HIDE DEF First
        <5>2. R \in SUBSET S /\ Cardinality(R) = Cardinality(T) - 1
          BY <1>3, <5>1
        <5>3. QED BY <2>4, <5>1, <5>2
      <4> HIDE DEF R
      <4>2. g[R] = Step(g, R)
        <5> HIDE DEF Step, Small
        <5>1. QED BY <2>5, <4>1
      <4>3. h[R] = Step(g, R)
        <5> HIDE DEF Step, Small
        <5>1. QED BY <4>1
      <4> HIDE DEF h, First
      <4>4. QED BY <3>2, <4>2, <4>3 DEF R
    <3>3. QED BY <3>1, <3>2
  <2>7. h = [T \in Small(n) |-> Step(h, T)]
    <3> HIDE DEF Step, Small
    <3>1. QED BY <2>6
  <2>8. Upto(n)
    <3> HIDE DEF h
    <3>1. QED BY <2>7
  <2>9. QED BY <2>8
<1>6. sum = [T \in SUBSET S |-> Step(sum, T)]
  <2>1. Small(Cardinality(S)) = SUBSET S
    BY <1>2
  <2>2. Cardinality(S) \in Nat
    BY <1>2
  <2> HIDE DEF Small
  <2>3. Upto(Cardinality(S))
    BY <1>5, <2>2
  <2> HIDE DEF Step
  <2>4. QED BY <2>1, <2>3
<1>7. ASSUME NEW T \in SUBSET S PROVE sum[T] = Step(sum, T)
  <2> HIDE DEF Step, sum
  <2>1. QED BY <1>6
<1> HIDE DEF sum
<1>8. sum[{}] = 0
  BY <1>7
<1> DEFINE Fine(T) == sum[T] \in Nat /\ \A x \in T : sum[T] = f[x] + sum[T \ {x}]
<1>9. \A T \in SUBSET S : Fine(T)
  <2> DEFINE Bad == {Cardinality(T) : T \in {R \in SUBSET S : ~Fine(R)}}
  <2>1. SUFFICES ASSUME NEW R \in SUBSET S, ~Fine(R) PROVE FALSE
    OBVIOUS
  <2>2. PICK n \in Bad : \A k \in Bad : n <= k
    <3> HIDE DEF Fine
    <3>1. Bad \subseteq Nat
      BY <1>2
    <3>2. Cardinality(R) \in Bad
      BY <2>1
    <3> HIDE DEF Bad
    <3>3. QED BY <3>1, <3>2, LeastExists
  <2>3. PICK T \in SUBSET S : ~Fine(T) /\ n = Cardinality(T)
    <3> HIDE DEF Fine
    <3>1. QED OBVIOUS
  <2>4. ASSUME NEW P \in SUBSET S, Cardinality(P) < Cardinality(T) PROVE Fine(P)
    <3> HIDE DEF Fine
    <3>1. ~Fine(P) => Cardinality(P) \in Bad
      OBVIOUS
    <3> HIDE DEF Bad
    <3>2. Cardinality(P) \in Nat /\ Cardinality(T) \in Nat
      BY <1>2
    <3>3. QED BY <2>2, <2>3, <2>4, <3>1, <3>2
  <2>5. T # {}
    <3>1. T = {} => sum[T] = 0 /\ \A x \in T : FALSE
      BY <1>8
    <3>2. ~(sum[T] \in Nat /\ \A x \in T : sum[T] = f[x] + sum[T \ {x}])
      BY <2>3
    <3>3. QED BY <3>1, <3>2
  <2> DEFINE c == First(T)
  <2>6. c \in T
    BY <1>4, <2>5
  <2>7. sum[T] = f[c] + sum[T \ {c}]
    BY <1>7, <2>5
  <2> HIDE DEF c, First, Step
  <2>8. ASSUME NEW x \in T PROVE T \ {x} \in SUBSET S /\ Fine(T \ {x})
    <3>1. T \ {x} \in SUBSET S /\ Cardinality(T \ {x}) = Cardinality(T) - 1 /\ Cardinality(T) \in Nat
      BY <1>2, <1>3
    <3>2. Cardinality(T \ {x}) < Cardinality(T)
      BY <3>1
    <3>3. QED BY <2>4, <3>1, <3>2
  <2>9. sum[T] \in Nat
    <3>1. sum[T \ {c}] \in Nat /\ f[c] \in Nat
      BY <2>6, <2>8
    <3>2. QED BY <2>7, <3>1
  <2>10. ASSUME NEW x \in T PROVE sum[T] = f[x] + sum[T \ {x}]
    <3>1. CASE x = c
      BY <2>7, <3>1
    <3>2. CASE x # c
      <4> DEFINE both == T \ {x, c}
      <4>1. (T \ {c}) \ {x} = both /\ (T \ {x}) \ {c} = both /\ x \in T \ {c} /\ c \in T \ {x}
        BY <2>6, <3>2
      <4>2. sum[T \ {c}] = f[x] + sum[both]
        BY <2>6, <2>8, <4>1
      <4>3. sum[T \ {x}] = f[c] + sum[both]
        BY <2>8, <4>1
      <4>4. sum[both] \in Nat
        <5>1. both \in SUBSET S /\ Cardinality(both) < Cardinality(T)
          <6>1. T \ {c} \in SUBSET S /\ Cardinality(T \ {c}) = Cardinality(T) - 1
            BY <1>3, <2>6
          <6>2. both \in SUBSET S /\ Cardinality(both) = Cardinality(T \ {c}) - 1
            BY <1>3, <4>1, <6>1
          <6>3. Cardinality(T) \in Nat
            BY <1>2
          <6>4. QED BY <6>1, <6>2, <6>3
        <5>2. QED BY <2>4, <5>1
      <4>5. f[x] \in Nat /\ f[c] \in Nat
        BY <2>6
      <4> HIDE DEF both
      <4>6. QED BY <2>7, <4>2, <4>3, <4>4, <4>5
    <3>3. QED BY <3>1, <3>2
  <2>11. QED BY <2>3, <2>9, <2>10
<1>10. QED BY <1>1, <1>8, <1>9 DEF SumsUp

\* What two functions agree on has one sum.
LEMMA SumsAgree ==
  ASSUME NEW S, IsFiniteSet(S), NEW f, NEW e, NEW g, SumsUp(g, f, S), NEW h, SumsUp(h, e, S),
         NEW T \in SUBSET S, \A x \in T : f[x] = e[x]
  PROVE  g[T] = h[T]
<1> DEFINE Bad == {Cardinality(R) : R \in {Q \in SUBSET T : g[Q] # h[Q]}}
<1>1. \A R \in SUBSET T : R \in SUBSET S /\ IsFiniteSet(R) /\ Cardinality(R) \in Nat
  BY FS_Subset, FS_CardinalityType
<1>2. SUFFICES ASSUME g[T] # h[T] PROVE FALSE
  OBVIOUS
<1>3. PICK n \in Bad : \A k \in Bad : n <= k
  <2>1. Bad \subseteq Nat
    BY <1>1
  <2>2. Cardinality(T) \in Bad
    BY <1>2
  <2> HIDE DEF Bad
  <2>3. QED BY <2>1, <2>2, LeastExists
<1>4. PICK R \in SUBSET T : g[R] # h[R] /\ n = Cardinality(R)
  OBVIOUS
<1>5. R # {}
  BY <1>4 DEF SumsUp
<1>6. PICK x \in R : TRUE
  BY <1>5
<1>7. R \ {x} \in SUBSET T /\ Cardinality(R \ {x}) = Cardinality(R) - 1 /\ Cardinality(R) \in Nat
  BY <1>1, FS_RemoveElement
<1>8. g[R \ {x}] = h[R \ {x}]
  <2>1. g[R \ {x}] # h[R \ {x}] => Cardinality(R \ {x}) \in Bad
    BY <1>7
  <2> HIDE DEF Bad
  <2>2. QED BY <1>3, <1>4, <1>7, <2>1
<1>9. g[R] = f[x] + g[R \ {x}] /\ h[R] = e[x] + h[R \ {x}] /\ f[x] = e[x]
  BY <1>1 DEF SumsUp
<1>10. QED BY <1>4, <1>8, <1>9
-------------------------------------------------------------------------------
(***************************************************************************)
(* Every attempt is audited.  The attempts of all objects of a task are    *)
(* added up: one more counter, one more record and one worker more or less *)
(* have to move together, whichever object the worker kept.                *)
(***************************************************************************)
Begun(t) == Sum(attempt[t], 1..MaxSubmits)

Booked(t) == Begun(t) = Cardinality(Audited(t)) + Cardinality(Executing(t))

Books == \A t \in Tasks : Booked(t)

LEMMA BooksAre == Books <=> AttemptsAudited
<1>1. ASSUME NEW t \in Tasks
      PROVE  Booked(t) <=> MapThenSumSet(LAMBDA n : attempt[t][n], 1..MaxSubmits)
                             = Cardinality(Audited(t)) + Cardinality(Executing(t))
  BY DEF Booked, Begun, Sum
<1>2. QED BY <1>1 DEF AttemptsAudited, Books

Same(f, e, T) == \A x \in T : f[x] = e[x]
Alike(g, h, T) == g[T] = h[T]

LEMMA SameSums ==
  ASSUME NEW S, IsFiniteSet(S), NEW f, NEW e, NEW g, SumsUp(g, f, S), NEW h, SumsUp(h, e, S),
         NEW T, T \subseteq S, Same(f, e, T)
  PROVE  Alike(g, h, T)
  BY SumsAgree DEF Same, Alike

\* A sum of which one term becomes one larger.
LEMMA OneTermMore ==
  ASSUME NEW S, IsFiniteSet(S), NEW f \in [S -> Nat], NEW c \in S,
         NEW e, e = [f EXCEPT ![c] = f[c] + 1]
  PROVE  Sum(f, S) \in Nat /\ Sum(e, S) = Sum(f, S) + 1
<1>1. /\ \A x \in S : f[x] \in Nat /\ e[x] \in Nat
      /\ e[c] = f[c] + 1
      /\ \A x \in S \ {c} : f[x] = e[x]
  OBVIOUS
<1>2. PICK g : Sum(f, S) = g[S] /\ SumsUp(g, f, S)
  BY <1>1, SumIs
<1>3. PICK h : Sum(e, S) = h[S] /\ SumsUp(h, e, S)
  BY <1>1, SumIs
<1> DEFINE R == S \ {c}
<1>4. R \subseteq S /\ R \in SUBSET S /\ S \in SUBSET S /\ Same(f, e, R)
  BY <1>1 DEF Same
<1> HIDE DEF R
<1>5. Alike(g, h, R)
  BY <1>2, <1>3, <1>4, SameSums, Zenon
<1>6. /\ g[S] = f[c] + g[R] /\ h[S] = e[c] + h[R]
      /\ g[S] \in Nat /\ g[R] \in Nat
  BY <1>2, <1>3, <1>4 DEF SumsUp, R
<1>7. f[c] \in Nat
  BY <1>1
<1>8. QED BY <1>1, <1>2, <1>3, <1>5, <1>6, <1>7 DEF Alike

\* The books of a task are numbers.
LEMMA BooksTyped ==
  ASSUME Inv, NEW t \in Tasks
  PROVE  /\ IsFiniteSet(Audited(t)) /\ Cardinality(Audited(t)) \in Nat
         /\ IsFiniteSet(Executing(t)) /\ Cardinality(Executing(t)) \in Nat
<1>1. audit[t] \in Seq(AuditRecord)
  BY DEF Inv, TypeOK
<1>2. Len(audit[t]) \in Nat /\ DOMAIN audit[t] = 1..Len(audit[t])
  BY <1>1
<1>3. IsFiniteSet(1..Len(audit[t]))
  BY <1>2, FS_Interval
<1>4. IsFiniteSet(Audited(t))
  <2>1. Audited(t) \subseteq 1..Len(audit[t])
    BY <1>2 DEF Audited
  <2>2. QED BY <1>3, <2>1, FS_Subset
<1>5. IsFiniteSet(Executing(t))
  <2>1. Executing(t) \subseteq Workers /\ IsFiniteSet(Workers)
    BY AcquisitionAssumption DEF Executing
  <2>2. QED BY <2>1, FS_Subset
<1>6. QED BY <1>4, <1>5, FS_CardinalityType

\* One more record: a denial is none of an attempt.
LEMMA RecordCounted ==
  ASSUME Inv, NEW t \in Tasks, NEW o \in Terminal, NEW n \in Nat, Log(t, o, n)
  PROVE  /\ Cardinality(Audited(t)') = Cardinality(Audited(t)) + (IF o = "denied" THEN 0 ELSE 1)
         /\ \A u \in Tasks \ {t} : Audited(u)' = Audited(u)
<1> DEFINE r == [outcome |-> o, attempt |-> n]
           k == Len(audit[t])
<1>1. k \in Nat /\ audit[t] \in Seq(AuditRecord) /\ DOMAIN audit[t] = 1..k
  BY DEF Inv, TypeOK
<1>2. audit'[t] = Append(audit[t], r) /\ \A u \in Tasks \ {t} : audit'[u] = audit[u]
  BY DEF Log, Inv, TypeOK
<1>3. /\ DOMAIN audit'[t] = 1..(k + 1)
      /\ \A i \in 1..k : audit'[t][i] = audit[t][i]
      /\ audit'[t][k + 1].outcome = o
  <2>1. r \in AuditRecord /\ r.outcome = o
    BY DEF AuditRecord
  <2> HIDE DEF r
  <2>2. QED BY <1>1, <1>2, <2>1
<1> HIDE DEF r, k
<1>4. 1..(k + 1) = (1..k) \cup {k + 1} /\ k + 1 \notin 1..k
  BY <1>1
<1>5. Audited(t)' = IF o = "denied" THEN Audited(t) ELSE Audited(t) \cup {k + 1}
  BY <1>1, <1>3, <1>4 DEF Audited
<1>6. k + 1 \notin Audited(t)
  BY <1>1, <1>4 DEF Audited
<1>7. CASE o = "denied"
  <2>1. Audited(t)' = Audited(t) /\ Cardinality(Audited(t)) \in Nat
    BY <1>5, <1>7, BooksTyped
  <2>2. \A u \in Tasks \ {t} : Audited(u)' = Audited(u)
    BY <1>2 DEF Audited
  <2>3. Cardinality(Audited(t)') = Cardinality(Audited(t)) + 0
    BY <2>1
  <2>4. QED BY <1>7, <2>2, <2>3
<1>8. CASE o # "denied"
  <2>1. Cardinality(Audited(t) \cup {k + 1}) = Cardinality(Audited(t)) + 1
    BY <1>6, BooksTyped, FS_AddElement
  <2>2. QED BY <1>2, <1>5, <1>8, <2>1 DEF Audited
<1>9. QED BY <1>7, <1>8

\* A step that is about one task only.
LEMMA OthersBooked ==
  ASSUME \A u \in Tasks : Booked(u), NEW t \in Tasks, Booked(t)',
         \A u \in Tasks \ {t} : /\ attempt'[u] = attempt[u]
                                /\ Audited(u)' = Audited(u)
                                /\ Executing(u)' = Executing(u)
  PROVE  \A u \in Tasks : Booked(u)'
  BY DEF Booked, Begun

\* An attempt begins.
LEMMA AttemptBegun ==
  ASSUME Inv, NEW w \in Workers, NEW j \in Jobs, NEW t, t = j[1], Take(w, j),
         attempt' = [attempt EXCEPT ![t][current[t]] = attempt[t][current[t]] + 1]
  PROVE  /\ Begun(t) \in Nat /\ Begun(t)' = Begun(t) + 1
         /\ \A u \in Tasks \ {t} : attempt'[u] = attempt[u]
<1> DEFINE S == 1..MaxSubmits
           c == current[t]
           f == attempt[t]
<1>1. t \in Tasks /\ c \in S /\ f \in [S -> Nat] /\ attempt \in [Tasks -> [S -> Nat]]
  BY JobsTyped, FetchTyped DEF Inv, TypeOK
<1>2. IsFiniteSet(S)
  BY FS_Interval, AcquisitionAssumption
<1>3. /\ attempt'[t] = [f EXCEPT ![c] = f[c] + 1]
      /\ \A u \in Tasks \ {t} : attempt'[u] = attempt[u]
  BY <1>1
<1> DEFINE e == attempt'[t]
<1>4. Begun(t) = Sum(f, S) /\ Begun(t)' = Sum(e, S)
  BY DEF Begun
<1>5. e = [f EXCEPT ![c] = f[c] + 1]
  BY <1>3
<1> HIDE DEF S, c, f, e
<1>6. Sum(f, S) \in Nat /\ Sum(e, S) = Sum(f, S) + 1
  BY <1>1, <1>2, <1>5, OneTermMore
<1>7. QED BY <1>3, <1>4, <1>6

LEMMA BooksProcess ==
  ASSUME Inv, \A u \in Tasks : Booked(u), NEW w \in Workers, NEW j \in Jobs, Process(w, j)
  PROVE  \A u \in Tasks : Booked(u)'
<1> DEFINE t == j[1]
           n == attempt[t][current[t]]
<1>1. t \in Tasks /\ j # NoJob /\ worker \in [Workers -> WorkerState]
  BY JobsTyped DEF Inv, TypeOK, WorkerState
<1>2. Take(w, j) /\ n \in Nat /\ n + 1 \in Nat
  <2>1. Take(w, j)
    BY DEF Process, Deny, Postpone, Start, RunInline
  <2>2. QED BY <2>1, FetchTyped
<1>3. Booked(t) /\ Cardinality(Audited(t)) \in Nat /\ Cardinality(Executing(t)) \in Nat
      /\ IsFiniteSet(Executing(t))
  BY <1>1, BooksTyped
<1>4. CASE Deny(w, j)
  <2>1. Log(t, "denied", n) /\ UNCHANGED <<attempt, worker>> /\ "denied" \in Terminal
    BY <1>4 DEF Deny, Terminal
  <2> HIDE DEF t, n
  <2>2. /\ Cardinality(Audited(t)') = Cardinality(Audited(t)) + 0
        /\ \A u \in Tasks \ {t} : Audited(u)' = Audited(u)
    BY <1>1, <1>2, <2>1, RecordCounted
  <2>3. \A u \in Tasks : Executing(u)' = Executing(u) /\ Begun(u)' = Begun(u)
    BY <2>1 DEF Executing, Begun
  <2>4. Booked(t)'
    BY <1>1, <1>3, <2>2, <2>3 DEF Booked
  <2>5. QED BY <1>1, <2>1, <2>2, <2>3, <2>4, OthersBooked
<1>5. CASE Postpone(w, j)
  <2>1. UNCHANGED <<attempt, worker, audit>>
    BY <1>5 DEF Postpone
  <2>2. QED BY <2>1 DEF Booked, Begun, Audited, Executing
<1>6. CASE Start(w, j)
  <2>1. /\ attempt' = [attempt EXCEPT ![t][current[t]] = n + 1]
        /\ worker' = [worker EXCEPT ![w] = [job |-> j, object |-> current[t], attempt |-> n + 1]]
        /\ UNCHANGED audit
    BY <1>6 DEF Start
  <2>2. /\ Begun(t) \in Nat /\ Begun(t)' = Begun(t) + 1
        /\ \A u \in Tasks \ {t} : attempt'[u] = attempt[u]
    BY <1>2, <2>1, AttemptBegun
  <2>3. worker[w].job = NoJob /\ worker'[w].job = j
        /\ \A v \in Workers \ {w} : worker'[v] = worker[v]
    BY <1>1, <1>2, <2>1 DEF Take, Idle
  <2>4. /\ Executing(t)' = Executing(t) \cup {w} /\ w \notin Executing(t)
        /\ \A u \in Tasks \ {t} : Executing(u)' = Executing(u)
    BY <1>1, <2>3 DEF Executing
  <2>5. \A u \in Tasks : Audited(u)' = Audited(u)
    BY <2>1 DEF Audited
  <2> HIDE DEF t, n
  <2>6. Cardinality(Executing(t) \cup {w}) = Cardinality(Executing(t)) + 1
    BY <1>3, <2>4, FS_AddElement
  <2>7. Booked(t)'
    BY <1>1, <1>3, <2>2, <2>4, <2>5, <2>6 DEF Booked
  <2>8. QED BY <1>1, <2>2, <2>4, <2>5, <2>7, OthersBooked
<1>7. CASE RunInline(w, j)
  <2>1. /\ attempt' = [attempt EXCEPT ![t][current[t]] = n + 1]
        /\ Log(t, "succeeded", n + 1) /\ UNCHANGED worker
        /\ "succeeded" \in Terminal /\ "succeeded" # "denied"
    BY <1>7 DEF RunInline, Terminal
  <2>2. /\ Begun(t) \in Nat /\ Begun(t)' = Begun(t) + 1
        /\ \A u \in Tasks \ {t} : attempt'[u] = attempt[u]
    BY <1>2, <2>1, AttemptBegun
  <2> HIDE DEF t, n
  <2>3. /\ Cardinality(Audited(t)') = Cardinality(Audited(t)) + 1
        /\ \A u \in Tasks \ {t} : Audited(u)' = Audited(u)
    <3>1. /\ Cardinality(Audited(t)')
               = Cardinality(Audited(t)) + (IF "succeeded" = "denied" THEN 0 ELSE 1)
          /\ \A u \in Tasks \ {t} : Audited(u)' = Audited(u)
      BY <1>1, <1>2, <2>1, RecordCounted
    <3>2. QED BY <2>1, <3>1
  <2>4. \A u \in Tasks : Executing(u)' = Executing(u)
    BY <2>1 DEF Executing
  <2>5. Booked(t)'
    BY <1>1, <1>3, <2>2, <2>3, <2>4 DEF Booked
  <2>6. QED BY <1>1, <2>2, <2>3, <2>4, <2>5, OthersBooked
<1>8. QED BY <1>4, <1>5, <1>6, <1>7 DEF Process

LEMMA BooksFinish ==
  ASSUME Inv, \A u \in Tasks : Booked(u), NEW w \in Workers, Finish(w)
  PROVE  \A u \in Tasks : Booked(u)'
<1>1. PICK o \in {"succeeded", "failed"} : End(w, o)
  BY DEF Finish, Succeed, Fail, Retry, GiveUp
<1>2. o \in Terminal /\ o # "denied"
  BY <1>1 DEF Terminal
<1>3. PICK t \in Tasks : worker[w].job[1] = t /\ worker[w].job \in Jobs
  BY <1>1, <1>2, EndTyped
<1> DEFINE c == worker[w].object
           n == attempt[t][c]
<1>14. worker[w].job # NoJob /\ worker \in [Workers -> WorkerState] /\ Log(t, o, n)
  BY <1>1, <1>3 DEF End, Inv, TypeOK, WorkerState
<1>4. n \in Nat
  <2>1. c \in 0..MaxSubmits /\ c >= 1 /\ MaxSubmits \in Nat
    BY <1>14, AcquisitionAssumption DEF Inv, Grounded, WorkerState
  <2>2. attempt[t] \in [1..MaxSubmits -> Nat]
    BY StateTyped DEF Inv
  <2> HIDE DEF c
  <2>3. c \in 1..MaxSubmits
    BY <2>1
  <2>4. QED BY <2>2, <2>3
<1>5. /\ worker'[w].job = NoJob /\ \A v \in Workers \ {w} : worker'[v] = worker[v]
  BY FinishParts
<1>6. UNCHANGED attempt
  BY DEF Finish, Succeed, Fail, Retry, GiveUp
<1>7. /\ Executing(t)' = Executing(t) \ {w} /\ w \in Executing(t)
      /\ \A u \in Tasks \ {t} : Executing(u)' = Executing(u)
  BY <1>3, <1>5, <1>14 DEF Executing
<1> HIDE DEF n
<1>8. /\ Cardinality(Audited(t)') = Cardinality(Audited(t)) + 1
      /\ \A u \in Tasks \ {t} : Audited(u)' = Audited(u)
  <2>1. /\ Cardinality(Audited(t)')
             = Cardinality(Audited(t)) + (IF o = "denied" THEN 0 ELSE 1)
        /\ \A u \in Tasks \ {t} : Audited(u)' = Audited(u)
    BY <1>2, <1>4, <1>14, RecordCounted
  <2>2. QED BY <1>2, <2>1
<1>9. /\ Cardinality(Audited(t)) \in Nat /\ Cardinality(Executing(t)) \in Nat
      /\ IsFiniteSet(Executing(t)) /\ Booked(t)
  BY <1>3, BooksTyped
<1>10. Cardinality(Executing(t) \ {w}) = Cardinality(Executing(t)) - 1
  BY <1>7, <1>9, FS_RemoveElement
<1>11. Begun(t)' = Begun(t)
  BY <1>6 DEF Begun
<1>12. Booked(t)'
  BY <1>7, <1>8, <1>9, <1>10, <1>11 DEF Booked
<1>13. QED BY <1>3, <1>6, <1>7, <1>8, <1>12, OthersBooked

LEMMA BooksInit == Init => Books
<1> SUFFICES ASSUME Init, NEW t \in Tasks PROVE Booked(t)
  BY DEF Books
<1> DEFINE S == 1..MaxSubmits
           f == attempt[t]
<1>1. Audited(t) = {} /\ Executing(t) = {}
  <2>1. DOMAIN audit[t] = {}
    BY DEF Init
  <2>2. QED BY <2>1 DEF Audited, Executing, Init, Idle
<1>2. IsFiniteSet(S)
  BY FS_Interval, AcquisitionAssumption
<1>3. \A x \in S : f[x] = 0
  BY DEF Init
<1>4. Begun(t) = Sum(f, S)
  BY DEF Begun
<1> HIDE DEF S, f
<1>5. PICK g : Sum(f, S) = g[S] /\ SumsUp(g, f, S)
  BY <1>2, <1>3, SumIs
<1>6. g[S] = 0
  <2> DEFINE z == [T \in SUBSET S |-> 0]
  <2>1. SumsUp(z, f, S)
    BY <1>3 DEF SumsUp
  <2>2. z[S] = 0 /\ S \subseteq S /\ Same(f, f, S)
    BY DEF Same
  <2> HIDE DEF z
  <2>3. Alike(g, z, S)
    BY <1>2, <1>5, <2>1, <2>2, SameSums, Zenon
  <2>4. QED BY <2>2, <2>3 DEF Alike
<1>7. QED BY <1>1, <1>4, <1>5, <1>6, FS_EmptySet DEF Booked

LEMMA BooksStep == Inv /\ Books /\ [Next]_vars => Books'
<1> SUFFICES ASSUME Inv, \A t \in Tasks : Booked(t), [Next]_vars
             PROVE  \A t \in Tasks : Booked(t)'
  BY DEF Books
<1>1. ASSUME UNCHANGED <<attempt, worker, audit>> PROVE \A t \in Tasks : Booked(t)'
  BY <1>1 DEF Booked, Begun, Audited, Executing
<1>2. ASSUME NEW t \in Tasks, SubmitDenied(t) PROVE \A u \in Tasks : Booked(u)'
  <2>1. Log(t, "denied", 0) /\ UNCHANGED <<attempt, worker>> /\ "denied" \in Terminal
    BY <1>2 DEF SubmitDenied, Terminal
  <2>2. /\ Cardinality(Audited(t)') = Cardinality(Audited(t)) + 0
        /\ \A u \in Tasks \ {t} : Audited(u)' = Audited(u)
    BY <2>1, RecordCounted
  <2>3. \A u \in Tasks : Executing(u)' = Executing(u) /\ Begun(u)' = Begun(u)
    BY <2>1 DEF Executing, Begun
  <2>4. Booked(t)'
    BY <2>2, <2>3, BooksTyped DEF Booked
  <2>5. QED BY <2>1, <2>2, <2>3, <2>4, OthersBooked
<1>3. CASE \E s \in Sources, p \in PolicyStatus : UpsertPolicy(s, p)
  BY <1>1, <1>3 DEF UpsertPolicy
<1>4. CASE \E t \in Tasks, delay \in SubmitDelays : SubmitAccepted(t, delay)
  BY <1>1, <1>4 DEF SubmitAccepted
<1>5. CASE PopDue
  BY <1>1, <1>5 DEF PopDue
<1>6. CASE Tick
  BY <1>1, <1>6 DEF Tick
<1>7. CASE UNCHANGED vars
  BY <1>1, <1>7 DEF vars
<1>8. QED
  BY <1>2, <1>3, <1>4, <1>5, <1>6, <1>7, BooksProcess, BooksFinish DEF Next

(***************************************************************************)
(* Every attempt that begins is audited when it ends, however often the    *)
(* task is submitted and although a worker may hold an object the          *)
(* repository has replaced: counted over all objects of a task, attempts   *)
(* begun are attempts audited and attempts under way.                      *)
(***************************************************************************)
THEOREM EveryAttemptAudited == Spec => []AttemptsAudited
<1>1. Spec => []Inv
  BY TypeInit, InvStep, PTL DEF Spec
<1>2. QED BY <1>1, BooksInit, BooksStep, BooksAre, PTL DEF Spec
===============================================================================
