------------------------------ MODULE Acquisition ------------------------------
(***************************************************************************)
(* Task acquisition: TaskScheduler.submit_task, the in-memory queue,       *)
(* TaskWorker.process_task run by several workers, the policy gate both    *)
(* consult and the rate limiter they share.                                *)
(*                                                                         *)
(* process_task is cut where it leaves the process, at the call of the     *)
(* request handler: everything before it is one step, and everything after *)
(* it, for each way it can end, is another.  Submissions, policy changes,  *)
(* other workers and the clock interleave in between.                      *)
(*                                                                         *)
(* A task id is derived from its inputs, so the same work submitted twice  *)
(* has the same id.  Each submission is a new TaskSpec object, which       *)
(* replaces the old one in the repository, and a new queue item; a worker  *)
(* keeps the object it fetched.  Objects and items are numbered by the     *)
(* submission they came from.                                              *)
(***************************************************************************)
EXTENDS DomainLimits, Sequences, FiniteSets, FiniteSetsExt

CONSTANTS
  Tasks,         \* task ids
  Sources,       \* the sources policies are about
  Workers,       \* the threads that run process_task
  SourceOf, DomainOf, TypeOf,  \* the fields of each task
  MaxAttempts,   \* max_attempts
  MaxSubmits,    \* bound: how often one task id is submitted
  Malformed,     \* tasks that may be submitted with a bad payload or no policy_id
  SubmitDelays,  \* how far ahead of now a caller may schedule a task
  NoJob,         \* what an idle worker processes
  NoDomain       \* whose slot an idle worker holds

PolicyStatus == {"crawl_allowed", "manual_only", "partner_required", "unknown"}
TaskType == {"SearchTask", "MapTask", "CrawlTask", "ScrapeTask", "ImportTask"}
FirecrawlTasks == {"CrawlTask", "ScrapeTask"}

ASSUME AcquisitionAssumption ==
  /\ SourceOf \in [Tasks -> Sources]
  /\ DomainOf \in [Tasks -> Domains]
  /\ TypeOf \in [Tasks -> TaskType]
  /\ MaxAttempts \in Nat \ {0}
  /\ MaxSubmits \in Nat \ {0}
  /\ Malformed \subseteq Tasks
  /\ SubmitDelays \subseteq Nat
  /\ IsFiniteSet(Workers)
  /\ NoJob \notin Tasks \X (1..MaxSubmits)
  /\ NoDomain \notin Domains

VARIABLES
  policy,   \* PolicyRepository: the status of each source
  limiter,  \* the DomainState of every domain
  current,  \* how often each task was submitted: the object in the repository
  attempt,  \* attempt[t][n]: the attempt counter of the n-th object of t
  status,   \* the status of the object in the repository
  queue,    \* time until each queued item is due, NotQueued for the others
  batch,    \* items pop_due returned that no worker has taken yet
  worker,   \* what each worker is executing
  audit     \* the audit records of each task
vars == <<policy, limiter, current, attempt, status, queue, batch, worker, audit>>

Jobs == Tasks \X (1..MaxSubmits)
NotQueued == -1
Terminal == {"succeeded", "failed", "denied"}
TaskStatus == {"absent", "queued", "running"} \cup Terminal
Idle == [job |-> NoJob, object |-> 0, attempt |-> 0]
AuditRecord == [outcome: Terminal, attempt: Nat]

(***************************************************************************)
(* Every field has its type; in particular the object a worker kept and the*)
(* numbers in the audit trail are numbers of real submissions and attempts.*)
(***************************************************************************)
TypeOK ==
  /\ policy \in [Sources -> PolicyStatus]
  /\ limiter \in [Domains -> DomainState]
  /\ current \in [Tasks -> 0..MaxSubmits]
  /\ attempt \in [Tasks -> [1..MaxSubmits -> Nat]]
  /\ status \in [Tasks -> TaskStatus]
  /\ queue \in [Jobs -> Nat \cup {NotQueued}]
  /\ batch \subseteq Jobs
  /\ worker \in [Workers -> [job: Jobs \cup {NoJob}, object: 0..MaxSubmits,
                             attempt: Nat]]
  /\ audit \in [Tasks -> Seq(AuditRecord)]

\* No source has a policy record yet, which the gate reads as "unknown".
Init ==
  /\ policy = [s \in Sources |-> "unknown"]
  /\ limiter = [d \in Domains |-> NewDomainState]
  /\ current = [t \in Tasks |-> 0]
  /\ attempt = [t \in Tasks |-> [n \in 1..MaxSubmits |-> 0]]
  /\ status = [t \in Tasks |-> "absent"]
  /\ queue = [j \in Jobs |-> NotQueued]
  /\ batch = {}
  /\ worker = [w \in Workers |-> Idle]
  /\ audit = [t \in Tasks |-> <<>>]

-------------------------------------------------------------------------------
\* The policy gate.
AllowedOperations(s) ==
  CASE s = "crawl_allowed" -> TaskType
    [] s = "manual_only" -> {"ImportTask"}
    [] OTHER -> {}

Allowed(t) == TypeOf[t] \in AllowedOperations(policy[SourceOf[t]])

UpsertPolicy(s, p) ==
  /\ policy' = [policy EXCEPT ![s] = p]
  /\ UNCHANGED <<limiter, current, attempt, status, queue, batch, worker, audit>>

-------------------------------------------------------------------------------
\* The scheduler.

Log(t, outcome, n) ==
  audit' = [audit EXCEPT ![t] = Append(@, [outcome |-> outcome, attempt |-> n])]

\* submit_task of a well-formed task its source's policy allows.
SubmitAccepted(t, delay) ==
  LET d == DomainOf[t]
      s == Refreshed(d, limiter[d])
      n == current[t] + 1
  IN  /\ n <= MaxSubmits
      /\ Allowed(t)
      /\ limiter' = [limiter EXCEPT ![d] = s]
      /\ current' = [current EXCEPT ![t] = n]
      /\ status' = [status EXCEPT ![t] = "queued"]
      /\ queue' = [queue EXCEPT ![<<t, n>>] = Later(delay, WaitFor(d, s))]
      /\ UNCHANGED <<policy, attempt, batch, worker, audit>>

\* submit_task of a malformed task, or against the policy: the object is
\* stored as denied, and items queued earlier stay where they are.
SubmitDenied(t) ==
  LET n == current[t] + 1
  IN  /\ n <= MaxSubmits
      /\ t \in Malformed \/ ~Allowed(t)
      /\ current' = [current EXCEPT ![t] = n]
      /\ status' = [status EXCEPT ![t] = "denied"]
      /\ Log(t, "denied", 0)
      /\ UNCHANGED <<policy, limiter, attempt, queue, batch, worker>>

-------------------------------------------------------------------------------
\* The queue.

Due == {j \in Jobs : queue[j] = 0}

PopDue ==
  /\ Due # {}
  /\ batch' = batch \cup Due
  /\ queue' = [j \in Jobs |-> IF j \in Due THEN NotQueued ELSE queue[j]]
  /\ UNCHANGED <<policy, limiter, current, attempt, status, worker, audit>>

-------------------------------------------------------------------------------
\* The workers: process_task up to the request handler.

Take(w, j) ==
  /\ worker[w] = Idle
  /\ j \in batch
  /\ batch' = batch \ {j}

\* Mutant: the task keeps the status it has.
EnqueueOnly(j, delay) ==
  /\ queue' = [queue EXCEPT ![j] = delay]
  /\ UNCHANGED status

\* Mutant: the status says queued, but no item is.
EnqueueStatusOnly(j, delay) ==
  /\ UNCHANGED queue
  /\ status' = [status EXCEPT ![j[1]] = "queued"]

\* _enqueue_with_delay: the status goes to the object in the repository.
EnqueueWithDelay(j, delay) ==
  /\ queue' = [queue EXCEPT ![j] = delay]
  /\ status' = [status EXCEPT ![j[1]] = "queued"]

\* The policy no longer allows the task.
Deny(w, j) ==
  LET t == j[1]
  IN  /\ Take(w, j)
      /\ ~Allowed(t)
      /\ status' = [status EXCEPT ![t] = "denied"]
      /\ Log(t, "denied", attempt[t][current[t]])
      /\ UNCHANGED <<policy, limiter, current, attempt, queue, worker>>

\* The rate limiter refuses: back to the queue until it expects to agree.
Postpone(w, j) ==
  LET t == j[1]
      d == DomainOf[t]
      s == Refreshed(d, limiter[d])
  IN  /\ Take(w, j)
      /\ Allowed(t)
      /\ ~CanAcquire(d, s)
      /\ limiter' = [limiter EXCEPT ![d] = s]
      /\ EnqueueWithDelay(j, WaitFor(d, s))
      /\ UNCHANGED <<policy, current, attempt, worker, audit>>

\* Mutant: the policy was checked at submission, and is not again.
StartUnchecked(w, j) ==
  LET t == j[1]
      d == DomainOf[t]
      s == Refreshed(d, limiter[d])
      n == attempt[t][current[t]] + 1
  IN  /\ Take(w, j)
      /\ CanAcquire(d, s)
      /\ TypeOf[t] \in FirecrawlTasks
      /\ limiter' = [limiter EXCEPT ![d] = Admitted(d, s)]
      /\ status' = [status EXCEPT ![t] = "running"]
      /\ attempt' = [attempt EXCEPT ![t][current[t]] = n]
      /\ worker' = [worker EXCEPT ![w] =
                      [job |-> j, object |-> current[t], attempt |-> n]]
      /\ UNCHANGED <<policy, current, queue, audit>>

\* The attempt begins and the handler is called.
Start(w, j) ==
  LET t == j[1]
      d == DomainOf[t]
      s == Refreshed(d, limiter[d])
      n == attempt[t][current[t]] + 1
  IN  /\ Take(w, j)
      /\ Allowed(t)
      /\ CanAcquire(d, s)
      /\ TypeOf[t] \in FirecrawlTasks
      /\ limiter' = [limiter EXCEPT ![d] = Admitted(d, s)]
      /\ status' = [status EXCEPT ![t] = "running"]
      /\ attempt' = [attempt EXCEPT ![t][current[t]] = n]
      /\ worker' = [worker EXCEPT ![w] =
                      [job |-> j, object |-> current[t], attempt |-> n]]
      /\ UNCHANGED <<policy, current, queue, audit>>

\* The other task types have no handler and succeed on the spot.
RunInline(w, j) ==
  LET t == j[1]
      d == DomainOf[t]
      s == Refreshed(d, limiter[d])
      n == attempt[t][current[t]] + 1
  IN  /\ Take(w, j)
      /\ Allowed(t)
      /\ CanAcquire(d, s)
      /\ TypeOf[t] \notin FirecrawlTasks
      /\ limiter' = [limiter EXCEPT ![d] = Released(Admitted(d, s), TRUE)]
      /\ status' = [status EXCEPT ![t] = "succeeded"]
      /\ attempt' = [attempt EXCEPT ![t][current[t]] = n]
      /\ Log(t, "succeeded", n)
      /\ UNCHANGED <<policy, current, queue, worker>>

-------------------------------------------------------------------------------
\* The workers: process_task from the return of the handler on.

\* The record carries the attempt counter of the object the worker kept.
End(w, outcome) ==
  LET t == worker[w].job[1]
  IN  /\ worker[w].job # NoJob
      /\ worker' = [worker EXCEPT ![w] = Idle]
      /\ Log(t, outcome, attempt[t][worker[w].object])

SetLimiter(d, s) == limiter' = [limiter EXCEPT ![d] = s]

Succeed(w) ==
  LET t == worker[w].job[1]
      d == DomainOf[t]
  IN  /\ End(w, "succeeded")
      /\ SetLimiter(d, Released(limiter[d], TRUE))
      /\ status' = [status EXCEPT ![t] = "succeeded"]
      /\ UNCHANGED <<policy, current, attempt, queue, batch>>

\* Mutant: an exception leaves the slot taken.
FailKeepingSlot(w) ==
  LET t == worker[w].job[1]
  IN  /\ End(w, "failed")
      /\ status' = [status EXCEPT ![t] = "failed"]
      /\ UNCHANGED <<policy, limiter, current, attempt, queue, batch>>

\* AdapterValidationError, or an exception the worker does not know.
Fail(w) ==
  LET t == worker[w].job[1]
      d == DomainOf[t]
  IN  /\ End(w, "failed")
      /\ SetLimiter(d, Released(limiter[d], FALSE))
      /\ status' = [status EXCEPT ![t] = "failed"]
      /\ UNCHANGED <<policy, current, attempt, queue, batch>>

\* Mutant: an attempt that will be retried is not audited.
RetryUnaudited(w) ==
  LET j == worker[w].job
      d == DomainOf[j[1]]
      s == Errored(d, limiter[d])
  IN  /\ worker[w].job # NoJob
      /\ worker[w].attempt < MaxAttempts
      /\ worker' = [worker EXCEPT ![w] = Idle]
      /\ SetLimiter(d, Released(s, FALSE))
      /\ EnqueueWithDelay(j, s.cooldownLeft)
      /\ UNCHANGED <<policy, current, attempt, batch, audit>>

\* Mutant: one attempt too many.
RetryOnceMore(w) ==
  LET j == worker[w].job
      d == DomainOf[j[1]]
      s == Errored(d, limiter[d])
  IN  /\ End(w, "failed")
      /\ worker[w].attempt <= MaxAttempts
      /\ SetLimiter(d, Released(s, FALSE))
      /\ EnqueueWithDelay(j, s.cooldownLeft)
      /\ UNCHANGED <<policy, current, attempt, batch>>

\* UpstreamRateLimitError or TransientNetworkError, with attempts left ...
Retry(w) ==
  LET j == worker[w].job
      d == DomainOf[j[1]]
      s == Errored(d, limiter[d])
  IN  /\ End(w, "failed")
      /\ worker[w].attempt < MaxAttempts
      /\ SetLimiter(d, Released(s, FALSE))
      /\ EnqueueWithDelay(j, s.cooldownLeft)
      /\ UNCHANGED <<policy, current, attempt, batch>>

\* ... and with none left.
GiveUp(w) ==
  LET t == worker[w].job[1]
      d == DomainOf[t]
  IN  /\ End(w, "failed")
      /\ worker[w].attempt >= MaxAttempts
      /\ SetLimiter(d, Released(Errored(d, limiter[d]), FALSE))
      /\ status' = [status EXCEPT ![t] = "failed"]
      /\ UNCHANGED <<policy, current, attempt, queue, batch>>

-------------------------------------------------------------------------------
Tick ==
  /\ limiter' = [d \in Domains |-> Elapsed(limiter[d])]
  /\ queue' = [j \in Jobs |-> IF queue[j] > 0 THEN queue[j] - 1 ELSE queue[j]]
  /\ UNCHANGED <<policy, current, attempt, status, batch, worker, audit>>

Process(w, j) == Deny(w, j) \/ Postpone(w, j) \/ Start(w, j) \/ RunInline(w, j)
Finish(w) == Succeed(w) \/ Fail(w) \/ Retry(w) \/ GiveUp(w)

Next ==
  \/ \E s \in Sources, p \in PolicyStatus : UpsertPolicy(s, p)
  \/ \E t \in Tasks :
       \/ \E delay \in SubmitDelays : SubmitAccepted(t, delay)
       \/ SubmitDenied(t)
  \/ PopDue
  \/ \E w \in Workers, j \in Jobs : Process(w, j)
  \/ \E w \in Workers : Finish(w)
  \/ Tick

Spec == Init /\ [][Next]_vars

\* Time passes, due items are popped, every popped item is given to a worker,
\* and every call of the handler returns or raises.
Fairness ==
  /\ WF_vars(Tick)
  /\ WF_vars(PopDue)
  /\ \A j \in Jobs : WF_vars(\E w \in Workers : Process(w, j))
  /\ \A w \in Workers : WF_vars(Finish(w))

FairSpec == Spec /\ Fairness

-------------------------------------------------------------------------------
(***************************************************************************)
(* Properties.                                                             *)
(***************************************************************************)

Executing(t) == {w \in Workers : worker[w].job # NoJob /\ worker[w].job[1] = t}
Pending(t) == {j \in Jobs : j[1] = t /\ (queue[j] # NotQueued \/ j \in batch)}

(***************************************************************************)
(* No task is lost: while the repository says queued, an item for it is    *)
(* waiting, and while it says running, a worker is at it.  This survives   *)
(* resubmission, where two workers can write the status of one object.     *)
(***************************************************************************)
NoTaskLost ==
  \A t \in Tasks :
    /\ status[t] = "queued" => Pending(t) # {}
    /\ status[t] = "running" => Executing(t) # {}

(***************************************************************************)
(* A task submitted once is in exactly one place, and its status names it: *)
(* one item, or one worker, or (once over) nothing that could revive it.   *)
(***************************************************************************)
StatusTruthful ==
  \A t \in Tasks : current[t] <= 1 =>
    /\ Pending(t) # {} <=> status[t] = "queued"
    /\ Executing(t) # {} <=> status[t] = "running"
    /\ Cardinality(Executing(t)) <= 1

Audited(t) == {i \in DOMAIN audit[t] : audit[t][i].outcome # "denied"}

(***************************************************************************)
(* "Audit logging is required for every attempt"                           *)
(* (architecture_tasks_queue.md): counted over all objects of a task, the  *)
(* attempts begun are those audited and those still under way.             *)
(***************************************************************************)
AttemptsAudited ==
  \A t \in Tasks :
    MapThenSumSet(LAMBDA n : attempt[t][n], 1..MaxSubmits)
      = Cardinality(Audited(t)) + Cardinality(Executing(t))

(***************************************************************************)
(* For a task submitted once the audit trail IS its history: attempts 1,   *)
(* 2, ... in order, all but the last of them failed, none after a denial,  *)
(* and the last record says what the status says.                          *)
(***************************************************************************)
AuditTellsHistory ==
  \A t \in Tasks : current[t] <= 1 =>
    LET log == audit[t]
        n == Len(log)
    IN  /\ \A i \in 1..n :
             IF log[i].outcome = "denied"
             THEN i = n /\ log[i].attempt = i - 1
             ELSE log[i].attempt = i /\ i <= MaxAttempts
        /\ \A i \in 1..(n - 1) : log[i].outcome = "failed"
        /\ status[t] \in Terminal => n > 0 /\ log[n].outcome = status[t]

(***************************************************************************)
(* An attempt at a task, of any kind, begins only while its source's       *)
(* policy allows it, whatever the policy was at submission or at an        *)
(* earlier attempt (T2-POL-004, T2-MAN-003).                               *)
(***************************************************************************)
AttemptNeedsPolicy ==
  [][\A t \in Tasks : attempt'[t] # attempt[t] => Allowed(t)]_vars

\* The refinement mapping: a worker holds a slot while it executes a task.
HeldDomain ==
  [w \in Workers |-> IF worker[w].job = NoJob THEN NoDomain
                     ELSE DomainOf[worker[w].job[1]]]

RL == INSTANCE RateLimiter WITH Callers <- Workers, holding <- HeldDomain

(***************************************************************************)
(* The workers and the scheduler use the rate limiter as RateLimiter says, *)
(* slot for slot ...                                                       *)
(***************************************************************************)
LimiterUsedAsSpecified == RL!RLSpec

(***************************************************************************)
(* ... so no slot leaks on any of the six ways process_task can end, and   *)
(* "active workers never exceed domain cap" (T2-RATE-001).                 *)
(***************************************************************************)
SlotsAccounted == RL!SlotsExact /\ RL!WithinLimits

\* The refinement mapping: the status, and the attempts of the one object.
Lifecycle ==
  INSTANCE TaskLifecycle WITH
    state <- status, tries <- [t \in Tasks |-> attempt[t][1]]

(***************************************************************************)
(* A client that submits every task once is shown a TaskLifecycle.         *)
(***************************************************************************)
LifecycleKept == Lifecycle!TLSpec

(***************************************************************************)
(* Every accepted task is settled: the cap-blocked items that are queued   *)
(* again for "now", the pauses, the windows and the other tasks can delay  *)
(* it but not for ever.                                                    *)
(***************************************************************************)
EventuallySettled ==
  \A t \in Tasks : status[t] \in {"queued", "running"} ~> status[t] \in Terminal
===============================================================================
