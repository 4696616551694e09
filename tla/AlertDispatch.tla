----------------------------- MODULE AlertDispatch -----------------------------
(***************************************************************************)
(* AlertService.dispatch over AlertRepository, called by several request   *)
(* threads of the alerts API at once.                                      *)
(*                                                                         *)
(* For each alert it is given, dispatch reserves an attempt, hands the     *)
(* alert to the channel's adapter and records the result.  The adapter     *)
(* does I/O, so a thread is interleaved with the others before and after   *)
(* the send; the repository methods are one step each.  Everything is kept *)
(* in memory, so a restart of the process forgets it.                      *)
(***************************************************************************)
EXTENDS Integers, Sequences, FiniteSets

CONSTANTS
  Alerts,       \* alert ids, derived from (search spec, listing change)
  Channels,     \* "local", "smtp"
  Threads,      \* request threads
  MaxAttempts,  \* max_attempts
  MaxRestarts,  \* bound: restarts of the process
  NoKey         \* what an idle thread works on

Keys == Alerts \X Channels   \* idempotency_key

ASSUME DispatchAssumption ==
  /\ MaxAttempts \in Nat \ {0}
  /\ MaxRestarts \in Nat
  /\ NoKey \notin Keys
  /\ IsFiniteSet(Threads)

VARIABLES
  alerts,     \* the alerts in the repository
  dispatch,   \* DispatchState of each key
  log,        \* the dispatch log, key by key
  thread,     \* where each thread is, and the reservation it holds
  delivered,  \* how often the receiver of each key was notified
  restarts
vars == <<alerts, dispatch, log, thread, delivered, restarts>>

Result == {"success", "retryable", "permanent"}
FinalStatus == {"succeeded", "retrying", "failed"}
DispatchState == [attempts: Nat, succeeded: BOOLEAN, terminal: BOOLEAN]
LogEntry == [status: FinalStatus \cup {"pending"}, attempt: Nat]
ThreadState ==
  [at: {"idle", "sending", "sent"}, key: Keys \cup {NoKey}, attempt: Nat,
   result: Result \cup {"none"}]

(***************************************************************************)
(* Every field has its type; in particular only the statuses the log may   *)
(* hold are ever recorded.                                                 *)
(***************************************************************************)
TypeOK ==
  /\ alerts \subseteq Alerts
  /\ dispatch \in [Keys -> DispatchState]
  /\ log \in [Keys -> Seq(LogEntry)]
  /\ thread \in [Threads -> ThreadState]
  /\ delivered \in [Keys -> Nat]
  /\ restarts \in 0..MaxRestarts

NewState == [attempts |-> 0, succeeded |-> FALSE, terminal |-> FALSE]
IdleThread == [at |-> "idle", key |-> NoKey, attempt |-> 0, result |-> "none"]

Init ==
  /\ alerts = {}
  /\ dispatch = [k \in Keys |-> NewState]
  /\ log = [k \in Keys |-> <<>>]
  /\ thread = [t \in Threads |-> IdleThread]
  /\ delivered = [k \in Keys |-> 0]
  /\ restarts = 0

-------------------------------------------------------------------------------
\* add: an alert already there is left alone.
Add(a) ==
  /\ alerts' = alerts \cup {a}
  /\ UNCHANGED <<dispatch, log, thread, delivered, restarts>>

\* Mutant: a failure for good does not count.
ReservableAgain(k) ==
  /\ ~dispatch[k].succeeded
  /\ dispatch[k].attempts < MaxAttempts

\* Mutant: nothing bounds the attempts.
ReservableForever(k) == ~dispatch[k].succeeded /\ ~dispatch[k].terminal

Reservable(k) ==
  /\ ~dispatch[k].succeeded
  /\ ~dispatch[k].terminal
  /\ dispatch[k].attempts < MaxAttempts

Record(k, s, n) ==
  log' = [log EXCEPT ![k] = Append(@, [status |-> s, attempt |-> n])]

\* Mutant: the log is written after the send only.
ReserveUnlogged(t, k) ==
  LET n == dispatch[k].attempts + 1
  IN  /\ thread[t].at = "idle"
      /\ k[1] \in alerts
      /\ Reservable(k)
      /\ dispatch' = [dispatch EXCEPT ![k].attempts = n]
      /\ thread' = [thread EXCEPT ![t] =
           [at |-> "sending", key |-> k, attempt |-> n, result |-> "none"]]
      /\ UNCHANGED <<alerts, log, delivered, restarts>>

\* reserve_dispatch.  An unknown alert or a key that cannot be reserved is
\* skipped, which changes nothing.
Reserve(t, k) ==
  LET n == dispatch[k].attempts + 1
  IN  /\ thread[t].at = "idle"
      /\ k[1] \in alerts
      /\ Reservable(k)
      /\ dispatch' = [dispatch EXCEPT ![k].attempts = n]
      /\ Record(k, "pending", n)
      /\ thread' = [thread EXCEPT ![t] =
           [at |-> "sending", key |-> k, attempt |-> n, result |-> "none"]]
      /\ UNCHANGED <<alerts, delivered, restarts>>

\* _send_alert: the adapter delivers, or fails in a way worth retrying (as it
\* does when no adapter is configured), or fails for good.
Send(t, r) ==
  /\ thread[t].at = "sending"
  /\ thread' = [thread EXCEPT ![t].at = "sent", ![t].result = r]
  /\ delivered' = IF r = "success"
                  THEN [delivered EXCEPT ![thread[t].key] = @ + 1]
                  ELSE delivered
  /\ UNCHANGED <<alerts, dispatch, log, restarts>>

\* Mutant: the last attempt counts as one that will be retried.
StatusOneMore(r, n) ==
  CASE r = "success" -> "succeeded"
    [] r = "retryable" /\ n <= MaxAttempts -> "retrying"
    [] OTHER -> "failed"

StatusForResult(r, n) ==
  CASE r = "success" -> "succeeded"
    [] r = "retryable" /\ n < MaxAttempts -> "retrying"
    [] OTHER -> "failed"

\* Mutant: only a success is logged.
RecordSuccess(t) ==
  LET k == thread[t].key
      s == StatusForResult(thread[t].result, thread[t].attempt)
  IN  /\ thread[t].at = "sent"
      /\ dispatch' = [dispatch EXCEPT
           ![k].succeeded = @ \/ s = "succeeded",
           ![k].terminal = @ \/ s = "failed"]
      /\ IF s = "succeeded" THEN Record(k, s, thread[t].attempt)
         ELSE UNCHANGED log
      /\ thread' = [thread EXCEPT ![t] = IdleThread]
      /\ UNCHANGED <<alerts, delivered, restarts>>

\* record_dispatch_result.
RecordResult(t) ==
  LET k == thread[t].key
      s == StatusForResult(thread[t].result, thread[t].attempt)
  IN  /\ thread[t].at = "sent"
      /\ dispatch' = [dispatch EXCEPT
           ![k].succeeded = @ \/ s = "succeeded",
           ![k].terminal = @ \/ s = "failed"]
      /\ Record(k, s, thread[t].attempt)
      /\ thread' = [thread EXCEPT ![t] = IdleThread]
      /\ UNCHANGED <<alerts, delivered, restarts>>

Restart ==
  /\ restarts < MaxRestarts
  /\ restarts' = restarts + 1
  /\ alerts' = {}
  /\ dispatch' = [k \in Keys |-> NewState]
  /\ log' = [k \in Keys |-> <<>>]
  /\ thread' = [t \in Threads |-> IdleThread]
  /\ UNCHANGED delivered

Next ==
  \/ \E a \in Alerts : Add(a)
  \/ \E t \in Threads :
       \/ \E k \in Keys : Reserve(t, k)
       \/ \E r \in Result : Send(t, r)
       \/ RecordResult(t)
  \/ Restart

Spec == Init /\ [][Next]_vars

\* A thread that holds a reservation runs on: the adapter returns or raises.
Fairness ==
  \A t \in Threads : WF_vars((\E r \in Result : Send(t, r)) \/ RecordResult(t))

FairSpec == Spec /\ Fairness

-------------------------------------------------------------------------------
Sending(k) == {t \in Threads : thread[t].key = k}
Attempted(n) == [status |-> "pending", attempt |-> n]

PendingAt(k, n) == {i \in DOMAIN log[k] : log[k][i] = Attempted(n)}
ResultsAt(k, n) ==
  {i \in DOMAIN log[k] : log[k][i].status # "pending" /\ log[k][i].attempt = n}

(***************************************************************************)
(* "A log entry is written before send attempt; retries append new         *)
(* entries" (phase_tests_phase7.md), whatever the threads do: the pending  *)
(* entries of a key are numbered 1, 2, ... without gap or repetition, a    *)
(* result comes after the pending entry of its attempt, and each attempt   *)
(* has either one result in the log or one thread still at it.             *)
(***************************************************************************)
LogTellsHistory ==
  \A k \in Keys :
    /\ \A i \in DOMAIN log[k] : log[k][i].attempt \in 1..dispatch[k].attempts
    /\ \A n \in 1..dispatch[k].attempts :
         /\ Cardinality(PendingAt(k, n)) = 1
         /\ Cardinality(ResultsAt(k, n))
              + Cardinality({t \in Sending(k) : thread[t].attempt = n}) = 1
         /\ \A i \in PendingAt(k, n), j \in ResultsAt(k, n) : i < j

(***************************************************************************)
(* A key that has used up its attempts never hangs between the states:     *)
(* once no thread is at it, it has succeeded or failed for good.           *)
(***************************************************************************)
ExhaustedIsSettled ==
  \A k \in Keys :
    dispatch[k].attempts >= MaxAttempts /\ Sending(k) = {}
      => dispatch[k].succeeded \/ dispatch[k].terminal

(***************************************************************************)
(* The budget of attempts bounds what a receiver can see, however the      *)
(* calls of dispatch overlap: one budget of notifications for every life   *)
(* of the process.                                                         *)
(***************************************************************************)
DeliveriesBounded ==
  \A k \in Keys : delivered[k] <= MaxAttempts * (restarts + 1)

(***************************************************************************)
(* "Permanent errors are not retried" and a success is not repeated: once  *)
(* either is on record, no further attempt at that key begins.             *)
(***************************************************************************)
SettledIsFinal ==
  [][\A k \in Keys :
       (dispatch[k].succeeded \/ dispatch[k].terminal) /\ restarts' = restarts
         => /\ dispatch'[k].attempts = dispatch[k].attempts
            /\ dispatch[k].succeeded => dispatch'[k].succeeded
            /\ dispatch[k].terminal => dispatch'[k].terminal]_vars

(***************************************************************************)
(* "Each ListingChange emits at most one dispatch per SearchSpec and       *)
(* channel" (phase_tests_phase7.md).  A second reservation is granted      *)
(* while the first is being sent, and none is remembered by a restart.     *)
(***************************************************************************)
AtMostOneDelivery == \A k \in Keys : delivered[k] <= 1

Answered(k, n) == \E i \in DOMAIN log[k] :
                     log[k][i].status # "pending" /\ log[k][i].attempt = n

(***************************************************************************)
(* Every pending entry of the log gets its result, unless a restart        *)
(* forgets it.                                                             *)
(***************************************************************************)
ReservationsAnswered ==
  \A k \in Keys, n \in 1..MaxAttempts :
    dispatch[k].attempts >= n ~> Answered(k, n) \/ dispatch[k].attempts < n
===============================================================================
