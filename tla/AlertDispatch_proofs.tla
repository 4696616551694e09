------------------------- MODULE AlertDispatch_proofs --------------------------
(***************************************************************************)
(* Alert dispatch with any number of alerts, channels, threads, attempts   *)
(* and restarts.                                                           *)
(***************************************************************************)
EXTENDS AlertDispatch, FiniteSetTheorems, TLAPS

\* The places a thread can be in agree with what it holds.
ThreadsSane ==
  \A t \in Threads :
    /\ thread[t].at = "idle" <=> thread[t].key = NoKey
    /\ thread[t].at = "sent" => thread[t].result \in Result
    /\ thread[t].at # "idle" => thread[t].attempt \in 1..MaxAttempts

Inv == TypeOK /\ ThreadsSane

LEMMA StateTyped ==
  ASSUME Inv
  PROVE  /\ \A k \in Keys : /\ dispatch[k] \in DispatchState
                            /\ dispatch[k].attempts \in Nat
                            /\ dispatch[k].succeeded \in BOOLEAN
                            /\ dispatch[k].terminal \in BOOLEAN
                            /\ log[k] \in Seq(LogEntry)
                            /\ delivered[k] \in Nat
         /\ \A t \in Threads : /\ thread[t] \in ThreadState
                               /\ thread[t].at # "idle" => thread[t].key \in Keys
         /\ MaxAttempts \in Nat \ {0}
  BY DispatchAssumption
     DEF Inv, TypeOK, ThreadsSane, DispatchState, ThreadState

LEMMA RecordTyped ==
  ASSUME Inv, NEW k \in Keys, NEW s \in FinalStatus \cup {"pending"}, NEW n \in Nat,
         Record(k, s, n)
  PROVE  log' \in [Keys -> Seq(LogEntry)]
<1> DEFINE e == [status |-> s, attempt |-> n]
<1>1. e \in LogEntry
  BY DEF LogEntry
<1> HIDE DEF e
<1>2. Append(log[k], e) \in Seq(LogEntry)
  BY <1>1, StateTyped
<1>3. log' = [log EXCEPT ![k] = Append(log[k], e)]
  BY DEF Record, e
<1>4. QED BY <1>2, <1>3 DEF Inv, TypeOK

LEMMA TypeInit == Init => Inv
<1> SUFFICES ASSUME Init PROVE Inv
  OBVIOUS
<1>1. NewState \in DispatchState /\ IdleThread \in ThreadState
  BY DEF NewState, DispatchState, IdleThread, ThreadState
<1>2. TypeOK
  BY <1>1, DispatchAssumption DEF Init, TypeOK
<1>3. ThreadsSane
  BY DEF Init, ThreadsSane, IdleThread
<1>4. QED BY <1>2, <1>3 DEF Inv

LEMMA ReserveStep ==
  ASSUME Inv, NEW t \in Threads, NEW k \in Keys, Reserve(t, k)
  PROVE  /\ Inv'
         /\ dispatch' = [dispatch EXCEPT ![k].attempts = @ + 1]
         /\ thread'[t].key = k /\ thread'[t].at = "sending"
         /\ thread'[t].attempt = dispatch[k].attempts + 1
         /\ thread'[t].attempt <= MaxAttempts
         /\ \A u \in Threads \ {t} : thread'[u] = thread[u]
<1> DEFINE n == dispatch[k].attempts + 1
           r == [at |-> "sending", key |-> k, attempt |-> n, result |-> "none"]
           s == [dispatch[k] EXCEPT !.attempts = n]
<1>1. /\ n \in Nat /\ n >= 1 /\ n <= MaxAttempts
      /\ dispatch[k].attempts \in Nat /\ MaxAttempts \in Nat
  BY StateTyped DEF Reserve, Reservable
<1>2. r \in ThreadState /\ k # NoKey
  BY <1>1, DispatchAssumption DEF ThreadState
<1>3. s \in DispatchState
  BY <1>1, StateTyped DEF DispatchState
<1>4. /\ dispatch' = [dispatch EXCEPT ![k] = s]
      /\ dispatch' = [dispatch EXCEPT ![k].attempts = @ + 1]
      /\ thread' = [thread EXCEPT ![t] = r]
      /\ Record(k, "pending", n)
      /\ UNCHANGED <<alerts, delivered, restarts>>
  BY DEF Reserve
<1>5. r.key = k /\ r.at = "sending" /\ r.attempt = n
  OBVIOUS
<1> HIDE DEF r, s
<1>6. log' \in [Keys -> Seq(LogEntry)]
  BY <1>1, <1>4, RecordTyped
<1>7. /\ thread'[t] = r
      /\ \A u \in Threads \ {t} : thread'[u] = thread[u]
      /\ thread' \in [Threads -> ThreadState]
  BY <1>2, <1>4 DEF Inv, TypeOK
<1>8. TypeOK'
  BY <1>3, <1>4, <1>6, <1>7 DEF Inv, TypeOK
<1>9. ThreadsSane'
  BY <1>1, <1>2, <1>5, <1>7 DEF Inv, ThreadsSane
<1>10. QED BY <1>1, <1>4, <1>5, <1>7, <1>8, <1>9 DEF Inv

LEMMA SendStep ==
  ASSUME Inv, NEW t \in Threads, NEW r \in Result, Send(t, r)
  PROVE  /\ Inv'
         /\ UNCHANGED <<alerts, dispatch, log, restarts>>
         /\ \A u \in Threads : /\ thread'[u].key = thread[u].key
                               /\ thread'[u].attempt = thread[u].attempt
         /\ thread'[t].at = "sent"
<1> DEFINE s == [thread[t] EXCEPT !.at = "sent", !.result = r]
           k == thread[t].key
<1>1. k \in Keys /\ thread[t] \in ThreadState /\ thread[t].at # "idle"
  BY StateTyped DEF Send
<1>2. s \in ThreadState /\ s.at = "sent" /\ s.result = r
      /\ s.key = k /\ s.attempt = thread[t].attempt
  BY <1>1 DEF ThreadState
<1>3. thread' = [thread EXCEPT ![t] = s]
  BY DEF Send
<1> HIDE DEF s, k
<1>4. /\ thread'[t] = s
      /\ \A u \in Threads \ {t} : thread'[u] = thread[u]
      /\ thread' \in [Threads -> ThreadState]
  BY <1>2, <1>3 DEF Inv, TypeOK
<1>5. delivered' \in [Keys -> Nat]
  BY <1>1, StateTyped DEF Send, Inv, TypeOK, k
<1>6. TypeOK'
  BY <1>4, <1>5 DEF Send, Inv, TypeOK
<1>7. ThreadsSane'
  BY <1>1, <1>2, <1>4 DEF Inv, ThreadsSane, k
<1>8. QED BY <1>2, <1>4, <1>6, <1>7 DEF Send, Inv, k

\* The status a result is recorded under, and what record_dispatch_result
\* makes of it.
LEMMA RecordStep ==
  ASSUME Inv, NEW t \in Threads, RecordResult(t), NEW k, thread[t].key = k
  PROVE  /\ Inv'
         /\ k \in Keys
         /\ UNCHANGED <<alerts, delivered, restarts>>
         /\ \A i \in Keys : dispatch'[i].attempts = dispatch[i].attempts
         /\ \A i \in Keys : dispatch[i].succeeded => dispatch'[i].succeeded
         /\ \A i \in Keys : dispatch[i].terminal => dispatch'[i].terminal
         /\ thread[t].attempt >= MaxAttempts
              => dispatch'[k].succeeded \/ dispatch'[k].terminal
         /\ thread'[t] = IdleThread
         /\ \A u \in Threads \ {t} : thread'[u] = thread[u]
<1> DEFINE n == thread[t].attempt
           s == StatusForResult(thread[t].result, n)
           r == [dispatch[k] EXCEPT !.succeeded = @ \/ s = "succeeded",
                                    !.terminal = @ \/ s = "failed"]
<1>1. /\ k \in Keys /\ thread[t] \in ThreadState
      /\ thread[t].result \in Result /\ n \in 1..MaxAttempts /\ MaxAttempts \in Nat
  BY StateTyped DEF RecordResult, Inv, ThreadsSane
<1>2. /\ n \in Nat
      /\ s \in FinalStatus \cup {"pending"}
      /\ n >= MaxAttempts => s \in {"succeeded", "failed"}
  BY <1>1 DEF StatusForResult, FinalStatus, Result
<1>3. /\ dispatch' = [dispatch EXCEPT ![k] = r]
      /\ Record(k, s, n)
      /\ thread' = [thread EXCEPT ![t] = IdleThread]
      /\ UNCHANGED <<alerts, delivered, restarts>>
  BY DEF RecordResult
<1> HIDE DEF s, n
<1>4. dispatch[k] \in DispatchState /\ (s = "succeeded") \in BOOLEAN
      /\ (s = "failed") \in BOOLEAN
  BY <1>1, StateTyped
<1>5. (dispatch[k].succeeded \/ s = "succeeded") \in BOOLEAN
      /\ (dispatch[k].terminal \/ s = "failed") \in BOOLEAN
  OBVIOUS
<1>6. /\ r \in DispatchState
      /\ r.attempts = dispatch[k].attempts
      /\ r.succeeded = (dispatch[k].succeeded \/ s = "succeeded")
      /\ r.terminal = (dispatch[k].terminal \/ s = "failed")
  BY <1>4, <1>5 DEF DispatchState
<1> HIDE DEF r
<1>7. /\ dispatch' \in [Keys -> DispatchState]
      /\ dispatch'[k] = r
      /\ \A i \in Keys \ {k} : dispatch'[i] = dispatch[i]
  BY <1>1, <1>3, <1>6 DEF Inv, TypeOK
<1>8. log' \in [Keys -> Seq(LogEntry)]
  BY <1>1, <1>2, <1>3, RecordTyped
<1>9. /\ thread'[t] = IdleThread
      /\ \A u \in Threads \ {t} : thread'[u] = thread[u]
      /\ thread' \in [Threads -> ThreadState]
  <2>1. IdleThread \in ThreadState
    BY DEF IdleThread, ThreadState
  <2>2. QED BY <1>3, <2>1 DEF Inv, TypeOK
<1>10. TypeOK'
  BY <1>3, <1>7, <1>8, <1>9 DEF Inv, TypeOK
<1>11. ThreadsSane'
  BY <1>9 DEF Inv, ThreadsSane, IdleThread
<1>12. \A i \in Keys : /\ dispatch'[i].attempts = dispatch[i].attempts
                       /\ dispatch[i].succeeded => dispatch'[i].succeeded
                       /\ dispatch[i].terminal => dispatch'[i].terminal
  BY <1>6, <1>7
<1>13. n >= MaxAttempts => dispatch'[k].succeeded \/ dispatch'[k].terminal
  BY <1>2, <1>6, <1>7
<1>14. QED BY <1>1, <1>3, <1>9, <1>10, <1>11, <1>12, <1>13 DEF Inv, n

LEMMA RestartStep ==
  ASSUME Inv, Restart
  PROVE  Inv'
<1>1. NewState \in DispatchState /\ IdleThread \in ThreadState
  BY DEF NewState, DispatchState, IdleThread, ThreadState
<1>2. TypeOK'
  BY <1>1, DispatchAssumption DEF Restart, Inv, TypeOK
<1>3. ThreadsSane'
  BY DEF Restart, ThreadsSane, IdleThread
<1>4. QED BY <1>2, <1>3 DEF Inv

LEMMA InvStep == Inv /\ [Next]_vars => Inv'
<1> SUFFICES ASSUME Inv, [Next]_vars PROVE Inv'
  OBVIOUS
<1>1. ASSUME NEW a \in Alerts, Add(a) PROVE Inv'
  BY <1>1 DEF Add, Inv, TypeOK, ThreadsSane
<1>2. ASSUME NEW t \in Threads, RecordResult(t) PROVE Inv'
  BY <1>2, RecordStep
<1>3. CASE UNCHANGED vars
  BY <1>3 DEF vars, Inv, TypeOK, ThreadsSane
<1>4. QED
  BY <1>1, <1>2, <1>3, ReserveStep, SendStep, RestartStep DEF Next

LEMMA AlwaysInv == Spec => []Inv
  BY TypeInit, InvStep, PTL DEF Spec

(***************************************************************************)
(* Every reachable state of alert dispatch is well typed.                  *)
(***************************************************************************)
THEOREM DispatchTyped == Spec => []TypeOK
<1>1. Inv => TypeOK
  BY DEF Inv
<1>2. QED BY <1>1, AlwaysInv, PTL

-------------------------------------------------------------------------------
(***************************************************************************)
(* A key that succeeded or failed for good is not attempted again and      *)
(* never forgets it, whatever results of overlapping attempts come later.  *)
(***************************************************************************)
Settles(k) ==
  (dispatch[k].succeeded \/ dispatch[k].terminal) /\ restarts' = restarts
    => /\ dispatch'[k].attempts = dispatch[k].attempts
       /\ dispatch[k].succeeded => dispatch'[k].succeeded
       /\ dispatch[k].terminal => dispatch'[k].terminal

LEMMA SettledStep == Inv /\ [Next]_vars => [\A k \in Keys : Settles(k)]_vars
<1> SUFFICES ASSUME Inv, Next, NEW k \in Keys PROVE Settles(k)
  OBVIOUS
<1>1. ASSUME UNCHANGED dispatch PROVE Settles(k)
  BY <1>1 DEF Settles
<1>2. ASSUME NEW a \in Alerts, Add(a) PROVE Settles(k)
  BY <1>1, <1>2 DEF Add
<1>3. ASSUME NEW t \in Threads, NEW i \in Keys, Reserve(t, i) PROVE Settles(k)
  <2>1. CASE i = k
    BY <1>3, <2>1 DEF Reserve, Reservable, Settles
  <2>2. CASE i # k
    <3>1. dispatch'[k] = dispatch[k]
      BY <1>3, <2>2, ReserveStep DEF Inv, TypeOK
    <3>2. QED BY <3>1 DEF Settles
  <2>3. QED BY <2>1, <2>2
<1>4. ASSUME NEW t \in Threads, NEW r \in Result, Send(t, r) PROVE Settles(k)
  BY <1>1, <1>4, SendStep
<1>5. ASSUME NEW t \in Threads, RecordResult(t) PROVE Settles(k)
  BY <1>5, RecordStep DEF Settles
<1>6. ASSUME Restart PROVE Settles(k)
  <2>1. restarts \in Nat /\ restarts' = restarts + 1
    BY <1>6, DispatchAssumption DEF Restart, Inv, TypeOK
  <2>2. QED BY <2>1 DEF Settles
<1>7. QED BY <1>2, <1>3, <1>4, <1>5, <1>6 DEF Next

(***************************************************************************)
(* After a success or a failure for good no attempt is ever added, until a *)
(* restart forgets both.                                                   *)
(***************************************************************************)
THEOREM SettledForGood == Spec => SettledIsFinal
<1>1. [\A k \in Keys : Settles(k)]_vars
        => [\A k \in Keys :
              (dispatch[k].succeeded \/ dispatch[k].terminal) /\ restarts' = restarts
                => /\ dispatch'[k].attempts = dispatch[k].attempts
                   /\ dispatch[k].succeeded => dispatch'[k].succeeded
                   /\ dispatch[k].terminal => dispatch'[k].terminal]_vars
  BY DEF Settles
<1>2. QED BY <1>1, AlwaysInv, SettledStep, PTL DEF Spec, SettledIsFinal

-------------------------------------------------------------------------------
(***************************************************************************)
(* Exhausted keys.  By itself ExhaustedIsSettled is not inductive: what    *)
(* keeps it true is that the last attempt is some thread's until its       *)
(* result is recorded, and that the result of a last attempt is final.     *)
(***************************************************************************)
LastAttemptHeld(k) ==
  /\ dispatch[k].attempts <= MaxAttempts
  /\ dispatch[k].attempts = MaxAttempts
       => \/ dispatch[k].succeeded
          \/ dispatch[k].terminal
          \/ \E t \in Sending(k) : thread[t].attempt = MaxAttempts

LastHeld == \A k \in Keys : LastAttemptHeld(k)

LEMMA LastInit == Init => LastHeld
  BY DispatchAssumption DEF Init, NewState, LastHeld, LastAttemptHeld

LEMMA LastStep == Inv /\ LastHeld /\ [Next]_vars => LastHeld'
<1> SUFFICES ASSUME Inv, LastHeld, [Next]_vars, NEW k \in Keys
             PROVE  LastAttemptHeld(k)'
  BY DEF LastHeld
<1>1. LastAttemptHeld(k) /\ MaxAttempts \in Nat \ {0} /\ dispatch[k].attempts \in Nat
  BY StateTyped DEF LastHeld
<1>2. ASSUME UNCHANGED <<dispatch, thread>> PROVE LastAttemptHeld(k)'
  BY <1>1, <1>2 DEF LastAttemptHeld, Sending
<1>3. ASSUME NEW a \in Alerts, Add(a) PROVE LastAttemptHeld(k)'
  BY <1>2, <1>3 DEF Add
<1>4. ASSUME NEW t \in Threads, NEW i \in Keys, Reserve(t, i)
      PROVE  LastAttemptHeld(k)'
  <2>1. /\ dispatch' = [dispatch EXCEPT ![i].attempts = @ + 1]
        /\ thread'[t].key = i /\ thread'[t].attempt = dispatch[i].attempts + 1
        /\ thread'[t].attempt <= MaxAttempts
        /\ \A u \in Threads \ {t} : thread'[u] = thread[u]
        /\ thread[t].key = NoKey /\ NoKey # k
    BY <1>4, ReserveStep, DispatchAssumption DEF Reserve, Inv, ThreadsSane
  <2>2. CASE i = k
    <3>1. dispatch'[k].attempts = dispatch[k].attempts + 1
      BY <2>1, <2>2, StateTyped DEF Inv, TypeOK, DispatchState
    <3>2. t \in Sending(k)'
      BY <2>1, <2>2 DEF Sending
    <3>3. QED BY <1>1, <2>1, <2>2, <3>1, <3>2 DEF LastAttemptHeld
  <2>3. CASE i # k
    <3>1. dispatch'[k] = dispatch[k]
      BY <2>1, <2>3 DEF Inv, TypeOK
    <3>2. \A u \in Sending(k) : u \in Sending(k)' /\ thread'[u] = thread[u]
      BY <2>1 DEF Sending
    <3>3. QED BY <1>1, <3>1, <3>2 DEF LastAttemptHeld
  <2>4. QED BY <2>2, <2>3
<1>5. ASSUME NEW t \in Threads, NEW r \in Result, Send(t, r)
      PROVE  LastAttemptHeld(k)'
  BY <1>1, <1>5, SendStep DEF LastAttemptHeld, Sending
<1>6. ASSUME NEW t \in Threads, RecordResult(t) PROVE LastAttemptHeld(k)'
  <2>1. PICK i : thread[t].key = i
    OBVIOUS
  <2>2. /\ dispatch'[k].attempts = dispatch[k].attempts
        /\ dispatch[k].succeeded => dispatch'[k].succeeded
        /\ dispatch[k].terminal => dispatch'[k].terminal
        /\ thread[t].attempt >= MaxAttempts
             => dispatch'[i].succeeded \/ dispatch'[i].terminal
        /\ \A u \in Threads \ {t} : thread'[u] = thread[u]
    BY <1>6, <2>1, RecordStep
  <2>3. \A u \in Sending(k) \ {t} : u \in Sending(k)' /\ thread'[u] = thread[u]
    BY <2>2 DEF Sending
  <2>4. t \in Sending(k) => i = k
    BY <2>1 DEF Sending
  <2>5. QED BY <1>1, <2>2, <2>3, <2>4 DEF LastAttemptHeld
<1>7. ASSUME Restart PROVE LastAttemptHeld(k)'
  <2>1. dispatch'[k].attempts = 0
    BY <1>7 DEF Restart, NewState
  <2>2. QED BY <1>1, <2>1 DEF LastAttemptHeld
<1>8. CASE UNCHANGED vars
  BY <1>2, <1>8 DEF vars
<1>9. QED BY <1>3, <1>4, <1>5, <1>6, <1>7, <1>8 DEF Next

(***************************************************************************)
(* Every key whose attempts are used up has succeeded or failed for good,  *)
(* or has a thread that is still to record a result.                       *)
(***************************************************************************)
THEOREM ExhaustedSettles == Spec => []ExhaustedIsSettled
<1>1. Inv /\ LastHeld => ExhaustedIsSettled
  BY StateTyped DEF LastHeld, LastAttemptHeld, ExhaustedIsSettled
<1>2. QED BY <1>1, AlwaysInv, LastInit, LastStep, PTL DEF Spec

-------------------------------------------------------------------------------
(***************************************************************************)
(* Deliveries.  Every notification uses up a reservation: counting those   *)
(* delivered and those a thread is about to send, a key never has more     *)
(* than its attempts so far and a full budget for every earlier life.      *)
(***************************************************************************)
AboutToSend(k) == {t \in Threads : thread[t].at = "sending" /\ thread[t].key = k}
Pledged(k) == delivered[k] + Cardinality(AboutToSend(k))

PledgesBacked ==
  \A k \in Keys : Pledged(k) <= MaxAttempts * restarts + dispatch[k].attempts

LEMMA SendersFinite ==
  ASSUME NEW k
  PROVE  IsFiniteSet(AboutToSend(k)) /\ Cardinality(AboutToSend(k)) \in Nat
<1>1. AboutToSend(k) \subseteq Threads
  BY DEF AboutToSend
<1>2. QED BY <1>1, DispatchAssumption, FS_Subset, FS_CardinalityType

LEMMA PledgesInit == Init => PledgesBacked
<1> SUFFICES ASSUME Init, NEW k \in Keys
             PROVE  Pledged(k) <= MaxAttempts * restarts + dispatch[k].attempts
  BY DEF PledgesBacked
<1>1. AboutToSend(k) = {}
  BY DEF Init, AboutToSend, IdleThread
<1>2. QED BY <1>1, DispatchAssumption, FS_EmptySet DEF Init, NewState, Pledged

LEMMA PledgesStep == Inv /\ LastHeld /\ PledgesBacked /\ [Next]_vars => PledgesBacked'
<1> SUFFICES ASSUME Inv, LastHeld, PledgesBacked, [Next]_vars, NEW k \in Keys
             PROVE  (Pledged(k) <= MaxAttempts * restarts + dispatch[k].attempts)'
  BY DEF PledgesBacked
<1> DEFINE p == MaxAttempts * restarts
<1>1. /\ Pledged(k) <= p + dispatch[k].attempts
      /\ p \in Nat /\ restarts \in Nat /\ MaxAttempts \in Nat
      /\ dispatch[k].attempts \in Nat /\ dispatch[k].attempts <= MaxAttempts
      /\ delivered[k] \in Nat /\ Cardinality(AboutToSend(k)) \in Nat
  BY StateTyped, SendersFinite, DispatchAssumption
     DEF PledgesBacked, LastHeld, LastAttemptHeld, Inv, TypeOK
<1>2. ASSUME UNCHANGED <<dispatch, thread, delivered, restarts>>
      PROVE  (Pledged(k) <= p + dispatch[k].attempts)'
  BY <1>1, <1>2 DEF Pledged, AboutToSend
<1>3. ASSUME NEW a \in Alerts, Add(a)
      PROVE  (Pledged(k) <= p + dispatch[k].attempts)'
  BY <1>2, <1>3 DEF Add
<1>4. ASSUME NEW t \in Threads, NEW i \in Keys, Reserve(t, i)
      PROVE  (Pledged(k) <= p + dispatch[k].attempts)'
  <2>1. /\ dispatch' = [dispatch EXCEPT ![i].attempts = @ + 1]
        /\ thread'[t].key = i /\ thread'[t].at = "sending"
        /\ \A u \in Threads \ {t} : thread'[u] = thread[u]
        /\ t \notin AboutToSend(k) /\ UNCHANGED <<delivered, restarts>>
    BY <1>4, ReserveStep DEF Reserve, AboutToSend
  <2>2. CASE i = k
    <3>1. AboutToSend(k)' = AboutToSend(k) \cup {t}
      BY <2>1, <2>2 DEF AboutToSend
    <3>2. Cardinality(AboutToSend(k)') = Cardinality(AboutToSend(k)) + 1
      BY <2>1, <3>1, SendersFinite, FS_AddElement
    <3>3. dispatch'[k].attempts = dispatch[k].attempts + 1
      BY <2>1, <2>2, StateTyped DEF Inv, TypeOK, DispatchState
    <3>4. QED BY <1>1, <2>1, <3>2, <3>3 DEF Pledged
  <2>3. CASE i # k
    <3>1. AboutToSend(k)' = AboutToSend(k)
      BY <2>1, <2>3 DEF AboutToSend
    <3>2. dispatch'[k] = dispatch[k]
      BY <2>1, <2>3 DEF Inv, TypeOK
    <3>3. QED BY <1>1, <2>1, <3>1, <3>2 DEF Pledged
  <2>4. QED BY <2>2, <2>3
<1>5. ASSUME NEW t \in Threads, NEW r \in Result, Send(t, r)
      PROVE  (Pledged(k) <= p + dispatch[k].attempts)'
  <2>1. /\ UNCHANGED <<dispatch, restarts>>
        /\ \A u \in Threads \ {t} : thread'[u] = thread[u]
        /\ thread'[t].at = "sent" /\ thread[t].at = "sending"
        /\ AboutToSend(k)' = AboutToSend(k) \ {t}
    <3>1. \A u \in Threads \ {t} : thread'[u] = thread[u]
      BY <1>5 DEF Send, Inv, TypeOK
    <3>2. QED BY <1>5, <3>1, SendStep DEF Send, AboutToSend
  <2>2. CASE thread[t].key = k
    <3>1. t \in AboutToSend(k)
      BY <2>1, <2>2 DEF AboutToSend
    <3>2. Cardinality(AboutToSend(k)') = Cardinality(AboutToSend(k)) - 1
      BY <2>1, <3>1, SendersFinite, FS_RemoveElement
    <3>3. delivered'[k] \in {delivered[k], delivered[k] + 1}
      BY <1>5, <2>2 DEF Send, Inv, TypeOK
    <3>4. QED BY <1>1, <2>1, <3>2, <3>3 DEF Pledged
  <2>3. CASE thread[t].key # k
    <3>1. AboutToSend(k)' = AboutToSend(k)
      BY <2>1, <2>3 DEF AboutToSend
    <3>2. delivered'[k] = delivered[k]
      BY <1>5, <2>3 DEF Send, Inv, TypeOK
    <3>3. QED BY <1>1, <2>1, <3>1, <3>2 DEF Pledged
  <2>4. QED BY <2>2, <2>3
<1>6. ASSUME NEW t \in Threads, RecordResult(t)
      PROVE  (Pledged(k) <= p + dispatch[k].attempts)'
  <2>1. PICK i : thread[t].key = i
    OBVIOUS
  <2>2. /\ dispatch'[k].attempts = dispatch[k].attempts
        /\ UNCHANGED <<delivered, restarts>>
        /\ thread'[t] = IdleThread /\ thread[t].at = "sent"
        /\ \A u \in Threads \ {t} : thread'[u] = thread[u]
    BY <1>6, <2>1, RecordStep DEF RecordResult
  <2>3. AboutToSend(k)' = AboutToSend(k)
    BY <2>2 DEF AboutToSend, IdleThread
  <2>4. QED BY <1>1, <2>2, <2>3 DEF Pledged
<1>7. ASSUME Restart PROVE (Pledged(k) <= p + dispatch[k].attempts)'
  <2>1. AboutToSend(k)' = {}
    BY <1>7 DEF Restart, AboutToSend, IdleThread
  <2>2. Cardinality(AboutToSend(k)') = 0
    BY <2>1, FS_EmptySet
  <2>3. p' = p + MaxAttempts
    BY <1>1, <1>7 DEF Restart
  <2>4. dispatch'[k].attempts = 0 /\ delivered' = delivered
    BY <1>7 DEF Restart, NewState
  <2> HIDE DEF p
  <2>5. QED BY <1>1, <2>2, <2>3, <2>4 DEF Pledged
<1>8. CASE UNCHANGED vars
  BY <1>2, <1>8 DEF vars
<1>9. QED BY <1>3, <1>4, <1>5, <1>6, <1>7, <1>8 DEF Next

(***************************************************************************)
(* A receiver sees at most MaxAttempts notifications of one alert for      *)
(* every life of the process, whatever overlaps.                           *)
(***************************************************************************)
THEOREM DeliveriesAreBounded == Spec => []DeliveriesBounded
<1>1. Inv /\ LastHeld /\ PledgesBacked => DeliveriesBounded
  <2> SUFFICES ASSUME Inv, LastHeld, PledgesBacked, NEW k \in Keys
               PROVE  delivered[k] <= MaxAttempts * (restarts + 1)
    BY DEF DeliveriesBounded
  <2>1. /\ restarts \in Nat /\ MaxAttempts \in Nat
        /\ delivered[k] \in Nat /\ Cardinality(AboutToSend(k)) \in Nat
        /\ dispatch[k].attempts \in Nat /\ dispatch[k].attempts <= MaxAttempts
        /\ delivered[k] + Cardinality(AboutToSend(k))
             <= MaxAttempts * restarts + dispatch[k].attempts
    BY StateTyped, SendersFinite, DispatchAssumption
       DEF PledgesBacked, Pledged, LastHeld, LastAttemptHeld, Inv, TypeOK
  <2>2. MaxAttempts * (restarts + 1) = MaxAttempts * restarts + MaxAttempts
        /\ MaxAttempts * restarts \in Nat
    BY <2>1
  <2>3. QED BY <2>1, <2>2
<1>2. QED
  BY <1>1, AlwaysInv, LastInit, LastStep, PledgesInit, PledgesStep, PTL DEF Spec

-------------------------------------------------------------------------------
(***************************************************************************)
(* The log.  Key by key: no entry is ahead of the attempts, every attempt  *)
(* so far has one pending entry, and either one result after it or one     *)
(* thread.  That a thread is never ahead of the attempts either is what    *)
(* makes the attempt of a new reservation its own.                         *)
(***************************************************************************)
At(k, n) == {t \in Sending(k) : thread[t].attempt = n}

WithinAttempts(k) ==
  /\ \A i \in DOMAIN log[k] : log[k][i].attempt \in 1..dispatch[k].attempts
  /\ \A t \in Sending(k) : thread[t].attempt \in 1..dispatch[k].attempts

AttemptTold(k, n) ==
  /\ \E i : PendingAt(k, n) = {i}
  /\ \/ At(k, n) = {} /\ \E j : ResultsAt(k, n) = {j}
     \/ ResultsAt(k, n) = {} /\ \E t : At(k, n) = {t}
  /\ \A i \in PendingAt(k, n), j \in ResultsAt(k, n) : i < j

KeyTold(k) ==
  WithinAttempts(k) /\ \A n \in 1..dispatch[k].attempts : AttemptTold(k, n)

HistoryTold == \A k \in Keys : KeyTold(k)

LEMMA ToldGives == HistoryTold => LogTellsHistory
<1> SUFFICES ASSUME HistoryTold, NEW k \in Keys
             PROVE  /\ \A i \in DOMAIN log[k] :
                         log[k][i].attempt \in 1..dispatch[k].attempts
                    /\ \A n \in 1..dispatch[k].attempts :
                         /\ Cardinality(PendingAt(k, n)) = 1
                         /\ Cardinality(ResultsAt(k, n)) + Cardinality(At(k, n)) = 1
                         /\ \A i \in PendingAt(k, n), j \in ResultsAt(k, n) : i < j
  BY DEF LogTellsHistory, At
<1>1. WithinAttempts(k) /\ \A n \in 1..dispatch[k].attempts : AttemptTold(k, n)
  BY DEF HistoryTold, KeyTold
<1>2. ASSUME NEW n \in 1..dispatch[k].attempts
      PROVE  /\ Cardinality(PendingAt(k, n)) = 1
             /\ Cardinality(ResultsAt(k, n)) + Cardinality(At(k, n)) = 1
             /\ \A i \in PendingAt(k, n), j \in ResultsAt(k, n) : i < j
  <2>1. AttemptTold(k, n)
    BY <1>1
  <2>2. \A x : Cardinality({x}) = 1
    BY FS_Singleton
  <2>3. Cardinality({}) = 0
    BY FS_EmptySet
  <2>4. Cardinality(PendingAt(k, n)) = 1
    <3>1. PICK i : PendingAt(k, n) = {i}
      BY <2>1 DEF AttemptTold
    <3>2. QED BY <2>2, <3>1, Zenon
  <2>5. Cardinality(ResultsAt(k, n)) + Cardinality(At(k, n)) = 1
    <3>1. CASE At(k, n) = {} /\ \E j : ResultsAt(k, n) = {j}
      <4>1. Cardinality(ResultsAt(k, n)) = 1 /\ Cardinality(At(k, n)) = 0
        BY <2>2, <2>3, <3>1, Zenon
      <4>2. QED BY <4>1
    <3>2. CASE ResultsAt(k, n) = {} /\ \E t : At(k, n) = {t}
      <4>1. Cardinality(ResultsAt(k, n)) = 0 /\ Cardinality(At(k, n)) = 1
        BY <2>2, <2>3, <3>2, Zenon
      <4>2. QED BY <4>1
    <3>3. QED BY <2>1, <3>1, <3>2 DEF AttemptTold
  <2>6. QED BY <2>1, <2>4, <2>5 DEF AttemptTold
<1>3. QED BY <1>1, <1>2 DEF WithinAttempts

LEMMA ToldInit == Init => HistoryTold
<1> SUFFICES ASSUME Init, NEW k \in Keys PROVE KeyTold(k)
  BY DEF HistoryTold
<1>1. log[k] = <<>> /\ dispatch[k].attempts = 0
  BY DEF Init, NewState
<1>2. Sending(k) = {}
  BY DispatchAssumption DEF Init, Sending, IdleThread
<1>3. QED BY <1>1, <1>2 DEF KeyTold, WithinAttempts

\* What a key is told by is its log, its attempts and the threads at it.
LEMMA ToldUntouched ==
  ASSUME NEW k \in Keys, KeyTold(k), log'[k] = log[k],
         dispatch'[k].attempts = dispatch[k].attempts,
         Sending(k)' = Sending(k),
         \A t \in Sending(k) : thread'[t].attempt = thread[t].attempt
  PROVE  KeyTold(k)'
<1>1. \A n : /\ PendingAt(k, n)' = PendingAt(k, n)
             /\ ResultsAt(k, n)' = ResultsAt(k, n)
             /\ At(k, n)' = At(k, n)
  BY DEF PendingAt, ResultsAt, At
<1>2. WithinAttempts(k)'
  BY DEF KeyTold, WithinAttempts
<1>3. \A n \in 1..dispatch[k].attempts : AttemptTold(k, n)'
  BY <1>1 DEF KeyTold, AttemptTold
<1>4. QED BY <1>2, <1>3 DEF KeyTold

\* The log of a key after one more entry.
LEMMA OneMoreEntry ==
  ASSUME Inv, NEW k \in Keys, NEW s \in FinalStatus \cup {"pending"}, NEW n \in Nat,
         Record(k, s, n)
  PROVE  /\ \A i \in Keys \ {k} : log'[i] = log[i]
         /\ Len(log[k]) \in Nat
         /\ DOMAIN log[k] = 1..Len(log[k])
         /\ DOMAIN log'[k] = 1..Len(log[k]) + 1
         /\ \A i \in 1..Len(log[k]) : log'[k][i] = log[k][i]
         /\ log'[k][Len(log[k]) + 1] = [status |-> s, attempt |-> n]
<1> DEFINE e == [status |-> s, attempt |-> n]
<1>1. e \in LogEntry /\ log[k] \in Seq(LogEntry)
  BY StateTyped DEF LogEntry
<1> HIDE DEF e
<1>2. log' = [log EXCEPT ![k] = Append(log[k], e)]
  BY DEF Record, e
<1>3. log'[k] = Append(log[k], e) /\ \A i \in Keys \ {k} : log'[i] = log[i]
  BY <1>2 DEF Inv, TypeOK
<1>4. QED BY <1>1, <1>3 DEF e

LEMMA ToldReserve ==
  ASSUME Inv, HistoryTold, NEW t \in Threads, NEW k \in Keys, Reserve(t, k)
  PROVE  HistoryTold'
<1> PICK n, end : n = dispatch[k].attempts + 1 /\ end = Len(log[k]) + 1
  OBVIOUS
<1>1. /\ dispatch' = [dispatch EXCEPT ![k].attempts = @ + 1]
      /\ thread'[t].key = k /\ thread'[t].attempt = n
      /\ \A u \in Threads \ {t} : thread'[u] = thread[u]
      /\ thread[t].key = NoKey /\ NoKey \notin Keys
      /\ Record(k, "pending", n)
  BY ReserveStep, DispatchAssumption DEF Reserve, Inv, ThreadsSane
<1>2. dispatch[k].attempts \in Nat /\ n \in Nat /\ dispatch'[k].attempts = n
  BY <1>1, StateTyped DEF Inv, TypeOK, DispatchState
<1>3. /\ \A i \in Keys \ {k} : log'[i] = log[i]
      /\ end \in Nat \ {0}
      /\ DOMAIN log[k] = 1..end - 1 /\ DOMAIN log'[k] = 1..end
      /\ \A i \in 1..end - 1 : log'[k][i] = log[k][i]
      /\ log'[k][end] = Attempted(n)
  BY <1>1, <1>2, OneMoreEntry DEF Attempted
<1>4. ASSUME NEW j \in Keys, j # k PROVE KeyTold(j)'
  <2>1. dispatch'[j].attempts = dispatch[j].attempts
    BY <1>1, <1>4 DEF Inv, TypeOK
  <2>2. Sending(j)' = Sending(j) /\ \A u \in Sending(j) : thread'[u] = thread[u]
    BY <1>1, <1>4 DEF Sending
  <2>3. KeyTold(j) /\ log'[j] = log[j]
    BY <1>3, <1>4 DEF HistoryTold
  <2>4. QED BY <2>1, <2>2, <2>3, ToldUntouched
<1>5. KeyTold(k)'
  <2>1. KeyTold(k) /\ 1..n = (1..n - 1) \cup {n} /\ dispatch[k].attempts = n - 1
        /\ n \notin 1..n - 1 /\ end \notin 1..end - 1 /\ 1..end = (1..end - 1) \cup {end}
    BY <1>2, <1>3 DEF HistoryTold
  <2>2. Sending(k)' = Sending(k) \cup {t} /\ t \notin Sending(k)
        /\ \A u \in Sending(k) : thread'[u] = thread[u]
    BY <1>1 DEF Sending
  <2>3. Attempted(n).attempt = n /\ Attempted(n).status = "pending"
    BY DEF Attempted
  <2>4. WithinAttempts(k)'
    <3>1. \A i \in DOMAIN log'[k] : log'[k][i].attempt \in 1..n
      BY <1>3, <2>1, <2>3 DEF KeyTold, WithinAttempts
    <3>2. \A u \in Sending(k)' : thread'[u].attempt \in 1..n
      BY <1>1, <2>1, <2>2 DEF KeyTold, WithinAttempts
    <3>3. QED BY <1>2, <3>1, <3>2 DEF WithinAttempts
  <2>5. ASSUME NEW m \in 1..n - 1 PROVE AttemptTold(k, m)'
    <3>1. m # n /\ Attempted(m) # Attempted(n)
      BY <2>1 DEF Attempted
    <3>2. /\ PendingAt(k, m)' = PendingAt(k, m)
          /\ ResultsAt(k, m)' = ResultsAt(k, m)
      BY <1>3, <2>1, <2>3, <3>1 DEF PendingAt, ResultsAt
    <3>3. At(k, m)' = At(k, m)
      BY <1>1, <2>2, <3>1 DEF At
    <3>4. AttemptTold(k, m)
      BY <2>1 DEF KeyTold
    <3>5. QED BY <3>2, <3>3, <3>4, Zenon DEF AttemptTold
  <2>6. AttemptTold(k, n)'
    <3>1. \A i \in 1..end - 1 : log[k][i].attempt # n
      BY <1>3, <2>1 DEF KeyTold, WithinAttempts
    <3>2. PendingAt(k, n)' = {end}
      BY <1>3, <2>1, <2>3, <3>1 DEF PendingAt
    <3>3. ResultsAt(k, n)' = {}
      BY <1>3, <2>1, <2>3, <3>1 DEF ResultsAt
    <3>4. \A u \in Sending(k) : thread[u].attempt # n
      BY <2>1 DEF KeyTold, WithinAttempts
    <3>5. At(k, n)' = {t}
      BY <1>1, <2>2, <3>4 DEF At
    <3>6. QED BY <3>2, <3>3, <3>5 DEF AttemptTold
  <2>7. QED BY <1>2, <2>1, <2>4, <2>5, <2>6 DEF KeyTold
<1>6. QED BY <1>4, <1>5 DEF HistoryTold

LEMMA ToldRecord ==
  ASSUME Inv, HistoryTold, NEW t \in Threads, RecordResult(t)
  PROVE  HistoryTold'
<1> PICK k, n, s, end : /\ k = thread[t].key /\ n = thread[t].attempt
                        /\ s = StatusForResult(thread[t].result, n)
                        /\ end = Len(log[k]) + 1
  OBVIOUS
<1>1. /\ k \in Keys /\ n \in Nat /\ Record(k, s, n)
      /\ \A i \in Keys : dispatch'[i].attempts = dispatch[i].attempts
      /\ thread'[t] = IdleThread
      /\ \A u \in Threads \ {t} : thread'[u] = thread[u]
  <2>1. thread[t].at = "sent" /\ Record(k, s, n)
    BY DEF RecordResult
  <2>2. n \in Nat
    BY <2>1, DispatchAssumption DEF Inv, ThreadsSane
  <2>3. QED BY <2>1, <2>2, RecordStep
<1>2. s \in FinalStatus /\ s # "pending"
  BY DEF StatusForResult, FinalStatus
<1>3. IdleThread.key \notin Keys
  BY DispatchAssumption DEF IdleThread
<1>4. /\ \A i \in Keys \ {k} : log'[i] = log[i]
      /\ end \in Nat \ {0}
      /\ DOMAIN log[k] = 1..end - 1 /\ DOMAIN log'[k] = 1..end
      /\ \A i \in 1..end - 1 : log'[k][i] = log[k][i]
      /\ log'[k][end].status = s /\ log'[k][end].attempt = n
  <2>1. s \in FinalStatus \cup {"pending"}
    BY <1>2
  <2>2. log'[k][end] = [status |-> s, attempt |-> n] /\ DOMAIN log'[k] = 1..end
    BY <1>1, <2>1, OneMoreEntry
  <2>3. log'[k][end].status = s /\ log'[k][end].attempt = n
    BY <2>2
  <2>4. /\ \A i \in Keys \ {k} : log'[i] = log[i]
        /\ end \in Nat \ {0}
        /\ DOMAIN log[k] = 1..end - 1
        /\ \A i \in 1..end - 1 : log'[k][i] = log[k][i]
    <3>1. /\ \A i \in Keys \ {k} : log'[i] = log[i]
          /\ Len(log[k]) \in Nat
          /\ DOMAIN log[k] = 1..Len(log[k])
          /\ \A i \in 1..Len(log[k]) : log'[k][i] = log[k][i]
      BY <1>1, <2>1, OneMoreEntry
    <3>2. end - 1 = Len(log[k]) /\ end \in Nat \ {0}
      BY <3>1
    <3>3. QED BY <3>1, <3>2
  <2>5. QED BY <2>2, <2>3, <2>4
<1>5. t \in Sending(k) /\ \A j \in Keys \ {k} : t \notin Sending(j)
  BY DEF Sending
<1>6. \A j \in Keys : Sending(j)' = Sending(j) \ {t}
  BY <1>1, <1>3 DEF Sending
<1>7. \A j \in Keys : \A u \in Sending(j)' : thread'[u] = thread[u]
  BY <1>1, <1>6 DEF Sending
<1>8. n = thread[t].attempt
  OBVIOUS
<1>9. ASSUME NEW j \in Keys, j # k PROVE KeyTold(j)'
  <2>1. KeyTold(j) /\ log'[j] = log[j] /\ Sending(j)' = Sending(j)
    <3>1. Sending(j) \ {t} = Sending(j)
      BY <1>5, <1>9
    <3>2. QED BY <1>4, <1>6, <1>9, <3>1 DEF HistoryTold
  <2>2. QED BY <1>1, <1>7, <2>1, ToldUntouched
<1>10. KeyTold(k)'
  <2>1. /\ KeyTold(k) /\ n \in 1..dispatch[k].attempts
        /\ end \notin 1..end - 1 /\ 1..end = (1..end - 1) \cup {end}
    <3>1. KeyTold(k) /\ n \in 1..dispatch[k].attempts
      BY <1>1, <1>5, <1>8 DEF HistoryTold, KeyTold, WithinAttempts
    <3>2. QED BY <1>4, <3>1
  <2>2. WithinAttempts(k)'
    <3>1. \A i \in DOMAIN log'[k] : log'[k][i].attempt \in 1..dispatch[k].attempts
      BY <1>4, <2>1 DEF KeyTold, WithinAttempts
    <3>2. \A u \in Sending(k)' : thread'[u].attempt \in 1..dispatch[k].attempts
      BY <1>1, <1>6, <1>7, <2>1 DEF KeyTold, WithinAttempts
    <3>3. QED BY <1>1, <3>1, <3>2 DEF WithinAttempts
  <2>3. \A m : PendingAt(k, m)' = PendingAt(k, m)
    <3>1. \A m : Attempted(m).status = "pending"
      BY DEF Attempted
    <3>2. QED BY <1>2, <1>4, <2>1, <3>1 DEF PendingAt
  <2>4. ASSUME NEW m \in 1..dispatch[k].attempts, m # n PROVE AttemptTold(k, m)'
    <3>1. ResultsAt(k, m)' = ResultsAt(k, m)
      BY <1>4, <2>1, <2>4 DEF ResultsAt
    <3>2. At(k, m)' = At(k, m)
      BY <1>1, <1>6, <1>7, <1>8, <2>4 DEF At
    <3>3. AttemptTold(k, m)
      BY <2>1, <2>4 DEF KeyTold
    <3>4. QED BY <2>3, <3>1, <3>2, <3>3, Zenon DEF AttemptTold
  <2>5. AttemptTold(k, n)'
    <3>1. t \in At(k, n) /\ AttemptTold(k, n)
      BY <1>5, <1>8, <2>1 DEF At, KeyTold
    <3>2. ResultsAt(k, n) = {} /\ At(k, n) = {t}
      BY <3>1 DEF AttemptTold
    <3>3. ResultsAt(k, n)' = {end}
      <4>1. end \in ResultsAt(k, n)'
        BY <1>2, <1>4 DEF ResultsAt
      <4>2. ASSUME NEW i \in ResultsAt(k, n)', i # end PROVE FALSE
        <5>1. i \in 1..end - 1
          BY <1>4, <2>1, <4>2 DEF ResultsAt
        <5>2. i \in ResultsAt(k, n)
          BY <1>4, <4>2, <5>1 DEF ResultsAt
        <5>3. QED BY <3>2, <5>2
      <4>3. QED BY <4>1, <4>2
    <3>4. At(k, n)' = {}
      BY <1>1, <1>6, <1>7, <3>2 DEF At
    <3>5. \A i \in PendingAt(k, n) : i < end
      BY <1>4 DEF PendingAt
    <3>6. /\ \E i : PendingAt(k, n)' = {i}
          /\ \A i \in PendingAt(k, n)', j \in ResultsAt(k, n)' : i < j
      <4>1. \E i : PendingAt(k, n) = {i}
        BY <3>1, Zenon DEF AttemptTold
      <4>2. QED BY <2>3, <3>3, <3>5, <4>1, Zenon
    <3>7. QED BY <3>3, <3>4, <3>6, Zenon DEF AttemptTold
  <2>6. QED BY <1>1, <2>2, <2>4, <2>5 DEF KeyTold
<1>11. QED BY <1>9, <1>10 DEF HistoryTold

LEMMA ToldStep == Inv /\ HistoryTold /\ [Next]_vars => HistoryTold'
<1> SUFFICES ASSUME Inv, HistoryTold, [Next]_vars PROVE HistoryTold'
  OBVIOUS
<1>1. ASSUME UNCHANGED <<dispatch, log>>,
             \A t \in Threads : /\ thread'[t].key = thread[t].key
                                /\ thread'[t].attempt = thread[t].attempt
      PROVE  HistoryTold'
  <2>1. ASSUME NEW k \in Keys PROVE KeyTold(k)'
    <3>1. Sending(k)' = Sending(k)
      BY <1>1 DEF Sending
    <3>2. KeyTold(k) /\ \A t \in Sending(k) : thread'[t].attempt = thread[t].attempt
      BY <1>1 DEF HistoryTold, Sending
    <3>3. QED BY <1>1, <3>1, <3>2, ToldUntouched
  <2>2. QED BY <2>1 DEF HistoryTold
<1>2. ASSUME NEW a \in Alerts, Add(a) PROVE HistoryTold'
  BY <1>1, <1>2 DEF Add
<1>3. ASSUME NEW t \in Threads, NEW r \in Result, Send(t, r) PROVE HistoryTold'
  BY <1>1, <1>3, SendStep
<1>4. ASSUME Restart PROVE HistoryTold'
  <2>1. ASSUME NEW k \in Keys PROVE KeyTold(k)'
    <3>1. log'[k] = <<>> /\ dispatch'[k].attempts = 0
      BY <1>4 DEF Restart, NewState
    <3>2. Sending(k)' = {}
      BY <1>4, DispatchAssumption DEF Restart, Sending, IdleThread
    <3>3. QED BY <3>1, <3>2 DEF KeyTold, WithinAttempts
  <2>2. QED BY <2>1 DEF HistoryTold
<1>5. CASE UNCHANGED vars
  BY <1>1, <1>5 DEF vars
<1>6. QED BY <1>2, <1>3, <1>4, <1>5, ToldReserve, ToldRecord DEF Next

(***************************************************************************)
(* However the calls of dispatch overlap, the log of a key is a history:   *)
(* one pending entry for every attempt, and then one result or one thread  *)
(* that still owes it.                                                     *)
(***************************************************************************)
THEOREM LogIsHistory == Spec => []LogTellsHistory
<1>1. QED BY AlwaysInv, ToldInit, ToldStep, ToldGives, PTL DEF Spec
===============================================================================
