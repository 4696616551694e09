----------------------------- MODULE TaskLifecycle -----------------------------
(***************************************************************************)
(* What task acquisition promises to whoever submits a task once: the task *)
(* is refused or accepted; accepted, it is attempted one attempt at a time *)
(* and at most MaxAttempts times; what ends it, ends it for good.          *)
(***************************************************************************)
EXTENDS Integers

CONSTANTS Tasks, MaxAttempts

VARIABLES state,  \* the status of each task
          tries   \* the attempts made at it
tlVars == <<state, tries>>

TLInit ==
  /\ state = [t \in Tasks |-> "absent"]
  /\ tries = [t \in Tasks |-> 0]

Move(t, from, to) ==
  /\ state[t] = from
  /\ state' = [state EXCEPT ![t] = to]

Attempt(t) ==
  /\ tries[t] < MaxAttempts
  /\ tries' = [tries EXCEPT ![t] = @ + 1]

Accept(t) == Move(t, "absent", "queued") /\ UNCHANGED tries
Refuse(t) ==
  (Move(t, "absent", "denied") \/ Move(t, "queued", "denied")) /\ UNCHANGED tries
Begin(t) == Move(t, "queued", "running") /\ Attempt(t)
BeginAndEnd(t) == Move(t, "queued", "succeeded") /\ Attempt(t)
TryAgain(t) ==
  tries[t] < MaxAttempts /\ Move(t, "running", "queued") /\ UNCHANGED tries
Conclude(t) ==
  (Move(t, "running", "succeeded") \/ Move(t, "running", "failed")) /\ UNCHANGED tries

TLNext ==
  \E t \in Tasks :
    \/ Accept(t)
    \/ Refuse(t)
    \/ Begin(t)
    \/ BeginAndEnd(t)
    \/ TryAgain(t)
    \/ Conclude(t)

TLSpec == TLInit /\ [][TLNext]_tlVars
===============================================================================
