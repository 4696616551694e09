---------------------------- MODULE MCAlertDispatch ----------------------------
(***************************************************************************)
(* One idempotency key, which is all two calls of dispatch can collide on, *)
(* and up to three threads: one more than there are attempts.              *)
(***************************************************************************)
EXTENDS AlertDispatch, TLC

CONSTANTS alert1, local, t1, t2, t3

OneAlert == {alert1}
OneChannel == {local}
TwoThreads == {t1, t2}
ThreeThreads == {t1, t2, t3}
===============================================================================
