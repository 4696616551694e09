----------------------------- MODULE MCGraphCache -----------------------------
(***************************************************************************)
(* Two threads, two feeds, and commutes on one trip.                       *)
(***************************************************************************)
EXTENDS GraphCache, TLC

CONSTANTS t1, t2, feedA, feedB, train

TwoThreads == {t1, t2}
TwoFeeds == {feedA, feedB}
TrainOnly == {train}
AsksA == {NoFeed, feedA}
===============================================================================
