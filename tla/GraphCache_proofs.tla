--------------------------- MODULE GraphCache_proofs ---------------------------
(***************************************************************************)
(* Proofs about transit commutes, for any threads, feeds and trips.        *)
(***************************************************************************)
EXTENDS GraphCache, TLAPS

\* What a build writes down stays below the counter, so the next one is new.
BuildsNumbered ==
  /\ \A p \in built : p[1] \in 1..counter
  /\ VersionNamesFeed

\* A thread that builds, builds for a feed.
BuildsForFeed == \A t \in Threads : thread[t].at = "rebuild" => thread[t].feed \in Feeds

IInv == TypeOK /\ BuildsForFeed

(***************************************************************************)
(* What a thread goes on with is well typed if the new request is.         *)
(***************************************************************************)
LEMMA GoesTyped ==
  ASSUME NEW t \in Threads, NEW e \in Request, TypeOK, Goes(t, e)
  PROVE  thread' \in [Threads -> Request]
BY DEF TypeOK, Goes

(***************************************************************************)
(* If it builds only for a feed, everyone still does.                      *)
(***************************************************************************)
LEMMA GoesForFeed ==
  ASSUME NEW t \in Threads, NEW e \in Request, IInv, Goes(t, e),
         e.at = "rebuild" => e.feed \in Feeds
  PROVE  BuildsForFeed'
<1> SUFFICES ASSUME NEW u \in Threads, thread'[u].at = "rebuild"
             PROVE  thread'[u].feed \in Feeds
  BY DEF BuildsForFeed
<1>1. CASE u = t
  BY <1>1 DEF Goes, IInv, TypeOK
<1>2. CASE u # t
  BY <1>2 DEF Goes, IInv, TypeOK, BuildsForFeed
<1> QED BY <1>1, <1>2

LEMMA IdleTyped == Idle \in Request
BY DEF Idle, Request, Places

-------------------------------------------------------------------------------
(***************************************************************************)
(* Every step keeps the types: one step per action, which says what the    *)
(* thread goes on with.                                                    *)
(***************************************************************************)
LEMMA StepTyped == IInv /\ [Next]_vars => IInv'
<1> SUFFICES ASSUME IInv, [Next]_vars PROVE IInv'
  OBVIOUS
<1> USE IdleTyped
<1>1. CASE UNCHANGED vars
  BY <1>1 DEF vars, manager, IInv, TypeOK, BuildsForFeed
<1>2. ASSUME NEW t \in Threads, NEW f \in Feeds, Register(t, f)
      PROVE  IInv'
  <2>1. [Idle EXCEPT !.at = "ensure"] \in Request
    BY DEF Request, Idle, Places
  <2>2. Goes(t, [Idle EXCEPT !.at = "ensure"])
    BY <1>2 DEF Register, Begins
  <2>3. thread' \in [Threads -> Request]
    BY <2>1, <2>2, GoesTyped DEF IInv
  <2>4. BuildsForFeed'
    BY <2>1, <2>2, GoesForFeed DEF Idle
  <2>5. solo' \subseteq Threads
    BY <1>2 DEF Register, Begins
  <2>6. registrations' \in 0..MaxRegistrations
    BY <1>2, GraphAssumption DEF Register, IInv, TypeOK
  <2> QED BY <1>2, <2>3, <2>4, <2>5, <2>6 DEF Register, IInv, TypeOK
<1>3. ASSUME NEW t \in Threads, NEW trip \in Trips, NEW f \in Asks, Commute(t, trip, f)
      PROVE  IInv'
  <2> DEFINE e == [Idle EXCEPT !.at = "ensure", !.trip = trip, !.asked = f]
  <2>1. e \in Request /\ e.at = "ensure"
    BY GraphAssumption DEF Request, Idle, Places
  <2>2. Goes(t, e)
    BY <1>3 DEF Commute, Begins
  <2>3. thread' \in [Threads -> Request]
    BY <2>1, <2>2, GoesTyped DEF IInv
  <2>4. BuildsForFeed'
    BY <2>1, <2>2, GoesForFeed
  <2>5. solo' \subseteq Threads
    BY <1>3 DEF Commute, Begins
  <2> QED BY <1>3, <2>3, <2>4, <2>5 DEF Commute, manager, IInv, TypeOK
<1>4. ASSUME NEW t \in Threads, Handle(t)
      PROVE  IInv'
  <2>0. thread[t] \in Request /\ active \in Feeds \cup {NoFeed} /\ version \in Nat
        /\ counter \in Nat /\ otpVersion \in Nat
    BY DEF IInv, TypeOK
  <2>1. ASSUME NEW e \in Request, Goes(t, e), e.at = "rebuild" => e.feed \in Feeds,
               UNCHANGED <<manager, cache, registrations, built, solo>>, otpVersion' \in Nat
        PROVE  IInv'
    <3>1. thread' \in [Threads -> Request] /\ BuildsForFeed'
      BY <2>1, GoesTyped, GoesForFeed DEF IInv
    <3> QED BY <2>1, <3>1 DEF manager, IInv, TypeOK
  <2>2. CASE EnsureGraph(t)
    <3> DEFINE ensured == [thread[t] EXCEPT !.at = "ensured", !.feed = active, !.version = version]
               rebuild == [thread[t] EXCEPT !.at = "rebuild", !.feed = active]
    <3>1. ensured \in Request /\ ensured.at = "ensured"
      BY <2>0 DEF Request, Places
    <3>2. rebuild \in Request /\ rebuild.feed = active
      BY <2>0 DEF Request, Places
    <3>3. UNCHANGED <<manager, cache, registrations, built, solo>> /\ otpVersion' \in Nat
      BY <2>2, <2>0 DEF EnsureGraph
    <3>4. CASE Goes(t, Idle)
      BY <3>4, <3>3, <2>1 DEF Idle
    <3>5. CASE Goes(t, ensured)
      <4> HIDE DEF ensured
      <4> QED BY <3>5, <3>3, <3>1, <2>1
    <3>6. CASE active # NoFeed /\ Goes(t, rebuild)
      <4>1. active \in Feeds
        BY <3>6, <2>0
      <4> HIDE DEF rebuild
      <4> QED BY <4>1, <3>6, <3>3, <3>2, <2>1
    <3> QED BY <2>2, <3>4, <3>5, <3>6 DEF EnsureGraph
  <2>3. CASE Rebuild(t)
    <3> DEFINE e == [thread[t] EXCEPT !.at = "built"]
    <3>1. e \in Request /\ e.at = "built" /\ Goes(t, e)
      BY <2>3, <2>0 DEF Rebuild, Request, Places
    <3>2. thread[t].feed \in Feeds
      BY <2>3 DEF Rebuild, IInv, BuildsForFeed
    <3> HIDE DEF e
    <3>3. thread' \in [Threads -> Request] /\ BuildsForFeed'
      BY <3>1, GoesTyped, GoesForFeed DEF IInv
    <3>4. counter' \in Nat /\ version' \in Nat /\ versionFeed' \in Feeds
      BY <2>3, <2>0, <3>2 DEF Rebuild, FeedOfBuild
    <3>5. built' \subseteq Nat \X Feeds
      BY <2>3, <3>2, <3>4 DEF Rebuild, IInv, TypeOK
    <3> QED BY <2>3, <3>3, <3>4, <3>5 DEF Rebuild, IInv, TypeOK
  <2>4. CASE BuildFails(t) \/ Registered(t) \/ AnswerFromCache(t) \/ RouteFails(t)
    <3>1. /\ Goes(t, Idle)
          /\ UNCHANGED <<manager, cache, registrations, built, solo>>
          /\ otpVersion' \in Nat
      BY <2>4, <2>0 DEF BuildFails, Registered, AnswerFromCache, RouteFails
    <3> QED BY <3>1, <2>1 DEF Idle
  <2>5. CASE ReturnBuild(t)
    <3> DEFINE e == [thread[t] EXCEPT !.at = "ensured", !.version = version]
    <3>1. e \in Request /\ e.at = "ensured"
      BY <2>0 DEF Request, Places
    <3>2. Goes(t, e) /\ UNCHANGED <<manager, cache, registrations, built, solo>> /\ otpVersion' \in Nat
      BY <2>5, <2>0 DEF ReturnBuild
    <3> HIDE DEF e
    <3> QED BY <3>1, <3>2, <2>1
  <2>6. CASE Activate(t)
    <3> DEFINE e == [thread[t] EXCEPT !.at = "activated", !.version = 0]
    <3>1. e \in Request /\ e.at = "activated"
      BY <2>0 DEF Request, Places
    <3>2. thread[t].version \in Nat
      BY <2>0 DEF Request
    <3>3. Goes(t, e) /\ UNCHANGED <<manager, cache, registrations, built, solo>> /\ otpVersion' \in Nat
      BY <2>6, <3>2 DEF Activate, Activated
    <3> HIDE DEF e
    <3> QED BY <3>1, <3>3, <2>1
  <2>7. CASE ReadToken(t)
    <3> DEFINE e == [Idle EXCEPT !.at = "lookup", !.trip = thread[t].trip, !.token = otpVersion]
    <3>1. e \in Request /\ e.at = "lookup"
      BY <2>0 DEF Request, Places, Idle
    <3>2. /\ Goes(t, e) \/ Goes(t, Idle)
          /\ UNCHANGED <<manager, cache, registrations, built, solo>>
          /\ otpVersion' \in Nat
      BY <2>7, <2>0 DEF ReadToken
    <3>3. Idle.at # "rebuild"
      BY DEF Idle
    <3> HIDE DEF e
    <3> QED BY <3>1, <3>2, <3>3, <2>1
  <2>8. CASE Miss(t)
    <3> DEFINE e == [thread[t] EXCEPT !.at = "routing"]
    <3>1. e \in Request /\ e.at = "routing"
      BY <2>0 DEF Request, Places
    <3>2. Goes(t, e) /\ UNCHANGED <<manager, cache, registrations, built, solo>> /\ otpVersion' \in Nat
      BY <2>8, <2>0 DEF Miss
    <3> HIDE DEF e
    <3> QED BY <3>1, <3>2, <2>1
  <2>9. CASE Routed(t)
    <3> DEFINE e == [thread[t] EXCEPT !.at = "routed", !.route = otpVersion]
    <3>1. e \in Request /\ e.at = "routed"
      BY <2>0 DEF Request, Places
    <3>2. Goes(t, e) /\ UNCHANGED <<manager, cache, registrations, built, solo>> /\ otpVersion' \in Nat
      BY <2>9, <2>0 DEF Routed
    <3> HIDE DEF e
    <3> QED BY <3>1, <3>2, <2>1
  <2>10. CASE AnswerAndCache(t)
    <3>1. [stored |-> TRUE, token |-> thread[t].token, route |-> thread[t].route] \in Entry
      BY <2>0 DEF Request, Entry
    <3>2. cache' \in [Trips -> Entry]
      BY <2>10, <3>1 DEF AnswerAndCache, IInv, TypeOK
    <3>3. Goes(t, Idle)
      BY <2>10 DEF AnswerAndCache
    <3>4. thread' \in [Threads -> Request] /\ BuildsForFeed'
      BY <3>3, GoesTyped, GoesForFeed DEF IInv, Idle
    <3> QED BY <2>10, <3>2, <3>4 DEF AnswerAndCache, manager, IInv, TypeOK
  <2> QED BY <1>4, <2>2, <2>3, <2>4, <2>5, <2>6, <2>7, <2>8, <2>9, <2>10 DEF Handle
<1> QED BY <1>1, <1>2, <1>3, <1>4 DEF Next, Ask

LEMMA InitTyped == Init => IInv
BY IdleTyped, GraphAssumption DEF Init, IInv, TypeOK, BuildsForFeed, Entry, NoEntry, Idle

(***************************************************************************)
(* Transit commutes are well typed; a graph is built only for a feed.      *)
(***************************************************************************)
THEOREM CommutesTyped == Spec => []TypeOK
<1>1. IInv => TypeOK
  BY DEF IInv
<1> QED BY InitTyped, StepTyped, <1>1, PTL DEF Spec

-------------------------------------------------------------------------------
(***************************************************************************)
(* A graph version stands for one feed, however many threads build at the  *)
(* same time: the counter is raised, the version and its feed are written  *)
(* in one step, so a version below or at the counter is never given twice. *)
(***************************************************************************)
THEOREM VersionsNameFeeds == Spec => []VersionNamesFeed
<1>1. Init => BuildsNumbered
  BY DEF Init, BuildsNumbered, VersionNamesFeed
<1>2. ASSUME IInv, BuildsNumbered, [Next]_vars
      PROVE  BuildsNumbered'
  <2>1. CASE UNCHANGED <<version, versionFeed, counter, built>>
    BY <1>2, <2>1 DEF BuildsNumbered, VersionNamesFeed
  <2>2. ASSUME NEW t \in Threads, Rebuild(t)
        PROVE  BuildsNumbered'
    <3> DEFINE p == <<counter + 1, thread[t].feed>>
    <3>1. built' = built \cup {p} /\ counter' = counter + 1 /\ version' = counter + 1
          /\ versionFeed' = thread[t].feed
      BY <2>2 DEF Rebuild, FeedOfBuild
    <3>2. counter \in Nat
      BY <1>2 DEF IInv, TypeOK
    <3>3. \A q \in built : q[1] \in 1..counter
      BY <1>2 DEF BuildsNumbered
    <3>4. p[1] = counter + 1 /\ p[1] \in 1..counter'
      BY <3>1, <3>2
    <3>5. \A q \in built : q[1] # p[1]
      BY <3>2, <3>3, <3>4
    <3>6. \A q \in built' : q[1] \in 1..counter'
      BY <3>1, <3>2, <3>3, <3>4
    <3>7. <<version', versionFeed'>> \in built'
      BY <3>1
    <3>8. \A q, r \in built' : q[1] = r[1] => q[2] = r[2]
      <4> HIDE DEF p
      <4> QED BY <1>2, <3>1, <3>5 DEF BuildsNumbered, VersionNamesFeed
    <3> QED BY <3>6, <3>7, <3>8 DEF BuildsNumbered, VersionNamesFeed
  <2> QED BY <1>2, <2>1, <2>2 DEF Next, Ask, Register, Commute, Handle, EnsureGraph, BuildFails,
       ReturnBuild, Registered, Activate, ReadToken, AnswerFromCache, Miss, Routed, RouteFails,
       AnswerAndCache, vars, manager
<1>3. BuildsNumbered => VersionNamesFeed
  BY DEF BuildsNumbered
<1> QED BY InitTyped, StepTyped, <1>1, <1>2, <1>3, PTL DEF Spec

-------------------------------------------------------------------------------
\* How far a request that met no other has come, and what it can rely on.
OnTrack(t) ==
  /\ thread[t].at = "rebuild" => thread[t].feed = active
  /\ thread[t].at \in {"built", "ensured", "activated", "lookup", "routing", "routed"} =>
       Current
  /\ thread[t].at = "ensured" => thread[t].version = version
  /\ thread[t].at \in {"activated", "lookup", "routing"} => otpVersion = version
  /\ thread[t].at = "routed" => thread[t].route = version

SoloOnTrack ==
  \A t \in solo :
    /\ \A u \in Threads \ {t} : thread[u].at = "idle"
    /\ OnTrack(t)

(***************************************************************************)
(* A request that met no other keeps on its track: whatever it does is all *)
(* that is done, and what begins beside it ends its being alone.           *)
(***************************************************************************)
LEMMA StepOnTrack == IInv /\ SoloOnTrack /\ [Next]_vars => SoloOnTrack'
<1> SUFFICES ASSUME IInv, SoloOnTrack, [Next]_vars PROVE SoloOnTrack'
  OBVIOUS
<1>1. CASE UNCHANGED vars
  BY <1>1 DEF vars, manager, SoloOnTrack, OnTrack, Current
<1>2. ASSUME NEW t \in Threads, NEW e \in Request, e.at = "ensure", Begins(t, e)
      PROVE  SoloOnTrack'
  <2>1. thread' = [thread EXCEPT ![t] = e] /\ thread \in [Threads -> Request]
    BY <1>2 DEF Begins, Goes, IInv, TypeOK
  <2>2. ASSUME NEW s \in solo'
        PROVE  s = t /\ \A u \in Threads : thread[u].at = "idle"
    BY <1>2, <2>2 DEF Begins
  <2>3. thread'[t].at = "ensure"
    BY <1>2, <2>1
  <2>4. OnTrack(t)'
    BY <2>3 DEF OnTrack
  <2> QED BY <2>1, <2>2, <2>4 DEF SoloOnTrack
<1>3. ASSUME NEW t \in Threads, NEW f \in Feeds, Register(t, f)
      PROVE  SoloOnTrack'
  <2>1. [Idle EXCEPT !.at = "ensure"] \in Request
    BY IdleTyped DEF Request, Places
  <2>2. [Idle EXCEPT !.at = "ensure"].at = "ensure"
    BY DEF Idle
  <2> QED BY <1>2, <1>3, <2>1, <2>2 DEF Register
<1>4. ASSUME NEW t \in Threads, NEW trip \in Trips, NEW f \in Asks, Commute(t, trip, f)
      PROVE  SoloOnTrack'
  <2> DEFINE e == [Idle EXCEPT !.at = "ensure", !.trip = trip, !.asked = f]
  <2>1. e \in Request /\ e.at = "ensure"
    BY IdleTyped, GraphAssumption DEF Request, Places, Idle
  <2>2. Begins(t, e)
    BY <1>4 DEF Commute
  <2> HIDE DEF e
  <2> QED BY <1>2, <2>1, <2>2
<1>5. ASSUME NEW t \in Threads, Handle(t)
      PROVE  SoloOnTrack'
  <2>1. /\ thread \in [Threads -> Request]
        /\ counter \in Nat /\ version \in Nat
        /\ solo \subseteq Threads
    BY DEF IInv, TypeOK
  <2>2. thread[t].at # "idle" /\ solo' = solo
    BY <1>5 DEF Handle, EnsureGraph, Rebuild, BuildFails, ReturnBuild, Registered, Activate,
       ReadToken, AnswerFromCache, Miss, Routed, RouteFails, AnswerAndCache
  <2>3. PICK e : Goes(t, e)
    BY <1>5 DEF Handle, EnsureGraph, Rebuild, BuildFails, ReturnBuild, Registered, Activate,
       ReadToken, AnswerFromCache, Miss, Routed, RouteFails, AnswerAndCache
  <2>4. \A s \in solo : s = t
    BY <2>2 DEF SoloOnTrack
  <2>5. \A u \in Threads \ {t} : thread'[u] = thread[u]
    BY <2>1, <2>3 DEF Goes
  <2>6. SUFFICES ASSUME t \in solo PROVE OnTrack(t)'
    BY <2>2, <2>4, <2>5 DEF SoloOnTrack
  <2>7. OnTrack(t)
    BY <2>6 DEF SoloOnTrack
  <2>8. ASSUME thread'[t].at = "idle" PROVE OnTrack(t)'
    BY <2>8 DEF OnTrack
  <2>9. CASE BuildFails(t) \/ Registered(t) \/ AnswerFromCache(t) \/ RouteFails(t)
             \/ AnswerAndCache(t)
    BY <2>9, <2>1, <2>8 DEF BuildFails, Registered, AnswerFromCache, RouteFails, AnswerAndCache,
       Goes, Idle
  <2>10. CASE EnsureGraph(t)
    <3>1. CASE Goes(t, Idle)
      BY <3>1, <2>1, <2>8 DEF Goes, Idle
    <3>2. CASE Current /\ Goes(t, [thread[t] EXCEPT !.at = "ensured", !.feed = active, !.version = version])
      <4>1. thread'[t].at = "ensured" /\ thread'[t].version = version
        BY <3>2, <2>1 DEF Goes, Request
      <4> QED BY <4>1, <3>2, <2>10 DEF EnsureGraph, manager, OnTrack, Current
    <3>3. CASE Goes(t, [thread[t] EXCEPT !.at = "rebuild", !.feed = active])
      <4>1. thread'[t].at = "rebuild" /\ thread'[t].feed = active
        BY <3>3, <2>1 DEF Goes, Request
      <4> QED BY <4>1, <2>10 DEF EnsureGraph, manager, OnTrack, Current
    <3> QED BY <2>10, <3>1, <3>2, <3>3 DEF EnsureGraph
  <2>11. CASE Rebuild(t)
    <3>1. thread'[t].at = "built" /\ thread[t].feed = active
      BY <2>11, <2>1, <2>7 DEF Rebuild, Goes, Request, OnTrack
    <3>2. Current'
      BY <2>11, <2>1, <3>1 DEF Rebuild, FeedOfBuild, Current
    <3> QED BY <3>1, <3>2 DEF OnTrack
  <2>12. CASE ReturnBuild(t)
    <3>1. thread'[t].at = "ensured" /\ thread'[t].version = version
      BY <2>12, <2>1 DEF ReturnBuild, Goes, Request
    <3>2. Current
      BY <2>12, <2>7 DEF ReturnBuild, OnTrack
    <3> QED BY <3>1, <3>2, <2>12 DEF ReturnBuild, manager, OnTrack, Current
  <2>13. CASE Activate(t)
    <3>1. thread'[t].at = "activated"
      BY <2>13, <2>1 DEF Activate, Goes, Request
    <3>2. Current /\ otpVersion' = version
      BY <2>13, <2>7 DEF Activate, Activated, OnTrack
    <3> QED BY <3>1, <3>2, <2>13 DEF Activate, manager, OnTrack, Current
  <2>14. CASE ReadToken(t)
    <3>1. thread'[t].at \in {"lookup", "idle"}
      BY <2>14, <2>1 DEF ReadToken, Goes, Idle
    <3>2. Current /\ otpVersion = version
      BY <2>14, <2>7 DEF ReadToken, OnTrack
    <3> QED BY <3>1, <3>2, <2>14 DEF ReadToken, manager, OnTrack, Current
  <2>15. CASE Miss(t)
    <3>1. thread'[t].at = "routing"
      BY <2>15, <2>1 DEF Miss, Goes, Request
    <3>2. Current /\ otpVersion = version
      BY <2>15, <2>7 DEF Miss, OnTrack
    <3> QED BY <3>1, <3>2, <2>15 DEF Miss, manager, OnTrack, Current
  <2>16. CASE Routed(t)
    <3>1. thread'[t].at = "routed" /\ thread'[t].route = otpVersion
      BY <2>16, <2>1 DEF Routed, Goes, Request
    <3>2. Current /\ otpVersion = version
      BY <2>16, <2>7 DEF Routed, OnTrack
    <3> QED BY <3>1, <3>2, <2>16 DEF Routed, manager, OnTrack, Current
  <2> QED BY <1>5, <2>9, <2>10, <2>11, <2>12, <2>13, <2>14, <2>15, <2>16 DEF Handle
<1> QED BY <1>1, <1>3, <1>4, <1>5 DEF Next, Ask

(***************************************************************************)
(* A transit commute that met no other request and was not answered from   *)
(* the cache is routed on a graph of the feed registered last: it finds or *)
(* builds such a graph, activates it, and nothing comes in between.        *)
(***************************************************************************)
THEOREM SoloRoutesAreFresh == Spec => SoloRouteFresh
<1>1. Init => SoloOnTrack
  BY DEF Init, SoloOnTrack
<1>2. ASSUME SoloOnTrack, VersionNamesFeed, NEW t \in solo, AnswerAndCache(t)
      PROVE  OnActiveFeed(t)
  <2>1. thread[t].at = "routed"
    BY <1>2 DEF AnswerAndCache
  <2>2. Current /\ thread[t].route = version
    BY <1>2, <2>1 DEF SoloOnTrack, OnTrack
  <2>3. <<version, active>> \in built
    BY <1>2, <2>2 DEF Current, VersionNamesFeed
  <2> QED BY <2>1, <2>2, <2>3 DEF OnActiveFeed
<1>3. SoloOnTrack /\ VersionNamesFeed =>
        [\A t \in solo : AnswerAndCache(t) => OnActiveFeed(t)]_vars
  BY <1>2
<1> QED BY InitTyped, StepTyped, VersionsNameFeeds, StepOnTrack, <1>1, <1>3, PTL
       DEF Spec, SoloRouteFresh
===============================================================================
