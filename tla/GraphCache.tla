------------------------------- MODULE GraphCache -------------------------------
(***************************************************************************)
(* Transit commutes (services/geo_commute): which graph is in force, which *)
(* version the router goes by, and which answers are cached.               *)
(*                                                                         *)
(* POST /geo/gtfs/register and POST /geo/commute are served by threads of  *)
(* one process that share OtpGraphManager, OtpRouter and CommuteCache with *)
(* no lock.  A thread can be overtaken wherever it calls into another of   *)
(* these parts, the graph builder, the clock or OTP; the code between two  *)
(* such calls is one step.                                                 *)
(*                                                                         *)
(* Graph versions are numbers: "otp-graph-<n>", and 0 for none.            *)
(***************************************************************************)
EXTENDS Integers, FiniteSets

CONSTANTS
  Threads,
  Feeds,             \* GTFS fingerprints
  NoFeed, NoTrip,
  Trips,             \* cache keys of transit commutes
  Asks,              \* gtfs_fingerprint of a commute request, or none
  MaxRegistrations   \* bound: feeds registered

ASSUME GraphAssumption ==
  /\ NoFeed \notin Feeds /\ NoTrip \notin Trips
  /\ Asks \subseteq Feeds \cup {NoFeed}
  /\ MaxRegistrations \in Nat

VARIABLES
  active,        \* _active_fingerprint
  version,       \* _graph_version of the manager
  versionFeed,   \* _graph_version_fingerprint
  counter,       \* _build_counter
  otpVersion,    \* _graph_version of the OTP router
  cache,         \* the CommuteCache, trip by trip
  thread,        \* the request each thread serves
  registrations,
  built,         \* history: <<graph version, the feed it was built for>>
  solo           \* history: the threads whose request has met no other
manager == <<active, version, versionFeed, counter>>
vars == <<active, version, versionFeed, counter, otpVersion, cache, thread,
          registrations, built, solo>>

Entry == [stored: BOOLEAN, token: Nat, route: Nat]
NoEntry == [stored |-> FALSE, token |-> 0, route |-> 0]
Places == {"idle", "ensure", "rebuild", "built", "ensured", "activated", "lookup",
           "routing", "routed"}

\* Of a request: the trip or none for a registration, the feed it asks for and
\* the one it was told, the version of the build, the token and the version
\* the route names.
Request ==
  [ at: Places, trip: Trips \cup {NoTrip}, asked: Feeds \cup {NoFeed},
    feed: Feeds \cup {NoFeed}, version: Nat, token: Nat, route: Nat ]
Idle == [ at |-> "idle", trip |-> NoTrip, asked |-> NoFeed, feed |-> NoFeed,
          version |-> 0, token |-> 0, route |-> 0 ]

(***************************************************************************)
(* Everything is well typed.                                               *)
(***************************************************************************)
TypeOK ==
  /\ active \in Feeds \cup {NoFeed}
  /\ version \in Nat /\ counter \in Nat /\ otpVersion \in Nat
  /\ versionFeed \in Feeds \cup {NoFeed}
  /\ cache \in [Trips -> Entry]
  /\ thread \in [Threads -> Request]
  /\ registrations \in 0..MaxRegistrations
  /\ built \subseteq Nat \X Feeds
  /\ solo \subseteq Threads

Init ==
  /\ active = NoFeed
  /\ version = 0 /\ versionFeed = NoFeed /\ counter = 0 /\ otpVersion = 0
  /\ cache = [k \in Trips |-> NoEntry]
  /\ thread = [t \in Threads |-> Idle]
  /\ registrations = 0
  /\ built = {}
  /\ solo = {}

Goes(t, e) == thread' = [thread EXCEPT ![t] = e]

\* A request begins: it is alone only if no other is under way, and those
\* that are under way are no longer.
Begins(t, e) ==
  /\ thread[t].at = "idle"
  /\ Goes(t, e)
  /\ solo' = IF \A u \in Threads : thread[u].at = "idle" THEN {t} ELSE {}

-------------------------------------------------------------------------------
(***************************************************************************)
(* OtpGraphManager.                                                        *)
(***************************************************************************)
\* POST /geo/gtfs/register, up to the call of ensure_graph.  A path that is
\* not allowed is refused before anything changes.
Register(t, f) ==
  /\ registrations < MaxRegistrations
  /\ registrations' = registrations + 1
  /\ active' = f
  /\ Begins(t, [Idle EXCEPT !.at = "ensure"])
  /\ UNCHANGED <<version, versionFeed, counter, otpVersion, cache, built>>

\* Mutant: any graph will do.
CurrentIfAny == version # 0

Current == version # 0 /\ versionFeed = active

\* ensure_graph: no feed, the graph there is, or a new one.
EnsureGraph(t) ==
  /\ thread[t].at = "ensure"
  /\ \/ active = NoFeed /\ Goes(t, Idle)
     \/ /\ active # NoFeed /\ Current
        /\ Goes(t, [thread[t] EXCEPT !.at = "ensured", !.feed = active, !.version = version])
     \/ /\ active # NoFeed /\ ~Current
        /\ Goes(t, [thread[t] EXCEPT !.at = "rebuild", !.feed = active])
  /\ UNCHANGED <<manager, otpVersion, cache, registrations, built, solo>>

FeedOfBuild(t) == thread[t].feed

\* _rebuild_graph, when the builder is done, up to the look at the clock.  The
\* builder, if there is one, returns no version of its own.
Rebuild(t) ==
  /\ thread[t].at = "rebuild"
  /\ counter' = counter + 1
  /\ version' = counter'
  /\ versionFeed' = FeedOfBuild(t)
  /\ built' = built \cup {<<counter', thread[t].feed>>}
  /\ Goes(t, [thread[t] EXCEPT !.at = "built"])
  /\ UNCHANGED <<active, otpVersion, cache, registrations, solo>>

\* The builder raises, and the request fails.
BuildFails(t) ==
  /\ thread[t].at = "rebuild"
  /\ Goes(t, Idle)
  /\ UNCHANGED <<manager, otpVersion, cache, registrations, built, solo>>

\* The result names the version the manager has by now.
ReturnBuild(t) ==
  /\ thread[t].at = "built"
  /\ Goes(t, [thread[t] EXCEPT !.at = "ensured", !.version = version])
  /\ UNCHANGED <<manager, otpVersion, cache, registrations, built, solo>>

\* The registration is answered.
Registered(t) ==
  /\ thread[t].at = "ensured" /\ thread[t].trip = NoTrip
  /\ Goes(t, Idle)
  /\ UNCHANGED <<manager, otpVersion, cache, registrations, built, solo>>

-------------------------------------------------------------------------------
(***************************************************************************)
(* GeoCommuteService.commute and RoutingEngine.                            *)
(***************************************************************************)
Commute(t, trip, f) ==
  /\ Begins(t, [Idle EXCEPT !.at = "ensure", !.trip = trip, !.asked = f])
  /\ UNCHANGED <<manager, otpVersion, cache, registrations, built>>

\* Mutant: the router keeps the version it has.
ActivatedOnce(t) == IF otpVersion = 0 THEN thread[t].version ELSE otpVersion

Activated(t) == thread[t].version

\* prepare: set_graph_version.
Activate(t) ==
  /\ thread[t].at = "ensured" /\ thread[t].trip # NoTrip
  /\ otpVersion' = Activated(t)
  /\ Goes(t, [thread[t] EXCEPT !.at = "activated", !.version = 0])
  /\ UNCHANGED <<manager, cache, registrations, built, solo>>

\* prepare: version_token, and then the check of the fingerprint asked for.
ReadToken(t) ==
  /\ thread[t].at = "activated"
  /\ Goes(t, IF thread[t].asked \in {NoFeed, thread[t].feed}
             THEN [Idle EXCEPT !.at = "lookup", !.trip = thread[t].trip, !.token = otpVersion]
             ELSE Idle)
  /\ UNCHANGED <<manager, otpVersion, cache, registrations, built, solo>>

Hit(t) ==
  LET entry == cache[thread[t].trip]
  IN  entry.stored /\ entry.token = thread[t].token

\* CommuteCache.get, and the answer if there is one.
AnswerFromCache(t) ==
  /\ thread[t].at = "lookup" /\ Hit(t)
  /\ Goes(t, Idle)
  /\ UNCHANGED <<manager, otpVersion, cache, registrations, built, solo>>

Miss(t) ==
  /\ thread[t].at = "lookup" /\ ~Hit(t)
  /\ Goes(t, [thread[t] EXCEPT !.at = "routing"])
  /\ UNCHANGED <<manager, otpVersion, cache, registrations, built, solo>>

\* OTP's response arrives: the route names the version the router has by now.
Routed(t) ==
  /\ thread[t].at = "routing"
  /\ Goes(t, [thread[t] EXCEPT !.at = "routed", !.route = otpVersion])
  /\ UNCHANGED <<manager, otpVersion, cache, registrations, built, solo>>

RouteFails(t) ==
  /\ thread[t].at = "routing"
  /\ Goes(t, Idle)
  /\ UNCHANGED <<manager, otpVersion, cache, registrations, built, solo>>

\* CommuteCache.set, and the answer.
AnswerAndCache(t) ==
  /\ thread[t].at = "routed"
  /\ cache' = [cache EXCEPT ![thread[t].trip] =
                 [stored |-> TRUE, token |-> thread[t].token, route |-> thread[t].route]]
  /\ Goes(t, Idle)
  /\ UNCHANGED <<manager, otpVersion, registrations, built, solo>>

Handle(t) ==
  \/ EnsureGraph(t) \/ Rebuild(t) \/ BuildFails(t) \/ ReturnBuild(t) \/ Registered(t)
  \/ Activate(t) \/ ReadToken(t) \/ AnswerFromCache(t) \/ Miss(t)
  \/ Routed(t) \/ RouteFails(t) \/ AnswerAndCache(t)

Ask(t) == \E trip \in Trips, f \in Asks : Commute(t, trip, f)

Next ==
  \E t \in Threads :
    \/ \E f \in Feeds : Register(t, f)
    \/ Ask(t)
    \/ Handle(t)

Spec == Init /\ [][Next]_vars

(***************************************************************************)
(* Threads make progress, people go on asking for transit commutes, and a  *)
(* builder that is tried again and again succeeds at last.                 *)
(***************************************************************************)
Fairness ==
  /\ \A t \in Threads : WF_vars(Handle(t)) /\ SF_vars(Rebuild(t))
  /\ SF_vars(\E t \in Threads : Ask(t))

FairSpec == Spec /\ Fairness

-------------------------------------------------------------------------------
(***************************************************************************)
(* A graph version stands for one feed, whichever requests built graphs at *)
(* the same time, and the manager never mistakes the feed of its graph.    *)
(***************************************************************************)
VersionNamesFeed ==
  /\ \A p, q \in built : p[1] = q[1] => p[2] = q[2]
  /\ version # 0 => <<version, versionFeed>> \in built

\* The route a step answers t with names a graph of the active feed.
OnActiveFeed(t) ==
  LET answer == IF thread[t].at = "routed" THEN thread[t].route
                ELSE cache[thread[t].trip].route
  IN  <<answer, active>> \in built

(***************************************************************************)
(* A transit commute that met no other request and was not answered from   *)
(* the cache is routed on the graph of the feed registered last, whatever  *)
(* earlier requests did to each other.                                     *)
(***************************************************************************)
SoloRouteFresh ==
  [][\A t \in solo : AnswerAndCache(t) => OnActiveFeed(t)]_vars

(***************************************************************************)
(* Once feeds are no longer registered, the races of the past wear off:    *)
(* the manager settles on a graph of the active feed, and the router on    *)
(* that graph.                                                             *)
(***************************************************************************)
Settles ==
  <>[](active # NoFeed => Current /\ otpVersion = version)

(***************************************************************************)
(* "The rebuilt graph version is activated and used for subsequent         *)
(* routing" (Phase 5 test plan): a transit commute that met no other       *)
(* request is answered by the graph of the feed registered last, from the  *)
(* cache or not.                                                           *)
(***************************************************************************)
SoloAnswerFresh ==
  [][\A t \in solo :
       AnswerAndCache(t) \/ AnswerFromCache(t) => OnActiveFeed(t)]_vars
===============================================================================
