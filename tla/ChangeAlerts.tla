------------------------------ MODULE ChangeAlerts ------------------------------
(***************************************************************************)
(* From canonical fields to alerts: CanonicalizationService.canonicalize   *)
(* writes the ListingChangeStore, AlertService.run reads it and writes the *)
(* AlertRepository, and ListingRepository.add replaces the documents that  *)
(* hard constraints are evaluated on.                                      *)
(*                                                                         *)
(* Each POST /alerts/run is served by a thread of its own, so runs are     *)
(* interleaved with each other and with the two writers: a run works on    *)
(* the list of changes it took at its start, and looks a key up in the     *)
(* repository one step before it inserts it.  The match log is left out:   *)
(* it is written and never read.                                           *)
(***************************************************************************)
EXTENDS CanonicalChoice

CONSTANTS
  Listings,    \* cluster ids, under which listings are stored
  Specs,       \* search specs
  Runners,     \* threads that serve /alerts/run
  Batches,     \* the facts a canonicalization of each listing may be given
  Sinces,      \* the "since" of a request
  AlertLimit,  \* alert_limit
  NoSpec, NoChange

ASSUME AlertsAssumption ==
  /\ Batches \in [Listings -> SUBSET SUBSET FactIds]
  /\ Sinces \subseteq Nat
  /\ AlertLimit \in Nat

VARIABLES
  canonical,   \* the canonical fact of every field of a listing
  given,       \* history: the facts it was chosen from
  changes,     \* the ListingChangeStore
  stock,       \* whether a listing is stored, and the specs whose hard
               \* constraints its document meets
  run,         \* where each runner is
  alerts,      \* the AlertRepository: <<search spec, change>>
  fitted       \* history: the same pairs, when the listing met the spec
vars == <<canonical, given, changes, stock, run, alerts, fitted>>

MaybeValue == Values \cup {NoValue}
Change == [listing: Listings, field: Fields, old: MaybeValue, new: MaybeValue, at: Nat]
Canonical == [Fields -> FactIds \cup {NoFact}]
Run == [ at: {"idle", "scanning", "adding"}, spec: Specs \cup {NoSpec}, since: Nat,
         todo: SUBSET Change, current: Change \cup {NoChange}, fresh: BOOLEAN,
         created: Nat ]
Idle == [at |-> "idle", spec |-> NoSpec, since |-> 0, todo |-> {},
         current |-> NoChange, fresh |-> FALSE, created |-> 0]

\* A run holds a change in hand from the lookup to the insert, and everything
\* it works on is still in the store.
RunsConsistent ==
  \A r \in Runners :
    /\ run[r].todo \subseteq changes
    /\ IF run[r].at = "adding" THEN run[r].current \in run[r].todo
       ELSE run[r].current = NoChange
    /\ run[r].at = "scanning" => run[r].todo # {}
    /\ run[r].at # "idle" => run[r].spec \in Specs

(***************************************************************************)
(* The stores and the runs are well typed, and no run is overtaken by the  *)
(* store: what it took at its start is still there.                        *)
(***************************************************************************)
TypeOK ==
  /\ canonical \in [Listings -> Canonical]
  /\ given \in [Listings -> SUBSET FactIds]
  /\ changes \subseteq Change
  /\ stock \in [Listings -> [stored: BOOLEAN, fits: SUBSET Specs]]
  /\ run \in [Runners -> Run]
  /\ alerts \subseteq Specs \X Change
  /\ fitted \subseteq Specs \X Change
  /\ RunsConsistent

NoFields == [p \in Fields |-> NoFact]

Init ==
  /\ canonical = [l \in Listings |-> NoFields]
  /\ given = [l \in Listings |-> {}]
  /\ changes = {}
  /\ stock = [l \in Listings |-> [stored |-> FALSE, fits |-> {}]]
  /\ run = [r \in Runners |-> Idle]
  /\ alerts = {}
  /\ fitted = {}

Fits(s, l) == stock[l].stored /\ s \in stock[l].fits

\* The history is brought up to date by every step.
Fitting == {k \in Specs \X changes : Fits(k[1], k[2].listing)}
Remember == fitted' = fitted \cup Fitting'

-------------------------------------------------------------------------------
(***************************************************************************)
(* Canonicalization.                                                       *)
(***************************************************************************)
\* Mutant: a field that vanished is not looked at.
ChangedFieldsKept(old, new) ==
  {p \in Fields : new[p] # NoFact /\ ValueOf(old[p]) # ValueOf(new[p])}

ChangedFields(old, new) == {p \in Fields : ValueOf(old[p]) # ValueOf(new[p])}

\* What changed of listing l, dated by the fact that is canonical now or, when
\* the field is gone, by the one that was.
Diff(l, old, new) ==
  {[ listing |-> l, field |-> p, old |-> ValueOf(old[p]), new |-> ValueOf(new[p]),
     at |-> FactOf[IF new[p] # NoFact THEN new[p] ELSE old[p]].at ] :
   p \in ChangedFields(old, new)}

\* The same change_id: a hash of everything but the date.
SameId(c, d) ==
  c.listing = d.listing /\ c.field = d.field /\ c.old = d.old /\ c.new = d.new

\* Mutant: the store replaces a change by a later one with its id.
RecordedLast(store, diff) ==
  diff \cup {c \in store : \A d \in diff : ~SameId(c, d)}

\* ListingChangeStore.record of each of them: the first of an id stays.
Recorded(store, diff) ==
  store \cup {c \in diff : \A d \in store : ~SameId(c, d)}

\* canonicalize, given what the last one returned.
Canonicalize(l, inputs) ==
  /\ canonical' = [canonical EXCEPT ![l] = Chosen(inputs)]
  /\ given' = [given EXCEPT ![l] = inputs]
  /\ changes' = Recorded(changes, Diff(l, canonical[l], Chosen(inputs)))
  /\ UNCHANGED <<stock, run, alerts>>
  /\ Remember

\* ListingRepository.add, of a document that meets the constraints of these specs.
Store(l, specs) ==
  /\ stock' = [stock EXCEPT ![l] = [stored |-> TRUE, fits |-> specs]]
  /\ UNCHANGED <<canonical, given, changes, run, alerts>>
  /\ Remember

-------------------------------------------------------------------------------
(***************************************************************************)
(* AlertService.run.                                                       *)
(***************************************************************************)
Earliest(S) == {c \in S : \A d \in S : c.at <= d.at}

\* The loop goes on with the rest of the list, or returns.
Rest(e, c) ==
  IF e.todo = {c} THEN Idle
  ELSE [e EXCEPT !.at = "scanning", !.todo = @ \ {c}, !.current = NoChange, !.fresh = FALSE]

StartRun(r, s, since) ==
  /\ run[r].at = "idle"
  /\ changes # {}
  /\ run' = [run EXCEPT ![r] = [Idle EXCEPT !.at = "scanning", !.spec = s,
                                            !.since = since, !.todo = changes]]
  /\ UNCHANGED <<canonical, given, changes, stock, alerts>>
  /\ Remember

\* Mutant: hard constraints are not evaluated.
PassesUnchecked(e, c) == c.at >= e.since /\ stock[c.listing].stored

\* Recent enough, the listing is there, and it meets the hard constraints.
Passes(e, c) ==
  /\ c.at >= e.since
  /\ Fits(e.spec, c.listing)

\* One round of the loop, up to the lookup in add.
Examine(r) ==
  /\ run[r].at = "scanning"
  /\ \E c \in Earliest(run[r].todo) :
       LET e == run[r]
       IN  run' = [run EXCEPT ![r] =
                     IF Passes(e, c)
                     THEN [e EXCEPT !.at = "adding", !.current = c,
                                    !.fresh = <<e.spec, c>> \notin alerts]
                     ELSE Rest(e, c)]
  /\ UNCHANGED <<canonical, given, changes, stock, alerts>>
  /\ Remember

\* Mutant: an alert that was there already counts, too.
CountedAlways(e) == e.created + 1

Counted(e) == IF e.fresh THEN e.created + 1 ELSE e.created

LimitReached(n) == n >= AlertLimit

\* The insertion in add, and the end of the round.
AddAlert(r) ==
  /\ run[r].at = "adding"
  /\ LET e == run[r]
         n == Counted(e)
     IN  /\ alerts' = IF e.fresh THEN alerts \cup {<<e.spec, e.current>>} ELSE alerts
         /\ run' = [run EXCEPT ![r] = IF LimitReached(n) THEN Idle
                                      ELSE Rest([e EXCEPT !.created = n], e.current)]
  /\ UNCHANGED <<canonical, given, changes, stock>>
  /\ Remember

Next ==
  \/ \E l \in Listings :
       \/ \E inputs \in Batches[l] : Canonicalize(l, inputs)
       \/ \E specs \in SUBSET Specs : Store(l, specs)
  \/ \E r \in Runners :
       \/ \E s \in Specs, since \in Sinces : StartRun(r, s, since)
       \/ Examine(r)
       \/ AddAlert(r)

Spec == Init /\ [][Next]_vars

(***************************************************************************)
(* A run that was started goes on; and the client asks again and again,    *)
(* for every spec, for the changes since the beginning.                    *)
(***************************************************************************)
Fairness ==
  /\ \A r \in Runners : WF_vars(Examine(r) \/ AddAlert(r))
  /\ \A s \in Specs : SF_vars(\E r \in Runners : StartRun(r, s, 0))

FairSpec == Spec /\ Fairness

-------------------------------------------------------------------------------
(***************************************************************************)
(* The audit log names a change by its id, which has no date: however      *)
(* often a field takes a value again, there is one record of the change ...*)
(***************************************************************************)
OneChangePerId == \A c, d \in changes : SameId(c, d) => c = d

(***************************************************************************)
(* ... it is never replaced or redated ("listing_changes are append-only", *)
(* architecture_schema.md) ...                                             *)
(***************************************************************************)
ChangesKept == [][changes \subseteq changes']_vars

(***************************************************************************)
(* ... and no transition of a canonical value is without one (T4.09),      *)
(* fields that appear and fields that vanish included.                     *)
(***************************************************************************)
TransitionsLogged ==
  [][\A l \in Listings, p \in Fields :
       ValueOf(canonical'[l][p]) # ValueOf(canonical[l][p]) =>
         \E c \in changes' :
           /\ c.listing = l /\ c.field = p
           /\ c.old = ValueOf(canonical[l][p])
           /\ c.new = ValueOf(canonical'[l][p])]_vars

(***************************************************************************)
(* T4.06: as long as a listing still has a fact, the field it was          *)
(* canonical for never goes to a fact from a source that is trusted less.  *)
(***************************************************************************)
TrustNeverLost ==
  [][\A l \in Listings, p \in Fields :
       canonical[l][p] \in given'[l] =>
         /\ canonical'[l][p] # NoFact
         /\ FactOf[canonical'[l][p]].trust >= FactOf[canonical[l][p]].trust]_vars

(***************************************************************************)
(* "Any listing that fails a hard constraint is excluded from alert        *)
(* matching" (Phase 7 test plan): there is no alert for a change whose     *)
(* listing never met the spec since the change was recorded, whatever is   *)
(* stored while a run is under way.                                        *)
(***************************************************************************)
AlertsVetted == alerts \subseteq fitted

(***************************************************************************)
(* The limit postpones alerts and never loses one: if the listings meet a  *)
(* spec for good, and the client goes on asking, every change is alerted.  *)
(***************************************************************************)
NothingStarved ==
  \A s \in Specs :
    <>[](\A l \in Listings : Fits(s, l)) => <>[](\A c \in changes : <<s, c>> \in alerts)
===============================================================================
