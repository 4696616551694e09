---------------------------- MODULE ListingPartition ----------------------------
(***************************************************************************)
(* What clustering promises: the listings of a run start apart, each pair  *)
(* that was decided to be one listing joins two blocks or finds them       *)
(* joined, and nothing else moves a listing.                               *)
(***************************************************************************)
EXTENDS FiniteSets

CONSTANT Ids

VARIABLES
  blocks,   \* the partition of the listings of the run
  links     \* the decided pairs that have not been looked at
pvars == <<blocks, links>>

BlockOf(i) == CHOOSE b \in blocks : i \in b

PInit == blocks = {} /\ links = {}

\* A run begins, once every pair of the last one has been looked at.
Apart ==
  /\ links = {}
  /\ \E I \in SUBSET Ids : blocks' = {{i} : i \in I} /\ links' \subseteq I \X I

Join(a, b) ==
  /\ links' = links \ {<<a, b>>}
  /\ blocks' = (blocks \ {BlockOf(a), BlockOf(b)}) \cup {BlockOf(a) \cup BlockOf(b)}

PNext == Apart \/ \E pair \in links : Join(pair[1], pair[2])

PartitionSpec == PInit /\ [][PNext]_pvars
===============================================================================
