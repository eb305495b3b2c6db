--------------------------- MODULE MCMatchmaking ----------------------------
(***************************************************************************)
(* A small instance of Matchmaking for TLC, and Pair against what it       *)
(* promises: over every snapshot of at most MaxLen tickets with ranks up   *)
(* to MaxRank, and every window up to MaxWindow.  PairsMaximum is about   *)
(* no state in particular; TLC evaluates it in the initial one.            *)
(***************************************************************************)
EXTENDS Matchmaking

CONSTANTS MaxLen, MaxRank, MaxWindow

ASSUME SnapshotAssumption == MaxLen \in Nat /\ MaxRank \in Nat /\ MaxWindow \in Nat

\* Snapshots come out of a sorted set; a ticket is named by its position.
SortedRanks ==
  {ranks \in UNION {[1..n -> 0..MaxRank] : n \in 0..MaxLen} :
     \A i, j \in DOMAIN ranks : i <= j => ranks[i] <= ranks[j]}

Snapshots == {[i \in DOMAIN ranks |-> [ticket |-> i, rank |-> ranks[i]]] : ranks \in SortedRanks}

\* matcher.go: "Greedy adjacent pairing on a sorted list is optimal for
\* maximising the number of pairs under a max-gap constraint": no set of disjoint
\* compatible pairs, adjacent or not, is larger than the one Pair returns.
PairsMaximum ==
  Init => \A tickets \in Snapshots, window \in 0..MaxWindow : Maximum(tickets, window)
=============================================================================
