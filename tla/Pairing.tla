------------------------------ MODULE Pairing -------------------------------
(***************************************************************************)
(* The pairing algorithm of matchmaking (internal/matchmaking/matcher.go): *)
(* a walk along the tickets of a snapshot, in rank order, that pairs       *)
(* neighbours whose ranks are at most a window apart.                      *)
(***************************************************************************)
EXTENDS Integers, Sequences, FiniteSetsExt

\* A comparison with <.
Close_Strict(a, b, window) == b.rank - a.rank < window

\* The comparison of Pair.
Close(a, b, window) == b.rank - a.rank <= window

\* The loop of Pair: what it appends when it starts at position i.
Walk(tickets, window) ==
  LET n == Len(tickets)
      from[i \in 1..(n + 2)] ==
        IF i >= n THEN <<>>
        ELSE IF Close(tickets[i], tickets[i + 1], window)
             THEN <<<<tickets[i], tickets[i + 1]>>>> \o from[i + 2]
             ELSE from[i + 1]
  IN from

Pair(tickets, window) == Walk(tickets, window)[1]

-----------------------------------------------------------------------------
(* What a pairing of a snapshot is to achieve *)

\* The pairs of positions that could play together.
Edges(tickets, window) ==
  {e \in (DOMAIN tickets) \X (DOMAIN tickets) :
     e[1] < e[2] /\ tickets[e[2]].rank - tickets[e[1]].rank <= window}

Disjoint(M) == \A e, f \in M : e # f => {e[1], e[2]} \cap {f[1], f[2]} = {}

\* Pair returns a set of disjoint compatible pairs, and none is larger.  The
\* tickets are named by their positions.
Maximum(tickets, window) ==
  LET found == Pair(tickets, window)
      matching == {<<found[i][1].ticket, found[i][2].ticket>> : i \in DOMAIN found}
  IN
  /\ matching \subseteq Edges(tickets, window) /\ Disjoint(matching)
  /\ Cardinality(matching) = Len(found)
  /\ \A M \in kSubset(Len(found) + 1, Edges(tickets, window)) : ~Disjoint(M)
=============================================================================
