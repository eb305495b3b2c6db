------------------------- MODULE MatchmakingProofs --------------------------
(***************************************************************************)
(* Pair finds a maximum matching of every snapshot, and what a match tick  *)
(* promises holds for every number of players, requests, joins and faults. *)
(*                                                                         *)
(* Induction is by the least counterexample: the library states that the   *)
(* naturals are well founded for sets, not only for operators.             *)
(***************************************************************************)
EXTENDS MCMatchmaking, FiniteSetTheorems, WellFoundedInduction, TLAPS

\* Every set of positions that is not empty has a least one.
LEMMA LeastNat ==
  ASSUME NEW T \in SUBSET Nat, T # {}
  PROVE  \E x \in T : \A y \in T : x <= y
<1>1. PICK x \in T : \A y \in T : ~(<<y, x>> \in OpToRel(<, Nat))
  BY NatLessThanWellFounded, WFMin, Zenon
<1>2. \A y \in T : ~(y < x)
  BY <1>1, Zenon DEF OpToRel
<1> QED BY <1>2

\* Induction over positions, as a statement about a set: its least counterexample
\* would have a predecessor.
LEMMA Induct ==
  ASSUME NEW S, 0 \in S, \A k \in Nat : k \in S => k + 1 \in S
  PROVE  \A k \in Nat : k \in S
<1> DEFINE T == {k \in Nat : k \notin S}
<1>1. SUFFICES ASSUME T # {} PROVE FALSE
  OBVIOUS
<1>2. T \in SUBSET Nat
  OBVIOUS
<1> HIDE DEF T
<1>3. PICK x \in T : \A y \in T : x <= y
  BY <1>1, <1>2, LeastNat
<1>4. x \in Nat /\ x # 0 /\ x \notin S
  BY DEF T
<1>5. x - 1 \in Nat /\ x - 1 \notin T
  BY <1>3, <1>4
<1>6. x - 1 \in S
  BY <1>5 DEF T
<1> QED BY <1>4, <1>5, <1>6

\* One turn of the scan, over what g returns for later positions.
WalkStep(tickets, window, g, i) ==
  IF i >= Len(tickets) THEN <<>>
  ELSE IF Close(tickets[i], tickets[i + 1], window)
       THEN <<<<tickets[i], tickets[i + 1]>>>> \o g[i + 2]
       ELSE g[i + 1]

\* The scan of the matcher is well defined: some function satisfies the recursion
\* of its loop.
LEMMA WalkExists ==
  ASSUME NEW tickets, Len(tickets) \in Nat, NEW window
  PROVE  \E g : g = [i \in 1..(Len(tickets) + 2) |-> WalkStep(tickets, window, g, i)]
<1> DEFINE n == Len(tickets)
           Good(k, g) == g = [i \in (n + 2 - k)..(n + 2) |-> WalkStep(tickets, window, g, i)]
           S == {k \in Nat : k <= n + 1 => \E g : Good(k, g)}
<1>1. 0 \in S
  <2> DEFINE g == [i \in (n + 2)..(n + 2) |-> <<>>]
  <2>1. Good(0, g)
    BY DEF WalkStep
  <2> HIDE DEF Good, g
  <2> QED BY <2>1
<1>2. ASSUME NEW k \in Nat, k \in S PROVE k + 1 \in S
  <2>1. SUFFICES ASSUME k + 1 <= n + 1 PROVE \E g : Good(k + 1, g)
    OBVIOUS
  <2>2. PICK g : Good(k, g)
    BY <1>2, <2>1
  <2> DEFINE h == [i \in (n + 1 - k)..(n + 2) |->
                     IF i = n + 1 - k THEN WalkStep(tickets, window, g, i) ELSE g[i]]
  <2>3. \A i \in (n + 1 - k)..(n + 2) : WalkStep(tickets, window, h, i) = WalkStep(tickets, window, g, i)
    BY <2>1 DEF WalkStep
  <2>4. \A i \in (n + 2 - k)..(n + 2) : g[i] = WalkStep(tickets, window, g, i)
    BY <2>1, <2>2
  <2>5. h = [i \in (n + 1 - k)..(n + 2) |-> WalkStep(tickets, window, h, i)]
    BY <2>1, <2>3, <2>4
  <2>6. n + 2 - (k + 1) = n + 1 - k
    OBVIOUS
  <2>7. Good(k + 1, h)
    BY <2>5, <2>6
  <2> HIDE DEF Good, h
  <2> QED BY <2>7
<1>3. n + 1 \in S
  <2> HIDE DEF S
  <2> QED BY <1>1, <1>2, Induct
<1>4. PICK g : Good(n + 1, g)
  BY <1>3
<1>5. n + 2 - (n + 1) = 1
  OBVIOUS
<1> QED BY <1>4, <1>5

\* What the scan returns from position i on.
LEMMA WalkDef ==
  ASSUME NEW tickets, Len(tickets) \in Nat, NEW window
  PROVE  Walk(tickets, window) = [i \in 1..(Len(tickets) + 2) |-> WalkStep(tickets, window, Walk(tickets, window), i)]
<1> DEFINE W == CHOOSE g : g = [i \in 1..(Len(tickets) + 2) |-> WalkStep(tickets, window, g, i)]
<1>1. Walk(tickets, window) = W
  BY DEF Walk, WalkStep
<1>2. W = [i \in 1..(Len(tickets) + 2) |-> WalkStep(tickets, window, W, i)]
  BY WalkExists
<1> QED BY <1>1, <1>2

\* Where the pairs found from position i on stand in the snapshot.
Places(tickets, window, i, pos) ==
  LET found == Walk(tickets, window)[i] IN
  /\ pos \in [1..Len(found) -> i..(Len(tickets) - 1)]
  /\ \A j \in 1..Len(found) :
       /\ found[j] = <<tickets[pos[j]], tickets[pos[j] + 1]>>
       /\ Close(tickets[pos[j]], tickets[pos[j] + 1], window)
  /\ \A j, k \in 1..Len(found) : j < k => pos[j] + 2 <= pos[k]

\* The scan pairs neighbours within the window, from left to right, and uses no
\* position twice.
LEMMA WalkPlaces ==
  ASSUME NEW T, NEW tickets \in Seq(T), NEW window
  PROVE  \A i \in 1..(Len(tickets) + 2) :
           /\ Walk(tickets, window)[i] \in Seq(T \X T)
           /\ \E pos : Places(tickets, window, i, pos)
<1> DEFINE n == Len(tickets)
           W == Walk(tickets, window)
           Good(i) == W[i] \in Seq(T \X T) /\ \E pos : Places(tickets, window, i, pos)
           S == {k \in Nat : \A i \in 1..(n + 2) : n + 2 - i <= k => Good(i)}
<1>1. n \in Nat
  OBVIOUS
<1>2. \A i \in 1..(n + 2) : W[i] = WalkStep(tickets, window, W, i)
  BY <1>1, WalkDef
<1>3. ASSUME NEW i \in 1..(n + 2), i >= n PROVE Good(i)
  <2>1. W[i] = <<>>
    BY <1>2, <1>3, Zenon DEF WalkStep
  <2>2. Places(tickets, window, i, <<>>)
    BY <2>1 DEF Places
  <2> QED BY <2>1, <2>2
<1>4. ASSUME NEW i \in 1..(n + 2), i < n, Good(i + 1), Good(i + 2) PROVE Good(i)
  <2> HIDE DEF W
  <2>1. CASE Close(tickets[i], tickets[i + 1], window)
    <3> DEFINE p == <<tickets[i], tickets[i + 1]>>
               f == W[i + 2]
    <3>1. W[i] = <<p>> \o f
      <4>1. W[i] = WalkStep(tickets, window, W, i) /\ ~(i >= n)
        BY <1>1, <1>2, <1>4
      <4> QED BY <4>1, <2>1, Zenon DEF WalkStep
    <3>2. p \in T \X T /\ f \in Seq(T \X T)
      BY <1>4
    <3>3. W[i] \in Seq(T \X T) /\ Len(W[i]) = Len(f) + 1
      BY <3>1, <3>2
    <3>4. W[i][1] = p /\ \A j \in 2..(Len(f) + 1) : W[i][j] = f[j - 1]
      BY <3>1, <3>2
    <3>5. PICK pos : Places(tickets, window, i + 2, pos)
      BY <1>4
    <3>6. /\ pos \in [1..Len(f) -> (i + 2)..(n - 1)]
          /\ \A j \in 1..Len(f) : /\ f[j] = <<tickets[pos[j]], tickets[pos[j] + 1]>>
                                  /\ Close(tickets[pos[j]], tickets[pos[j] + 1], window)
          /\ \A j, k \in 1..Len(f) : j < k => pos[j] + 2 <= pos[k]
      BY <3>5 DEF Places, W
    <3> DEFINE q == [j \in 1..(Len(f) + 1) |-> IF j = 1 THEN i ELSE pos[j - 1]]
    <3>7. Len(f) \in Nat
      BY <3>2
    <3> HIDE DEF f
    <3>8. q \in [1..Len(W[i]) -> i..(n - 1)]
      BY <3>3, <3>6, <3>7, <1>4
    <3>9. \A j \in 1..(Len(f) + 1) : j = 1 \/ j - 1 \in 1..Len(f)
      BY <3>7
    <3>10. \A j \in 1..Len(W[i]) :
             /\ W[i][j] = <<tickets[q[j]], tickets[q[j] + 1]>>
             /\ Close(tickets[q[j]], tickets[q[j] + 1], window)
      <4> SUFFICES ASSUME NEW j \in 1..(Len(f) + 1)
                   PROVE  /\ W[i][j] = <<tickets[q[j]], tickets[q[j] + 1]>>
                          /\ Close(tickets[q[j]], tickets[q[j] + 1], window)
        BY <3>3
      <4>1. CASE j = 1
        <5>1. q[1] = i
          BY <3>7
        <5> QED BY <4>1, <5>1, <3>4, <2>1
      <4>2. CASE j # 1
        <5>1. q[j] = pos[j - 1] /\ j - 1 \in 1..Len(f) /\ j \in 2..(Len(f) + 1)
          BY <4>2, <3>7
        <5>2. W[i][j] = f[j - 1]
          BY <5>1, <3>4
        <5> HIDE DEF q
        <5> QED BY <5>1, <5>2, <3>6
      <4> QED BY <4>1, <4>2
    <3>11. \A j, k \in 1..Len(W[i]) : j < k => q[j] + 2 <= q[k]
      <4> SUFFICES ASSUME NEW j \in 1..(Len(f) + 1), NEW k \in 1..(Len(f) + 1), j < k
                   PROVE  q[j] + 2 <= q[k]
        BY <3>3
      <4>1. k - 1 \in 1..Len(f) /\ q[k] = pos[k - 1]
        BY <3>7
      <4>2. CASE j = 1
        BY <4>1, <4>2, <3>6, <3>7
      <4>3. CASE j # 1
        <5>1. j - 1 \in 1..Len(f) /\ q[j] = pos[j - 1] /\ j - 1 < k - 1
          BY <4>3, <3>7
        <5> HIDE DEF q
        <5> QED BY <4>1, <5>1, <3>6
      <4> QED BY <4>2, <4>3
    <3>12. Places(tickets, window, i, q)
      BY <3>8, <3>10, <3>11, Zenon DEF Places, W
    <3> QED BY <3>3, <3>12
  <2>2. CASE ~(Close(tickets[i], tickets[i + 1], window))
    <3>1. W[i] = W[i + 1]
      <4>1. W[i] = WalkStep(tickets, window, W, i) /\ ~(i >= n)
        BY <1>1, <1>2, <1>4
      <4> QED BY <4>1, <2>2, Zenon DEF WalkStep
    <3>2. PICK pos : Places(tickets, window, i + 1, pos)
      BY <1>4
    <3>3. Places(tickets, window, i, pos)
      BY <3>1, <3>2, <1>4 DEF Places, W
    <3> QED BY <3>1, <3>3, <1>4
  <2> QED BY <2>1, <2>2
<1> HIDE DEF W
<1>5. 0 \in S
  <2> HIDE DEF Good
  <2> QED BY <1>1, <1>3
<1>6. ASSUME NEW k \in Nat, k \in S PROVE k + 1 \in S
  <2> HIDE DEF Good
  <2>1. SUFFICES ASSUME NEW i \in 1..(n + 2), n + 2 - i <= k + 1 PROVE Good(i)
    OBVIOUS
  <2>2. CASE i >= n
    BY <1>3, <2>2
  <2>3. CASE i < n
    <3>1. i + 1 \in 1..(n + 2) /\ i + 2 \in 1..(n + 2)
      BY <2>3, <1>1
    <3>2. n + 2 - (i + 1) <= k /\ n + 2 - (i + 2) <= k
      BY <2>1, <1>1
    <3>3. Good(i + 1) /\ Good(i + 2)
      BY <3>1, <3>2, <1>6
    <3> QED BY <3>3, <2>3, <1>4
  <2> QED BY <2>2, <2>3, <1>1
<1>7. n + 2 \in S
  <2> HIDE DEF S
  <2> QED BY <1>1, <1>5, <1>6, Induct
<1> QED
  <2>1. \A i \in 1..(n + 2) : n + 2 - i <= n + 2
    BY <1>1
  <2> HIDE DEF Good
  <2>2. \A i \in 1..(n + 2) : Good(i)
    BY <2>1, <1>7
  <2> QED BY <2>2 DEF Good, W

\* Length and elements of a sequence.
LEMMA SeqElements ==
  ASSUME NEW T, NEW s \in Seq(T)
  PROVE  Len(s) \in Nat /\ DOMAIN s = 1..Len(s) /\ \A k \in 1..Len(s) : s[k] \in T
OBVIOUS

\* Snapshots: tickets in the order of their ranks.
IsSnapshot(tickets) ==
  /\ tickets \in Seq([ticket : Nat, rank : Int])
  /\ \A i, j \in 1..Len(tickets) : i <= j => tickets[i].rank <= tickets[j].rank

EdgesFrom(tickets, window, i) == {e \in Edges(tickets, window) : e[1] >= i}

\* A snapshot has finitely many compatible pairs.
LEMMA EdgesFinite ==
  ASSUME NEW tickets, IsSnapshot(tickets), NEW window
  PROVE  IsFiniteSet(Edges(tickets, window))
<1> DEFINE n == Len(tickets)
<1>1. n \in Nat /\ DOMAIN tickets = 1..n
  BY DEF IsSnapshot
<1>2. IsFiniteSet(1..n)
  BY <1>1, FS_Interval
<1>3. IsFiniteSet((1..n) \X (1..n))
  BY <1>2, FS_Product
<1>4. Edges(tickets, window) \in SUBSET ((1..n) \X (1..n))
  BY <1>1 DEF Edges
<1> QED BY <1>3, <1>4, FS_Subset

\* With i matched to i + 1 at hand, a matching gives up at most one pair.
LEMMA Exchange ==
  ASSUME NEW tickets, IsSnapshot(tickets), NEW window \in Int,
         NEW i \in 1..Len(tickets), i < Len(tickets),
         NEW M \in SUBSET EdgesFrom(tickets, window, i), Disjoint(M)
  PROVE  \E R \in SUBSET EdgesFrom(tickets, window, i + 2) :
           Disjoint(R) /\ Cardinality(M) <= Cardinality(R) + 1
<1> DEFINE n == Len(tickets)
           E == EdgesFrom(tickets, window, i)
           F == EdgesFrom(tickets, window, i + 2)
<1>1. n \in Nat /\ DOMAIN tickets = 1..n /\ \A k \in 1..n : tickets[k].rank \in Int
  <2>1. tickets \in Seq([ticket : Nat, rank : Int])
    BY DEF IsSnapshot
  <2>2. \A k \in 1..n : tickets[k] \in [ticket : Nat, rank : Int]
    BY <2>1, SeqElements, Zenon
  <2> QED BY <2>1, <2>2, SeqElements
<1>2. IsFiniteSet(M)
  <2>1. M \in SUBSET Edges(tickets, window)
    BY DEF EdgesFrom
  <2> QED BY <2>1, EdgesFinite, FS_Subset
<1>3. \A e \in M : /\ e = <<e[1], e[2]>> /\ e[1] \in 1..n /\ e[2] \in 1..n
                   /\ e[1] < e[2] /\ i <= e[1]
                   /\ tickets[e[2]].rank - tickets[e[1]].rank <= window
  BY <1>1 DEF EdgesFrom, Edges
<1>4. \A e \in M : e[1] \notin {i, i + 1} => e \in F
  BY <1>1, <1>3 DEF EdgesFrom
<1>5. \A e, f \in M : e # f => e[1] # f[1] /\ e[1] # f[2] /\ e[2] # f[1] /\ e[2] # f[2]
  BY Zenon DEF Disjoint
<1> HIDE DEF F
<1>6. CASE \A e \in M : e[1] \notin {i, i + 1}
  <2>1. M \in SUBSET F
    BY <1>6, <1>4
  <2>2. Cardinality(M) \in Nat
    BY <1>2, FS_CardinalityType
  <2> QED BY <2>1, <2>2 DEF F
<1>7. ASSUME NEW e \in M, e[1] \in {i, i + 1}, \A f \in M : f[1] \in {i, i + 1} => f = e
      PROVE  \E R \in SUBSET F : Disjoint(R) /\ Cardinality(M) <= Cardinality(R) + 1
  <2>1. M \ {e} \in SUBSET F
    BY <1>4, <1>7
  <2>2. Disjoint(M \ {e})
    BY DEF Disjoint
  <2>3. Cardinality(M \ {e}) = Cardinality(M) - 1 /\ Cardinality(M) \in Nat
    BY <1>2, FS_RemoveElement, FS_CardinalityType
  <2> QED BY <2>1, <2>2, <2>3
<1>8. ASSUME NEW e \in M, NEW f \in M, e[1] = i, f[1] = i + 1
      PROVE  \E R \in SUBSET F : Disjoint(R) /\ Cardinality(M) <= Cardinality(R) + 1
  <2> DEFINE a == e[2]
             b == f[2]
             c == IF a < b THEN <<a, b>> ELSE <<b, a>>
             N == (M \ {e}) \ {f}
             R == N \cup {c}
  <2>1. e # f /\ a # b /\ a # i + 1 /\ a \in (i + 2)..n /\ b \in (i + 2)..n
    BY <1>1, <1>3, <1>5, <1>8
  <2>2. /\ tickets[a].rank - tickets[i].rank <= window
        /\ tickets[b].rank - tickets[i + 1].rank <= window
    BY <1>3, <1>8
  <2>3. tickets[i].rank <= tickets[b].rank /\ tickets[i + 1].rank <= tickets[a].rank
    <3>1. i + 1 \in 1..n /\ a \in 1..n /\ b \in 1..n /\ i <= b /\ i + 1 <= a
      BY <1>1, <2>1
    <3> HIDE DEF a, b
    <3> QED BY <3>1, Zenon DEF IsSnapshot
  <2>4. tickets[b].rank - tickets[a].rank <= window /\ tickets[a].rank - tickets[b].rank <= window
    <3>1. i + 1 \in 1..n
      BY <1>1
    <3>2. /\ tickets[a].rank \in Int /\ tickets[b].rank \in Int
          /\ tickets[i].rank \in Int /\ tickets[i + 1].rank \in Int
      BY <1>1, <2>1, <3>1
    <3> HIDE DEF a, b
    <3> QED BY <2>2, <2>3, <3>2
  <2>5. c \in F
    BY <1>1, <2>1, <2>4 DEF F, EdgesFrom, Edges
  <2>6. N \in SUBSET F
    <3>1. \A x \in N : x[1] # i /\ x[1] # i + 1
      BY <1>5, <1>8
    <3> QED BY <3>1, <1>4
  <2>7. \A x \in N : {x[1], x[2]} \cap {a, b} = {}
    BY <1>5
  <2>8. {c[1], c[2]} = {a, b}
    OBVIOUS
  <2>9. \A x \in N : {x[1], x[2]} \cap {c[1], c[2]} = {}
    BY <2>7, <2>8
  <2>10. c \notin N
    <3>1. SUFFICES ASSUME c \in N PROVE FALSE
      OBVIOUS
    <3> HIDE DEF c, N
    <3> QED BY <3>1, <2>9, Zenon
  <2>11. Disjoint(R)
    <3> HIDE DEF c
    <3> SUFFICES ASSUME NEW x \in R, NEW y \in R, x # y
                 PROVE  {x[1], x[2]} \cap {y[1], y[2]} = {}
      BY DEF Disjoint
    <3>1. CASE x \in M /\ y \in M
      BY <3>1 DEF Disjoint
    <3>2. CASE x = c
      BY <3>2, <2>9
    <3>3. CASE y = c
      BY <3>3, <2>9
    <3> QED BY <3>1, <3>2, <3>3
  <2>12. Cardinality(R) = Cardinality(M) - 1 /\ Cardinality(M) \in Nat
    <3>1. IsFiniteSet(M \ {e}) /\ Cardinality(M \ {e}) = Cardinality(M) - 1
      BY <1>2, FS_RemoveElement
    <3>2. f \in M \ {e}
      BY <2>1
    <3>3. IsFiniteSet(N) /\ Cardinality(N) = Cardinality(M \ {e}) - 1
      BY <3>1, <3>2, FS_RemoveElement, Zenon
    <3> HIDE DEF N, c
    <3>4. Cardinality(R) = Cardinality(N) + 1
      BY <2>10, <3>3, FS_AddElement, Zenon
    <3>5. Cardinality(M) \in Nat
      BY <1>2, FS_CardinalityType
    <3> QED BY <3>1, <3>3, <3>4, <3>5
  <2>13. R \in SUBSET F
    BY <2>5, <2>6
  <2> HIDE DEF R
  <2> QED BY <2>11, <2>12, <2>13
<1>9. \E R \in SUBSET F : Disjoint(R) /\ Cardinality(M) <= Cardinality(R) + 1
  <2>1. CASE \E e, f \in M : e[1] = i /\ f[1] = i + 1
    BY <2>1, <1>8
  <2>2. CASE ~\E e, f \in M : e[1] = i /\ f[1] = i + 1
    <3>1. \A e, f \in M : e[1] \in {i, i + 1} /\ f[1] \in {i, i + 1} => e = f
      BY <2>2, <1>5
    <3>2. CASE \E e \in M : e[1] \in {i, i + 1}
      BY <3>1, <3>2, <1>7
    <3>3. CASE ~\E e \in M : e[1] \in {i, i + 1}
      BY <3>3, <1>6 DEF F
    <3> QED BY <3>2, <3>3
  <2> QED BY <2>1, <2>2
<1> QED BY <1>9 DEF F

\* No matching of the positions from i on is larger than what the walk finds there.
LEMMA WalkIsLargest ==
  ASSUME NEW tickets, IsSnapshot(tickets), NEW window \in Int
  PROVE  \A i \in 1..(Len(tickets) + 2) : \A M \in SUBSET EdgesFrom(tickets, window, i) :
           Disjoint(M) => Cardinality(M) <= Len(Walk(tickets, window)[i])
<1> DEFINE n == Len(tickets)
           W == Walk(tickets, window)
           T == [ticket : Nat, rank : Int]
           Good(i) == \A M \in SUBSET EdgesFrom(tickets, window, i) :
                        Disjoint(M) => Cardinality(M) <= Len(W[i])
           S == {k \in Nat : \A i \in 1..(n + 2) : n + 2 - i <= k => Good(i)}
<1>1. tickets \in Seq(T) /\ n \in Nat /\ DOMAIN tickets = 1..n
  BY DEF IsSnapshot
<1>2. \A i \in 1..(n + 2) : W[i] = WalkStep(tickets, window, W, i) /\ W[i] \in Seq(T \X T)
  <2> HIDE DEF T
  <2> QED BY <1>1, WalkDef, WalkPlaces
<1>3. \A k \in 1..n : tickets[k].rank \in Int
  <2>1. \A k \in 1..n : tickets[k] \in T
    <3> HIDE DEF T
    <3> QED BY <1>1, SeqElements
  <2> QED BY <2>1
<1> HIDE DEF W, T
<1>4. ASSUME NEW i \in 1..(n + 2), i >= n PROVE Good(i)
  <2>1. EdgesFrom(tickets, window, i) = {}
    BY <1>1, <1>4 DEF EdgesFrom, Edges
  <2>2. Len(W[i]) \in Nat
    BY <1>2
  <2> QED BY <2>1, <2>2, FS_EmptySet
<1>5. ASSUME NEW i \in 1..(n + 2), i < n, Good(i + 1), Good(i + 2) PROVE Good(i)
  <2>0. i \in 1..n /\ i + 1 \in 1..n /\ ~(i >= n) /\ W[i] = WalkStep(tickets, window, W, i)
    BY <1>1, <1>2, <1>5
  <2>1. CASE Close(tickets[i], tickets[i + 1], window)
    <3>1. W[i] = <<<<tickets[i], tickets[i + 1]>>>> \o W[i + 2]
      BY <2>0, <2>1, Zenon DEF WalkStep
    <3>2. W[i + 2] \in Seq(T \X T)
      BY <1>1, <1>2, <1>5
    <3>3. <<tickets[i], tickets[i + 1]>> \in T \X T
      <4>1. tickets[i] \in T /\ tickets[i + 1] \in T
        BY <1>1, <2>0, SeqElements
      <4> QED BY <4>1
    <3>4. Len(W[i]) = Len(W[i + 2]) + 1 /\ Len(W[i + 2]) \in Nat
      BY <3>1, <3>2, <3>3
    <3> SUFFICES ASSUME NEW M \in SUBSET EdgesFrom(tickets, window, i), Disjoint(M)
                 PROVE  Cardinality(M) <= Len(W[i])
      OBVIOUS
    <3>5. PICK R \in SUBSET EdgesFrom(tickets, window, i + 2) :
             Disjoint(R) /\ Cardinality(M) <= Cardinality(R) + 1
      BY <1>5, <2>0, Exchange
    <3>6. Cardinality(R) <= Len(W[i + 2])
      BY <1>5, <3>5
    <3>7. Cardinality(M) \in Nat /\ Cardinality(R) \in Nat
      <4>1. IsFiniteSet(Edges(tickets, window))
        BY EdgesFinite
      <4>2. M \in SUBSET Edges(tickets, window) /\ R \in SUBSET Edges(tickets, window)
        BY DEF EdgesFrom
      <4>3. IsFiniteSet(M) /\ IsFiniteSet(R)
        BY <4>1, <4>2, FS_Subset
      <4> QED BY <4>3, FS_CardinalityType
    <3> QED BY <3>4, <3>5, <3>6, <3>7
  <2>2. CASE ~Close(tickets[i], tickets[i + 1], window)
    <3>1. W[i] = W[i + 1]
      BY <2>0, <2>2, Zenon DEF WalkStep
    <3>2. tickets[i + 1].rank - tickets[i].rank > window
      BY <2>0, <2>2, <1>3 DEF Close
    <3>3. EdgesFrom(tickets, window, i) \subseteq EdgesFrom(tickets, window, i + 1)
      <4> SUFFICES ASSUME NEW e \in EdgesFrom(tickets, window, i), e[1] = i PROVE FALSE
        BY <1>1 DEF EdgesFrom, Edges
      <4>1. e[2] \in 1..n /\ i < e[2] /\ tickets[e[2]].rank - tickets[i].rank <= window
        BY <1>1 DEF EdgesFrom, Edges
      <4>2. tickets[i + 1].rank <= tickets[e[2]].rank
        <5>1. i + 1 <= e[2]
          BY <4>1, <2>0
        <5> QED BY <4>1, <5>1, <2>0, Zenon DEF IsSnapshot
      <4>3. tickets[i + 1].rank \in Int /\ tickets[e[2]].rank \in Int /\ tickets[i].rank \in Int
        BY <4>1, <2>0, <1>3
      <4> QED BY <4>1, <4>2, <4>3, <3>2
    <3> QED BY <3>1, <3>3, <1>5
  <2> QED BY <2>1, <2>2
<1> HIDE DEF Good
<1>6. 0 \in S
  BY <1>1, <1>4
<1>7. ASSUME NEW k \in Nat, k \in S PROVE k + 1 \in S
  <2>1. SUFFICES ASSUME NEW i \in 1..(n + 2), n + 2 - i <= k + 1 PROVE Good(i)
    OBVIOUS
  <2>2. CASE i >= n
    BY <1>4, <2>2
  <2>3. CASE i < n
    <3>1. i + 1 \in 1..(n + 2) /\ i + 2 \in 1..(n + 2)
      BY <2>3, <1>1
    <3>2. n + 2 - (i + 1) <= k /\ n + 2 - (i + 2) <= k
      BY <2>1, <1>1
    <3>3. Good(i + 1) /\ Good(i + 2)
      BY <3>1, <3>2, <1>7
    <3> QED BY <3>3, <2>3, <1>5
  <2> QED BY <2>2, <2>3, <1>1
<1>8. n + 2 \in S
  <2> HIDE DEF S
  <2> QED BY <1>1, <1>6, <1>7, Induct
<1>9. \A i \in 1..(n + 2) : Good(i)
  BY <1>1, <1>8
<1> QED BY <1>9 DEF Good, W

\* matcher.go, "Greedy adjacent pairing on a sorted list is optimal".
THEOREM GreedyIsMaximum ==
  ASSUME NEW tickets, IsSnapshot(tickets), NEW window \in Int,
         \A i \in 1..Len(tickets) : tickets[i].ticket = i
  PROVE  Maximum(tickets, window)
<1> DEFINE n == Len(tickets)
           T == [ticket : Nat, rank : Int]
           found == Pair(tickets, window)
           matching == {<<found[i][1].ticket, found[i][2].ticket>> : i \in DOMAIN found}
<1>1. tickets \in Seq(T) /\ n \in Nat /\ DOMAIN tickets = 1..n
  BY DEF IsSnapshot
<1>2. found = Walk(tickets, window)[1] /\ 1 \in 1..(n + 2)
  BY <1>1 DEF Pair
<1>3. found \in Seq(T \X T) /\ \E pos : Places(tickets, window, 1, pos)
  <2> HIDE DEF T, found
  <2> QED BY <1>1, <1>2, WalkPlaces, Zenon
<1> HIDE DEF T, found
<1>4. Len(found) \in Nat /\ DOMAIN found = 1..Len(found)
  BY <1>3
<1>5. PICK pos : /\ pos \in [1..Len(found) -> 1..(n - 1)]
                 /\ \A j \in 1..Len(found) :
                      /\ found[j] = <<tickets[pos[j]], tickets[pos[j] + 1]>>
                      /\ Close(tickets[pos[j]], tickets[pos[j] + 1], window)
                 /\ \A j, k \in 1..Len(found) : j < k => pos[j] + 2 <= pos[k]
  BY <1>2, <1>3 DEF Places
<1>6. \A j \in 1..Len(found) : pos[j] \in 1..n /\ pos[j] + 1 \in 1..n
  BY <1>1, <1>4, <1>5
<1>7. \A j \in 1..Len(found) :
        <<found[j][1].ticket, found[j][2].ticket>> = <<pos[j], pos[j] + 1>>
  <2> SUFFICES ASSUME NEW j \in 1..Len(found)
               PROVE  found[j][1].ticket = pos[j] /\ found[j][2].ticket = pos[j] + 1
    OBVIOUS
  <2>1. found[j][1] = tickets[pos[j]] /\ found[j][2] = tickets[pos[j] + 1]
    BY <1>5
  <2> QED BY <2>1, <1>6
<1>8. matching = {<<pos[j], pos[j] + 1>> : j \in 1..Len(found)}
  BY <1>4, <1>7
<1> HIDE DEF matching
<1>9. matching \subseteq Edges(tickets, window)
  <2> SUFFICES ASSUME NEW j \in 1..Len(found)
               PROVE  <<pos[j], pos[j] + 1>> \in Edges(tickets, window)
    BY <1>8
  <2>1. Close(tickets[pos[j]], tickets[pos[j] + 1], window)
    BY <1>5
  <2> QED BY <1>1, <1>6, <2>1 DEF Edges, Close
<1>10. \A j, k \in 1..Len(found) : j # k => {pos[j], pos[j] + 1} \cap {pos[k], pos[k] + 1} = {}
  <2> SUFFICES ASSUME NEW j \in 1..Len(found), NEW k \in 1..Len(found), j # k
               PROVE  {pos[j], pos[j] + 1} \cap {pos[k], pos[k] + 1} = {}
    OBVIOUS
  <2>1. pos[j] \in Int /\ pos[k] \in Int /\ (pos[j] + 2 <= pos[k] \/ pos[k] + 2 <= pos[j])
    BY <1>4, <1>5, <1>6
  <2> QED BY <2>1
<1>11. Disjoint(matching)
  BY <1>8, <1>10 DEF Disjoint
<1>12. Cardinality(matching) = Len(found)
  <2> DEFINE g == [j \in 1..Len(found) |-> <<pos[j], pos[j] + 1>>]
  <2>1. g \in Surjection(1..Len(found), matching)
    <3>1. g \in [1..Len(found) -> matching]
      BY <1>8
    <3>2. \A m \in matching : \E j \in 1..Len(found) : g[j] = m
      BY <1>8
    <3> QED BY <3>1, <3>2, Zenon DEF Surjection
  <2>2. \A j, k \in 1..Len(found) : g[j] = g[k] => j = k
    <3>1. \A j, k \in 1..Len(found) : g[j] = g[k] => pos[j] = pos[k]
      OBVIOUS
    <3> HIDE DEF g
    <3> QED BY <3>1, <1>10, Zenon
  <2>3. g \in Bijection(1..Len(found), matching)
    <3> HIDE DEF g
    <3> QED BY <2>1, <2>2 DEF Bijection, Injection, Surjection, IsInjective
  <2>4. ExistsBijection(1..Len(found), matching)
    BY <2>3 DEF ExistsBijection
  <2>5. IsFiniteSet(1..Len(found)) /\ Cardinality(1..Len(found)) = Len(found)
    <3> DEFINE m == Len(found)
    <3>1. m \in Nat /\ (~(1 > m) \/ m = 0)
      BY <1>4
    <3> HIDE DEF m
    <3>2. IsFiniteSet(1..m) /\ Cardinality(1..m) = IF 1 > m THEN 0 ELSE m - 1 + 1
      BY <3>1, FS_Interval
    <3>3. Cardinality(1..m) = m
      BY <3>1, <3>2
    <3> QED BY <3>2, <3>3 DEF m
  <2> QED BY <2>4, <2>5, FS_Bijection
<1>13. ASSUME NEW M \in kSubset(Len(found) + 1, Edges(tickets, window)), Disjoint(M)
       PROVE  FALSE
  <2>1. M \in SUBSET EdgesFrom(tickets, window, 1)
    BY <1>1 DEF kSubset, EdgesFrom, Edges
  <2>2. Cardinality(M) <= Len(found)
    BY <2>1, <1>2, <1>13, WalkIsLargest
  <2>3. Cardinality(M) = Len(found) + 1
    BY DEF kSubset
  <2> QED BY <2>2, <2>3, <1>4
<1> QED BY <1>9, <1>11, <1>12, <1>13 DEF Maximum, found, matching

-----------------------------------------------------------------------------
(* The match loop *)

Has(p, t) == t \in 1..Len(joins) /\ joins[t].player = p
JoinedTwice(p) == \E t, u \in 1..Len(joins) : t < u /\ Has(p, t) /\ Has(p, u)
Pending(c, p) == calls[c] = HSetOf(p)

\* A member's ticket is its player's last.
QueueInv ==
  \A p \in Players : zset[p] # 0 =>
    Has(p, zset[p]) /\ \A t \in 1..Len(joins) : Has(p, t) => t <= zset[p]

\* Two tickets of different players in the order of their ranks, within the window.
Playable(x) ==
  /\ x[1] \in 1..Len(joins) /\ x[2] \in 1..Len(joins)
  /\ joins[x[1]].player # joins[x[2]].player
  /\ joins[x[2]].rank - joins[x[1]].rank \in 0..Window

Apart(x, y) == x[1] # y[1] /\ x[1] # y[2] /\ x[2] # y[1] /\ x[2] # y[2]

Dequeued(x) == \A p \in Players : zset[p] # x[1] /\ zset[p] # x[2]

\* The pairs of a tick are playable, share no ticket, and none was told before;
\* they are stored before they are dequeued, and dequeued before they are told.
PairsInv ==
  /\ pairs = <<>> <=> pc \notin {"save", "dequeueZ", "dequeueH", "publish"}
  /\ \A i \in 1..Len(pairs) : Playable(pairs[i])
  /\ \A i, j \in 1..Len(pairs) : i # j => Apart(pairs[i], pairs[j])
  /\ \A i \in 1..Len(pairs), x \in told : Apart(pairs[i], x)
  /\ pc \in {"dequeueZ", "dequeueH", "publish"} => \A i \in 1..Len(pairs) : pairs[i] \in rooms
  /\ pc \in {"dequeueH", "publish"} => \A i \in 1..Len(pairs) : Dequeued(pairs[i])

ToldInv ==
  /\ \A x \in told : x \in rooms /\ Playable(x) /\ Dequeued(x)
  /\ \A x, y \in told : x # y => Apart(x, y)

\* Without a fault the loop is not asked to stop, and who waits is queued or
\* about to be told.
WaitingInv ==
  faults = 0 =>
    /\ ~stopping
    /\ \A p \in waiting :
         zset[p] # 0 \/ (pc \in {"dequeueH", "publish"} /\ p \in PlayersOf(pairs))

\* A join time, or one about to be written, comes from a join; two of them, or
\* one beside an eviction that has read another, from two joins.
JoinTimesInv ==
  /\ \A p \in Players : joined[p] # "none" => \E t \in 1..Len(joins) : Has(p, t)
  /\ \A p \in Players, c \in Requests : Pending(c, p) => \E t \in 1..Len(joins) : Has(p, t)
  /\ \A p \in Players, c \in Requests : Pending(c, p) /\ joined[p] # "none" => JoinedTwice(p)
  /\ \A p \in Players, c, d \in Requests :
       Pending(c, p) /\ Pending(d, p) /\ c # d => JoinedTwice(p)
  /\ pc = "evictZ" => \A p \in batch :
       /\ \E t \in 1..Len(joins) : Has(p, t)
       /\ \A c \in Requests : Pending(c, p) => JoinedTwice(p)
       /\ joined[p] = "fresh" => JoinedTwice(p)

MatchInv ==
  TypeOK /\ QueueInv /\ PairsInv /\ ToldInv /\ WaitingInv /\ JoinTimesInv

\* A set of players with ranks has a first one.
LEMMA FirstOfSet ==
  ASSUME NEW S \in SUBSET Nat, S # {}, NEW Q, S \subseteq Q, NEW rk \in [Q -> Nat]
  PROVE  \E m \in S : \A q \in S \ {m} : rk[m] < rk[q] \/ (rk[m] = rk[q] /\ m < q)
<1> DEFINE R == {rk[p] : p \in S}
           Low(r) == {p \in S : rk[p] = r}
<1>1. PICK r \in R : \A x \in R : r <= x
  <2>1. R \in SUBSET Nat /\ R # {}
    BY Zenon
  <2> HIDE DEF R
  <2> QED BY <2>1, LeastNat
<1>2. PICK m \in Low(r) : \A p \in Low(r) : m <= p
  <2>1. Low(r) \in SUBSET Nat /\ Low(r) # {}
    BY Zenon
  <2> HIDE DEF Low
  <2> QED BY <2>1, LeastNat
<1>3. m \in S /\ rk[m] = r /\ r \in Nat
  OBVIOUS
<1>4. ASSUME NEW q \in S \ {m} PROVE rk[m] < rk[q] \/ (rk[m] = rk[q] /\ m < q)
  <2>1. rk[q] \in Nat /\ rk[m] <= rk[q]
    BY <1>1, <1>3
  <2>2. CASE rk[q] = r
    <3>1. q \in Low(r)
      BY <2>2
    <3>2. m <= q /\ m \in Nat /\ q \in Nat
      BY <1>2, <3>1
    <3> QED BY <3>2, <2>2, <1>3
  <2>3. CASE rk[q] # r
    BY <2>1, <2>3, <1>3
  <2> QED BY <2>2, <2>3
<1> QED BY <1>3, <1>4

\* So it can be listed in the order of the sorted set.
LEMMA SortedList ==
  ASSUME NEW Q \in SUBSET Nat, IsFiniteSet(Q), NEW rk \in [Q -> Nat]
  PROVE  \E s \in [1..Cardinality(Q) -> Q] : \A i, j \in 1..Cardinality(Q) :
           i < j => rk[s[i]] < rk[s[j]] \/ (rk[s[i]] = rk[s[j]] /\ s[i] < s[j])
<1> DEFINE Lt(p, q) == rk[p] < rk[q] \/ (rk[p] = rk[q] /\ p < q)
           Sorted(S, n) == \E s \in [1..n -> S] : \A i, j \in 1..n : i < j => Lt(s[i], s[j])
           G == {n \in Nat : \A S \in SUBSET Q : Cardinality(S) = n => Sorted(S, n)}
<1>1. 0 \in G
  <2>1. ASSUME NEW S PROVE Sorted(S, 0)
    <3>1. <<>> \in [1..0 -> S]
      OBVIOUS
    <3>2. \A i, j \in 1..0 : i < j => Lt(<<>>[i], <<>>[j])
      OBVIOUS
    <3> QED BY <3>1, <3>2, Zenon
  <2> HIDE DEF Sorted
  <2> QED BY <2>1
<1>2. ASSUME NEW n \in Nat, n \in G PROVE n + 1 \in G
  <2> SUFFICES ASSUME NEW S \in SUBSET Q, Cardinality(S) = n + 1 PROVE Sorted(S, n + 1)
    OBVIOUS
  <2>1. IsFiniteSet(S) /\ S # {}
    <3>1. IsFiniteSet(S)
      BY FS_Subset, Zenon
    <3>2. Cardinality(S) # 0
      OBVIOUS
    <3> QED BY <3>1, <3>2, FS_EmptySet
  <2>2. PICK m \in S : \A q \in S \ {m} : Lt(m, q)
    BY <2>1, FirstOfSet, Zenon
  <2>3. S \ {m} \in SUBSET Q /\ Cardinality(S \ {m}) = n
    <3>1. Cardinality(S \ {m}) = Cardinality(S) - 1
      BY <2>1, FS_RemoveElement, Zenon
    <3> QED BY <3>1
  <2>4. PICK s \in [1..n -> S \ {m}] : \A i, j \in 1..n : i < j => Lt(s[i], s[j])
    BY <1>2, <2>3
  <2> DEFINE t == [i \in 1..(n + 1) |-> IF i = 1 THEN m ELSE s[i - 1]]
  <2>5. t[1] = m /\ \A i \in 2..(n + 1) : t[i] = s[i - 1] /\ i - 1 \in 1..n
    OBVIOUS
  <2>6. t \in [1..(n + 1) -> S]
    OBVIOUS
  <2> HIDE DEF t, Lt
  <2>7. ASSUME NEW i \in 1..(n + 1), NEW j \in 1..(n + 1), i < j PROVE Lt(t[i], t[j])
    <3>1. j \in 2..(n + 1) /\ t[j] = s[j - 1] /\ s[j - 1] \in S \ {m}
      BY <2>5, <2>7
    <3>2. CASE i = 1
      BY <3>1, <3>2, <2>2, <2>5, Zenon
    <3>3. CASE i # 1
      <4>1. i \in 2..(n + 1) /\ i - 1 \in 1..n /\ j - 1 \in 1..n /\ i - 1 < j - 1
        BY <3>3, <2>7
      <4> QED BY <4>1, <3>1, <2>4, <2>5
    <3> QED BY <3>2, <3>3
  <2> QED BY <2>6, <2>7
<1>3. Cardinality(Q) \in G
  <2>1. Cardinality(Q) \in Nat
    BY FS_CardinalityType
  <2> HIDE DEF G
  <2> QED BY <2>1, <1>1, <1>2, Induct
<1> QED BY <1>3

\* Redis lists the queue in the order of the ranks, every member once.
LEMMA OrderSorted ==
  ASSUME TypeOK, QueueInv
  PROVE  /\ Order \in SetToSeqs(Queued)
         /\ \A i, j \in DOMAIN Order : i < j => Before(Order[i], Order[j])
         /\ Order \in Seq(Queued)
         /\ \A i, j \in 1..Len(Order) : i # j => Order[i] # Order[j]
<1> DEFINE rk == [p \in Queued |-> joins[zset[p]].rank]
           k == Cardinality(Queued)
<1>1. Queued \in SUBSET Nat /\ IsFiniteSet(Queued)
  <2>1. IsFiniteSet(Players)
    BY MatchmakingAssumption, FS_Interval DEF Players
  <2>2. Queued \in SUBSET Players
    BY DEF Queued
  <2>3. Players \in SUBSET Nat
    BY DEF Players
  <2> QED BY <2>1, <2>2, <2>3, FS_Subset, Zenon
<1>2. rk \in [Queued -> Nat]
  <2>1. \A t \in 1..Len(joins) : joins[t].rank \in Ranks
    <3>1. joins \in Seq([player : Players, rank : Ranks])
      BY DEF TypeOK
    <3>2. \A t \in 1..Len(joins) : joins[t] \in [player : Players, rank : Ranks]
      BY <3>1, SeqElements, Zenon
    <3> QED BY <3>2
  <2>2. \A p \in Queued : zset[p] \in 1..Len(joins)
    BY DEF QueueInv, Has, Queued
  <2> QED BY <2>1, <2>2, MatchmakingAssumption
<1>3. k \in Nat
  BY <1>1, FS_CardinalityType
<1>4. PICK s \in [1..k -> Queued] : \A i, j \in 1..k :
         i < j => rk[s[i]] < rk[s[j]] \/ (rk[s[i]] = rk[s[j]] /\ s[i] < s[j])
  BY <1>1, <1>2, SortedList, Zenon
<1>5. \A i, j \in 1..k : i < j => Before(s[i], s[j])
  BY <1>4, Zenon DEF Before
<1>6. \A i, j \in 1..k : i # j => s[i] # s[j]
  <2> SUFFICES ASSUME NEW i \in 1..k, NEW j \in 1..k, i # j, s[i] = s[j] PROVE FALSE
    OBVIOUS
  <2>1. rk[s[i]] \in Nat /\ s[i] \in Nat
    BY <1>1, <1>2, Zenon
  <2>2. i < j \/ j < i
    BY <1>3
  <2> HIDE DEF rk
  <2> QED BY <2>1, <2>2, <1>4
<1>7. s \in SetToSeqs(Queued) /\ DOMAIN s = 1..k
  BY <1>6 DEF SetToSeqs
<1>8. /\ Order \in SetToSeqs(Queued)
      /\ \A i, j \in DOMAIN Order : i < j => Before(Order[i], Order[j])
  BY <1>5, <1>7, Zenon DEF Order
<1>9. Order \in [1..k -> Queued] /\ \A i, j \in 1..k : i # j => Order[i] # Order[j]
  BY <1>8 DEF SetToSeqs
<1>10. Order \in Seq(Queued) /\ Len(Order) = k
  BY <1>3, <1>9
<1> QED BY <1>8, <1>9, <1>10, Zenon

\* The parts of a pair.
LEMMA PairParts ==
  ASSUME NEW x, NEW a, NEW b, x = <<a, b>>
  PROVE  x[1] = a /\ x[2] = b /\ \A A, B : a \in A /\ b \in B => x \in A \X B
OBVIOUS

\* Two tickets in the order of their ranks, no further apart than the window.
LEMMA PlayableIf ==
  ASSUME NEW t \in 1..Len(joins), NEW u \in 1..Len(joins), NEW x, x[1] = t, x[2] = u,
         joins[t].player # joins[u].player,
         NEW a \in Nat, NEW b \in Nat, a = joins[t].rank, b = joins[u].rank,
         a <= b, b - a <= Window
  PROVE  Playable(x)
<1>1. b - a \in 0..Window
  <2>1. Window \in Nat
    BY MatchmakingAssumption
  <2> QED BY <2>1
<1> QED BY <1>1, Zenon DEF Playable

TicketPairs(found) == [i \in DOMAIN found |-> <<found[i][1].ticket, found[i][2].ticket>>]

\* A tick pairs tickets of the queue that may play together, each once.
LEMMA SnapshotPairs ==
  ASSUME TypeOK, QueueInv, NEW ps, ps = TicketPairs(Pair(Snapshot, Window))
  PROVE  /\ ps \in Seq(Ticket \X Ticket)
         /\ Pair(Snapshot, Window) = <<>> <=> ps = <<>>
         /\ \A i \in 1..Len(ps) :
              Playable(ps[i]) /\ \E p, q \in Queued : ps[i] = <<zset[p], zset[q]>>
         /\ \A i, j \in 1..Len(ps) : i # j => Apart(ps[i], ps[j])
<1> DEFINE T == [ticket : Nat, rank : Int]
           m == Min({BatchSize, Len(Order)})
           s == Snapshot
           found == Pair(Snapshot, Window)
<1>1. /\ Order \in Seq(Queued) /\ Len(Order) \in Nat /\ DOMAIN Order = 1..Len(Order)
      /\ \A i \in 1..Len(Order) : Order[i] \in Queued
      /\ \A i, j \in 1..Len(Order) : i # j => Order[i] # Order[j]
      /\ \A i, j \in 1..Len(Order) : i < j => Before(Order[i], Order[j])
  BY OrderSorted, SeqElements
<1>2. m \in 0..Len(Order)
  <2>1. \E x \in {BatchSize, Len(Order)} : \A y \in {BatchSize, Len(Order)} : x <= y
    BY <1>1, MatchmakingAssumption
  <2>2. m \in {BatchSize, Len(Order)} /\ \A y \in {BatchSize, Len(Order)} : m <= y
    BY <2>1 DEF Min
  <2> QED BY <2>2, <1>1, MatchmakingAssumption
<1> HIDE DEF m
<1>3. s = [i \in 1..m |-> [ticket |-> zset[Order[i]], rank |-> joins[zset[Order[i]]].rank]]
  BY DEF Snapshot, FirstTickets, m
<1>4. \A p \in Queued : /\ p \in Players /\ zset[p] \in 1..Len(joins) /\ zset[p] \in Ticket
                        /\ joins[zset[p]].player = p /\ joins[zset[p]].rank \in Nat
  <2>1. joins \in Seq([player : Players, rank : Ranks]) /\ Len(joins) <= MaxJoins
    BY DEF TypeOK
  <2>2. Len(joins) \in Nat /\ \A t \in 1..Len(joins) : joins[t] \in [player : Players, rank : Ranks]
    BY <2>1, SeqElements, Zenon
  <2>3. \A t \in 1..Len(joins) : joins[t].rank \in Nat
    BY <2>2, MatchmakingAssumption
  <2>4. \A t \in 1..Len(joins) : t \in Ticket
    BY <2>1, <2>2, MatchmakingAssumption DEF Ticket
  <2> QED BY <2>3, <2>4 DEF QueueInv, Has, Queued
<1>5. \A i \in 1..m : Order[i] \in Queued
  BY <1>1, <1>2
<1>6. s \in Seq(T) /\ Len(s) = m /\ m \in Nat
  <2>1. \A i \in 1..m : [ticket |-> zset[Order[i]], rank |-> joins[zset[Order[i]]].rank] \in T
    BY <1>4, <1>5
  <2>2. m \in Nat
    BY <1>1, <1>2
  <2> HIDE DEF s, T
  <2>3. s \in [1..m -> T]
    BY <1>3, <2>1
  <2> QED BY <2>2, <2>3
<1> HIDE DEF T, s
<1>0a. ps = [i \in DOMAIN found |-> <<found[i][1].ticket, found[i][2].ticket>>]
  BY DEF TicketPairs
<1>0b. found = Pair(Snapshot, Window)
  OBVIOUS
<1> HIDE DEF found
<1>7. /\ found \in Seq(T \X T)
      /\ \E pos : Places(s, Window, 1, pos)
      /\ found = Walk(s, Window)[1]
  <2>1. 1 \in 1..(Len(s) + 2)
    BY <1>6
  <2> QED BY <1>0b, <1>6, <2>1, WalkPlaces DEF Pair, s
<1>8. Len(found) \in Nat /\ DOMAIN found = 1..Len(found)
  BY <1>7, SeqElements
<1>9. PICK pos : /\ pos \in [1..Len(found) -> 1..(m - 1)]
                 /\ \A j \in 1..Len(found) :
                      /\ found[j] = <<s[pos[j]], s[pos[j] + 1]>>
                      /\ Close(s[pos[j]], s[pos[j] + 1], Window)
                 /\ \A j, k \in 1..Len(found) : j < k => pos[j] + 2 <= pos[k]
  BY <1>6, <1>7, Zenon DEF Places
<1>10. \A j \in 1..Len(found) : pos[j] \in 1..m /\ pos[j] + 1 \in 1..m
  BY <1>6, <1>9
<1>11. \A j \in 1..Len(found) : ps[j] = <<zset[Order[pos[j]]], zset[Order[pos[j] + 1]]>>
  <2> SUFFICES ASSUME NEW j \in 1..Len(found)
               PROVE  ps[j] = <<zset[Order[pos[j]]], zset[Order[pos[j] + 1]]>>
    OBVIOUS
  <2>1. ps[j] = <<found[j][1].ticket, found[j][2].ticket>>
    BY <1>0a, <1>8
  <2>2. found[j][1] = s[pos[j]] /\ found[j][2] = s[pos[j] + 1]
    BY <1>9
  <2>3. s[pos[j]].ticket = zset[Order[pos[j]]] /\ s[pos[j] + 1].ticket = zset[Order[pos[j] + 1]]
    BY <1>3, <1>10
  <2> QED BY <2>1, <2>2, <2>3
<1>12. ps \in Seq(Ticket \X Ticket) /\ Len(ps) = Len(found)
  <2>1. \A j \in 1..Len(found) : ps[j] \in Ticket \X Ticket
    <3> SUFFICES ASSUME NEW j \in 1..Len(found) PROVE ps[j] \in Ticket \X Ticket
      OBVIOUS
    <3>1. Order[pos[j]] \in Queued /\ Order[pos[j] + 1] \in Queued
      BY <1>5, <1>10
    <3>2. zset[Order[pos[j]]] \in Ticket /\ zset[Order[pos[j] + 1]] \in Ticket
      BY <1>4, <3>1
    <3> HIDE DEF Ticket
    <3>3. ps[j] = <<zset[Order[pos[j]]], zset[Order[pos[j] + 1]]>>
      BY <1>11
    <3> QED BY <3>2, <3>3, PairParts
  <2>2. ps = [j \in 1..Len(found) |-> ps[j]]
    BY <1>0a, <1>8
  <2> HIDE DEF Ticket
  <2> QED BY <2>1, <2>2, <1>8
<1>13. ASSUME NEW j \in 1..Len(found)
       PROVE  Playable(ps[j]) /\ \E p, q \in Queued : ps[j] = <<zset[p], zset[q]>>
  <2> DEFINE p == Order[pos[j]]
             q == Order[pos[j] + 1]
  <2>1. p \in Queued /\ q \in Queued /\ p # q /\ Before(p, q)
    <3>1. /\ pos[j] \in 1..Len(Order) /\ pos[j] + 1 \in 1..Len(Order)
          /\ pos[j] # pos[j] + 1 /\ pos[j] < pos[j] + 1
      BY <1>1, <1>2, <1>10
    <3> QED BY <3>1, <1>1
  <2>2. ps[j] = <<zset[p], zset[q]>>
    BY <1>11
  <2>3. joins[zset[q]].rank - joins[zset[p]].rank <= Window
    <3>1. s[pos[j]].rank = joins[zset[p]].rank /\ s[pos[j] + 1].rank = joins[zset[q]].rank
      BY <1>3, <1>10
    <3> QED BY <3>1, <1>9 DEF Close
  <2> HIDE DEF p, q
  <2>4. /\ zset[p] \in 1..Len(joins) /\ zset[q] \in 1..Len(joins)
        /\ joins[zset[p]].player # joins[zset[q]].player
        /\ joins[zset[p]].rank \in Nat /\ joins[zset[q]].rank \in Nat
    BY <1>4, <2>1
  <2>5. joins[zset[p]].rank <= joins[zset[q]].rank
    BY <2>1, <2>4 DEF Before
  <2>6. Playable(ps[j])
    <3>1. ps[j][1] = zset[p] /\ ps[j][2] = zset[q]
      BY <2>2, PairParts
    <3> QED BY <3>1, <2>3, <2>4, <2>5, PlayableIf, Zenon
  <2> QED BY <2>1, <2>2, <2>6
<1>14. \A i, j \in 1..m : i # j => zset[Order[i]] # zset[Order[j]]
  <2> SUFFICES ASSUME NEW i \in 1..m, NEW j \in 1..m, i # j PROVE zset[Order[i]] # zset[Order[j]]
    OBVIOUS
  <2>1. Order[i] # Order[j] /\ Order[i] \in Queued /\ Order[j] \in Queued
    BY <1>1, <1>2
  <2> QED BY <2>1, <1>4
<1>15. ASSUME NEW i \in 1..Len(found), NEW j \in 1..Len(found), i # j
       PROVE  Apart(ps[i], ps[j])
  <2>1. /\ pos[i] # pos[j] /\ pos[i] # pos[j] + 1 /\ pos[i] + 1 # pos[j] /\ pos[i] + 1 # pos[j] + 1
    BY <1>8, <1>9, <1>10, <1>15
  <2>2. /\ pos[i] \in 1..m /\ pos[i] + 1 \in 1..m /\ pos[j] \in 1..m /\ pos[j] + 1 \in 1..m
    BY <1>10
  <2>3. /\ ps[i] = <<zset[Order[pos[i]]], zset[Order[pos[i] + 1]]>>
        /\ ps[j] = <<zset[Order[pos[j]]], zset[Order[pos[j] + 1]]>>
    BY <1>11
  <2>4. /\ ps[i][1] = zset[Order[pos[i]]] /\ ps[i][2] = zset[Order[pos[i] + 1]]
        /\ ps[j][1] = zset[Order[pos[j]]] /\ ps[j][2] = zset[Order[pos[j] + 1]]
    BY <2>3, PairParts
  <2> QED BY <2>1, <2>2, <2>4, <1>14, Zenon DEF Apart
<1>16. found = <<>> <=> ps = <<>>
  <2>1. found = <<>> <=> Len(found) = 0
    BY <1>7
  <2>2. ps = <<>> <=> Len(ps) = 0
    BY <1>12
  <2> QED BY <1>12, <2>1, <2>2
<1>17. \A j \in 1..Len(ps) : Playable(ps[j]) /\ \E p, q \in Queued : ps[j] = <<zset[p], zset[q]>>
  BY <1>12, <1>13
<1>18. \A i, j \in 1..Len(ps) : i # j => Apart(ps[i], ps[j])
  BY <1>12, <1>15
<1> QED BY <1>0b, <1>12, <1>16, <1>17, <1>18

Busy == {"save", "dequeueZ", "dequeueH", "publish"}

\* A join adds a ticket and leaves the others as they are.
LEMMA JoinAppends ==
  ASSUME TypeOK, NEW c, NEW p \in Players, NEW r \in Ranks, Join(c, p, r)
  PROVE  /\ Len(joins) \in Nat /\ Len(joins') = Len(joins) + 1 /\ Len(joins') <= MaxJoins
         /\ joins' \in Seq([player : Players, rank : Ranks])
         /\ joins'[Len(joins) + 1].player = p
         /\ \A t \in 1..Len(joins) : joins'[t] = joins[t]
<1>1. joins \in Seq([player : Players, rank : Ranks])
  BY DEF TypeOK
<1>2. /\ joins' = Append(joins, [player |-> p, rank |-> r]) /\ Len(joins) < MaxJoins
      /\ [player |-> p, rank |-> r] \in [player : Players, rank : Ranks]
  BY DEF Join
<1> DEFINE x == [player |-> p, rank |-> r]
           X == [player : Players, rank : Ranks]
<1>3. x.player = p /\ x \in X
  BY <1>2
<1> HIDE DEF x, X
<1>4. joins \in Seq(X) /\ joins' = Append(joins, x) /\ Len(joins) < MaxJoins
  BY <1>1, <1>2 DEF x, X
<1>5. /\ joins' \in Seq(X) /\ Len(joins) \in Nat /\ Len(joins') = Len(joins) + 1
      /\ joins'[Len(joins) + 1] = x
      /\ \A t \in 1..Len(joins) : joins'[t] = joins[t]
  BY <1>3, <1>4
<1> QED BY <1>3, <1>4, <1>5, MatchmakingAssumption DEF X

\* What a step does to the queue: nothing, a ZADD or a ZREM.
LEMMA QueueSteps ==
  ASSUME [Next]_vars
  PROVE  \/ joins' = joins /\ zset' = zset
         \/ \E c \in Requests, p \in Players, r \in Ranks : Join(c, p, r)
         \/ joins' = joins /\ \E S : ZRem(S)
<1>1. CASE UNCHANGED vars
  BY <1>1 DEF vars
<1>2. CASE Tick
  BY <1>2 DEF Tick, EvictRead, EvictZRem, EvictHDel, PairUp, SaveRooms, DequeueZRem, DequeueHDel,
              Publish, queueVars
<1>3. CASE Failure
  BY <1>3 DEF Failure, EvictError, SnapshotError, SaveError, DequeueError, PublishError, Signal,
              Crash, queueVars
<1>4. CASE Return \/ ExitAtTimeout
  BY <1>4 DEF Return, ExitAtTimeout, queueVars
<1>5. ASSUME NEW c \in Requests, NEW p \in Players, FinishJoin(c, p) \/ Leave(c, p) \/ FinishLeave(c, p)
      PROVE  joins' = joins /\ (zset' = zset \/ \E S : ZRem(S))
  BY <1>5 DEF FinishJoin, Leave, FinishLeave
<1>6. ASSUME NEW c \in Requests, BreakCall(c) PROVE joins' = joins /\ zset' = zset
  BY <1>6 DEF BreakCall, queueVars
<1>7. ASSUME NEW p \in Players, Age(p) PROVE joins' = joins /\ zset' = zset
  BY <1>7 DEF Age
<1> QED BY <1>1, <1>2, <1>3, <1>4, <1>5, <1>6, <1>7 DEF Next

\* Joins and removals keep each member's ticket its player's last.
LEMMA QueueStep ==
  ASSUME TypeOK, QueueInv, [Next]_vars
  PROVE  QueueInv'
<1>1. CASE joins' = joins /\ zset' = zset
  BY <1>1 DEF QueueInv, Has
<1>2. ASSUME NEW c \in Requests, NEW p \in Players, NEW r \in Ranks, Join(c, p, r)
      PROVE  QueueInv'
  <2> DEFINE n == Len(joins)
  <2>1. /\ n \in Nat /\ Len(joins') = n + 1 /\ joins'[n + 1].player = p
        /\ \A t \in 1..n : joins'[t] = joins[t]
    BY <1>2, JoinAppends
  <2>2. zset \in [Players -> 0..n] /\ zset' = [zset EXCEPT ![p] = n + 1]
    BY <1>2 DEF Join, TypeOK
  <2>3. \A q \in Players : zset[q] # 0 =>
          /\ zset[q] \in 1..n /\ joins[zset[q]].player = q
          /\ \A t \in 1..n : joins[t].player = q => t <= zset[q]
    BY DEF QueueInv, Has
  <2> SUFFICES ASSUME NEW q \in Players, zset'[q] # 0
               PROVE  /\ zset'[q] \in 1..Len(joins') /\ joins'[zset'[q]].player = q
                      /\ \A t \in 1..Len(joins') : joins'[t].player = q => t <= zset'[q]
    BY DEF QueueInv, Has
  <2> HIDE DEF n
  <2>4. CASE q = p
    BY <2>1, <2>2, <2>4
  <2>5. CASE q # p
    <3>1. zset'[q] = zset[q] /\ zset[q] # 0
      BY <2>2, <2>5
    <3>2. zset[q] \in 1..n /\ joins'[zset[q]].player = q
      BY <2>1, <2>3, <3>1
    <3>3. ASSUME NEW t \in 1..(n + 1), joins'[t].player = q PROVE t <= zset[q]
      <4>1. t \in 1..n
        BY <2>1, <2>5, <3>3
      <4> QED BY <4>1, <2>1, <2>3, <3>1, <3>3
    <3> QED BY <2>1, <3>1, <3>2, <3>3
  <2> QED BY <2>4, <2>5
<1>3. ASSUME NEW S, joins' = joins, ZRem(S) PROVE QueueInv'
  BY <1>3 DEF QueueInv, Has, ZRem
<1> QED BY <1>1, <1>2, <1>3, QueueSteps

\* A pair stays playable, and out of the queue, whatever joins and leaves.
LEMMA PlayableKept ==
  ASSUME TypeOK, [Next]_vars, NEW x, Playable(x)
  PROVE  Playable(x)'
<1>1. CASE joins' = joins
  BY <1>1 DEF Playable
<1>2. ASSUME NEW c \in Requests, NEW p \in Players, NEW r \in Ranks, Join(c, p, r)
      PROVE  Playable(x)'
  <2> DEFINE n == Len(joins)
  <2>1. n \in Nat /\ Len(joins') = n + 1 /\ \A t \in 1..n : joins'[t] = joins[t]
    BY <1>2, JoinAppends
  <2>2. x[1] \in 1..n /\ x[2] \in 1..n
    BY DEF Playable
  <2>3. joins'[x[1]] = joins[x[1]] /\ joins'[x[2]] = joins[x[2]]
    BY <2>1, <2>2
  <2>4. x[1] \in 1..(n + 1) /\ x[2] \in 1..(n + 1)
    <3> HIDE DEF n
    <3> QED BY <2>1, <2>2
  <2> QED BY <2>1, <2>3, <2>4 DEF Playable
<1> QED BY <1>1, <1>2, QueueSteps

\* And a ticket that has left the queue does not come back.
LEMMA DequeuedKept ==
  ASSUME TypeOK, [Next]_vars, NEW x, Playable(x), Dequeued(x)
  PROVE  Dequeued(x)'
<1>1. CASE zset' = zset
  BY <1>1 DEF Dequeued
<1>2. ASSUME NEW c \in Requests, NEW p \in Players, NEW r \in Ranks, Join(c, p, r)
      PROVE  Dequeued(x)'
  <2>1. Len(joins) \in Nat
    BY <1>2, JoinAppends
  <2>2. zset \in [Players -> 0..Len(joins)] /\ zset' = [zset EXCEPT ![p] = Len(joins) + 1]
    BY <1>2 DEF Join, TypeOK
  <2> QED BY <2>1, <2>2 DEF Dequeued, Playable
<1>3. ASSUME NEW S, ZRem(S) PROVE Dequeued(x)'
  <2>1. x[1] # 0 /\ x[2] # 0
    <3>1. Len(joins) \in Nat
      BY SeqElements DEF TypeOK
    <3> QED BY <3>1 DEF Playable
  <2>2. \A p \in Players : zset'[p] = 0 \/ zset'[p] = zset[p]
    BY <1>3 DEF ZRem
  <2> QED BY <2>1, <2>2 DEF Dequeued
<1> QED BY <1>1, <1>2, <1>3, QueueSteps

\* The players of the pairs are taken out by a dequeue.
LEMMA PlayersOfPairs ==
  ASSUME NEW ps, NEW i \in 1..Len(ps)
  PROVE  joins[ps[i][1]].player \in PlayersOf(ps) /\ joins[ps[i][2]].player \in PlayersOf(ps)
BY DEF PlayersOf

\* What a step does to the pairs of the tick.
LEMMA PairsSteps ==
  ASSUME TypeOK, PairsInv, [Next]_vars
  PROVE  \/ UNCHANGED <<pairs, told, rooms, pc>>
         \/ pairs' = <<>> /\ pc' \notin Busy
         \/ PairUp \/ SaveRooms \/ DequeueZRem \/ DequeueHDel \/ Publish \/ PublishError
<1>1. CASE UNCHANGED vars
  BY <1>1 DEF vars
<1>2. CASE Tick
  BY <1>2 DEF Tick, EvictRead, EvictZRem, EvictHDel, Busy, PairsInv
<1>3. CASE Failure
  BY <1>3 DEF Failure, EvictError, SnapshotError, SaveError, DequeueError, Signal, Crash,
              Busy, PairsInv, tickVars, roomVars
<1>4. CASE Return \/ ExitAtTimeout
  BY <1>4 DEF Return, ExitAtTimeout, Busy, tickVars, roomVars
<1>5. ASSUME NEW c \in Requests, NEW p \in Players,
             FinishJoin(c, p) \/ Leave(c, p) \/ FinishLeave(c, p) \/ \E r \in Ranks : Join(c, p, r)
      PROVE  UNCHANGED <<pairs, told, rooms, pc>>
  BY <1>5, Zenon DEF Join, FinishJoin, Leave, FinishLeave, tickVars, roomVars
<1>6. ASSUME NEW c \in Requests, BreakCall(c) PROVE UNCHANGED <<pairs, told, rooms, pc>>
  BY <1>6 DEF BreakCall, tickVars, roomVars
<1>7. ASSUME NEW p \in Players, Age(p) PROVE UNCHANGED <<pairs, told, rooms, pc>>
  BY <1>7 DEF Age, tickVars, roomVars
<1> QED BY <1>1, <1>2, <1>3, <1>4, <1>5, <1>6, <1>7 DEF Next

\* createRooms keeps the order store, dequeue, tell for every pair of the tick.
LEMMA PairsStep ==
  ASSUME TypeOK, QueueInv, PairsInv, ToldInv, [Next]_vars
  PROVE  PairsInv'
<1>1. \A x : Playable(x) => Playable(x)'
  BY PlayableKept
<1>2. \A x : Playable(x) /\ Dequeued(x) => Dequeued(x)'
  BY DequeuedKept
<1>3. Len(pairs) \in Nat /\ pairs \in Seq(Ticket \X Ticket)
  <2>1. pairs \in Seq(Ticket \X Ticket)
    BY DEF TypeOK
  <2> QED BY <2>1, SeqElements
<1> USE DEF Busy
<1>4. CASE UNCHANGED <<pairs, told, rooms, pc>>
  BY <1>1, <1>2, <1>4 DEF PairsInv
<1>5. CASE pairs' = <<>> /\ pc' \notin Busy
  <2>1. \A i \in 1..Len(pairs') : FALSE
    BY <1>5
  <2> QED BY <1>5, <2>1 DEF PairsInv
<1>6. CASE PairUp
  <2> PICK ps : ps = pairs'
    OBVIOUS
  <2>1. /\ ps = TicketPairs(Pair(Snapshot, Window)) /\ UNCHANGED <<joins, zset, told, rooms>>
        /\ pc' = IF Pair(Snapshot, Window) = <<>> THEN "idle" ELSE "save"
    BY <1>6 DEF PairUp, TicketPairs, queueVars, roomVars
  <2>2. /\ Pair(Snapshot, Window) = <<>> <=> ps = <<>>
        /\ \A i \in 1..Len(ps) :
             Playable(ps[i]) /\ \E p, q \in Queued : ps[i] = <<zset[p], zset[q]>>
        /\ \A i, j \in 1..Len(ps) : i # j => Apart(ps[i], ps[j])
    BY <2>1, SnapshotPairs
  <2>3. ASSUME NEW i \in 1..Len(ps), NEW x \in told PROVE Apart(ps[i], x)
    <3>1. PICK p, q \in Queued : ps[i] = <<zset[p], zset[q]>>
      BY <2>2
    <3>2. ps[i][1] = zset[p] /\ ps[i][2] = zset[q]
      BY <3>1, PairParts
    <3> QED BY <3>2 DEF Apart, ToldInv, Dequeued, Queued
  <2>4. /\ ps = <<>> <=> pc' \notin Busy
        /\ pc' \notin {"dequeueZ", "dequeueH", "publish"}
    BY <2>1, <2>2
  <2>5. \A i \in 1..Len(ps) : Playable(ps[i])'
    BY <1>1, <2>2
  <2> QED BY <2>1, <2>2, <2>3, <2>4, <2>5 DEF PairsInv
<1>7. CASE SaveRooms
  <2>1. /\ UNCHANGED <<pairs, told>> /\ rooms' = rooms \cup Range(pairs)
        /\ pc = "save" /\ pc' = "dequeueZ"
    BY <1>7 DEF SaveRooms
  <2>2. \A i \in 1..Len(pairs) : pairs[i] \in Range(pairs)
    BY <1>3 DEF Range
  <2> QED BY <1>1, <2>1, <2>2 DEF PairsInv
<1>8. CASE DequeueZRem
  <2>1. /\ UNCHANGED <<pairs, told, rooms, joins>> /\ ZRem(PlayersOf(pairs))
        /\ pc = "dequeueZ" /\ pc' = "dequeueH"
    BY <1>8 DEF DequeueZRem, roomVars
  <2>2. ASSUME NEW i \in 1..Len(pairs) PROVE Dequeued(pairs[i])'
    <3> DEFINE t == pairs[i][1]
               u == pairs[i][2]
    <3>1. t \in 1..Len(joins) /\ u \in 1..Len(joins) /\ Len(joins) \in Nat
      <4>1. Len(joins) \in Nat
        BY SeqElements DEF TypeOK
      <4> QED BY <4>1 DEF PairsInv, Playable
    <3>2. joins[t].player \in PlayersOf(pairs) /\ joins[u].player \in PlayersOf(pairs)
      BY PlayersOfPairs
    <3>3. ASSUME NEW p \in Players PROVE zset'[p] # t /\ zset'[p] # u
      <4>1. CASE p \in PlayersOf(pairs)
        <5>1. zset'[p] = 0
          BY <2>1, <4>1 DEF ZRem
        <5> QED BY <5>1, <3>1
      <4>2. CASE p \notin PlayersOf(pairs)
        <5>1. zset'[p] = zset[p]
          BY <2>1, <4>2 DEF ZRem
        <5>2. zset[p] # 0 => joins[zset[p]].player = p
          BY DEF QueueInv, Has
        <5> QED BY <5>1, <5>2, <3>1, <3>2, <4>2
      <4> QED BY <4>1, <4>2
    <3> QED BY <3>3, <2>1 DEF Dequeued
  <2> QED BY <1>1, <2>1, <2>2 DEF PairsInv
<1>9. CASE DequeueHDel
  <2>1. UNCHANGED <<pairs, told, rooms>> /\ pc = "dequeueH" /\ pc' = "publish"
    BY <1>9 DEF DequeueHDel, roomVars
  <2> QED BY <1>1, <1>2, <2>1 DEF PairsInv
<1>10. CASE Publish \/ PublishError
  <2> PICK ps : ps = pairs'
    OBVIOUS
  <2>1. /\ ps = Tail(pairs) /\ pc = "publish" /\ rooms' = rooms
        /\ pc' = IF Tail(pairs) = <<>> THEN "idle" ELSE "publish"
        /\ told' \subseteq told \cup {Head(pairs)}
    BY <1>10 DEF Publish, PublishError, roomVars
  <2>2. pairs # <<>>
    BY <2>1 DEF PairsInv
  <2>3. /\ Len(pairs) \in Nat \ {0} /\ Len(Tail(pairs)) = Len(pairs) - 1 /\ Head(pairs) = pairs[1]
        /\ \A i \in 1..(Len(pairs) - 1) : Tail(pairs)[i] = pairs[i + 1]
    BY <1>3, <2>2
  <2>4. 1 \in 1..Len(pairs) /\ \A i \in 1..(Len(pairs) - 1) : i + 1 \in 1..Len(pairs) /\ i + 1 # 1
    BY <2>3
  <2>5. /\ \A i \in 1..Len(pairs) : Playable(pairs[i]) /\ Dequeued(pairs[i]) /\ pairs[i] \in rooms
        /\ \A i, j \in 1..Len(pairs) : i # j => Apart(pairs[i], pairs[j])
        /\ \A i \in 1..Len(pairs), x \in told : Apart(pairs[i], x)
    BY <2>1 DEF PairsInv
  <2>6. \A i \in 1..Len(ps) : ps[i] = pairs[i + 1] /\ i + 1 \in 1..Len(pairs) /\ i + 1 # 1
    BY <2>1, <2>3, <2>4
  <2>7. \A i \in 1..Len(ps) : /\ Playable(ps[i]) /\ Dequeued(ps[i]) /\ ps[i] \in rooms
    BY <2>5, <2>6
  <2>8. \A i, j \in 1..Len(ps) : i # j => Apart(ps[i], ps[j])
    <3>1. \A i, j \in 1..Len(ps) : i # j => i + 1 # j + 1
      BY <2>1, <2>3
    <3> QED BY <2>5, <2>6, <3>1
  <2>9. \A i \in 1..Len(ps), x \in told' : Apart(ps[i], x)
    <3> SUFFICES ASSUME NEW i \in 1..Len(ps), NEW x \in told' PROVE Apart(ps[i], x)
      OBVIOUS
    <3>1. CASE x \in told
      BY <2>5, <2>6, <3>1
    <3>2. CASE x = pairs[1]
      BY <2>4, <2>5, <2>6, <3>2
    <3> QED BY <3>1, <3>2, <2>1, <2>3
  <2>10. ps = <<>> <=> pc' \notin Busy
    BY <2>1
  <2>11. \A i \in 1..Len(ps) : Playable(ps[i])' /\ Dequeued(ps[i])'
    BY <1>1, <1>2, <2>7
  <2> QED BY <2>1, <2>7, <2>8, <2>9, <2>10, <2>11 DEF PairsInv
<1> QED BY <1>4, <1>5, <1>6, <1>7, <1>8, <1>9, <1>10, PairsSteps

\* Rooms are only told of by Publish, and a stored room stays.
LEMMA ToldSteps ==
  ASSUME [Next]_vars
  PROVE  (told' = told /\ rooms \subseteq rooms') \/ Publish
<1>1. CASE UNCHANGED vars
  BY <1>1 DEF vars
<1>2. CASE Tick
  BY <1>2 DEF Tick, EvictRead, EvictZRem, EvictHDel, PairUp, SaveRooms, DequeueZRem, DequeueHDel,
              roomVars
<1>3. CASE Failure
  BY <1>3 DEF Failure, EvictError, SnapshotError, SaveError, DequeueError, PublishError, Signal,
              Crash, roomVars
<1>4. CASE Return \/ ExitAtTimeout
  BY <1>4 DEF Return, ExitAtTimeout, roomVars
<1>5. ASSUME NEW c \in Requests, NEW p \in Players,
             FinishJoin(c, p) \/ Leave(c, p) \/ FinishLeave(c, p) \/ \E r \in Ranks : Join(c, p, r)
      PROVE  UNCHANGED roomVars
  BY <1>5, Zenon DEF Join, FinishJoin, Leave, FinishLeave
<1>6. ASSUME NEW c \in Requests, BreakCall(c) PROVE UNCHANGED roomVars
  BY <1>6 DEF BreakCall
<1>7. ASSUME NEW p \in Players, Age(p) PROVE UNCHANGED roomVars
  BY <1>7 DEF Age
<1> QED BY <1>1, <1>2, <1>3, <1>4, <1>5, <1>6, <1>7 DEF Next, roomVars

\* What was told stays stored, playable and out of the queue.
LEMMA ToldStep ==
  ASSUME TypeOK, PairsInv, ToldInv, [Next]_vars
  PROVE  ToldInv'
<1>1. \A x : Playable(x) => Playable(x)'
  BY PlayableKept
<1>2. \A x : Playable(x) /\ Dequeued(x) => Dequeued(x)'
  BY DequeuedKept
<1>3. CASE told' = told /\ rooms \subseteq rooms'
  BY <1>1, <1>2, <1>3 DEF ToldInv
<1>4. CASE Publish
  <2> DEFINE x == pairs[1]
  <2>1. /\ pc = "publish" /\ told' = told \cup {Head(pairs)} /\ rooms' = rooms
    BY <1>4 DEF Publish
  <2>2. Head(pairs) = x /\ 1 \in 1..Len(pairs)
    <3>1. pairs # <<>> /\ pairs \in Seq(Ticket \X Ticket)
      BY <2>1 DEF PairsInv, TypeOK
    <3> HIDE DEF Ticket
    <3> QED BY <3>1
  <2>3. /\ Playable(x) /\ Dequeued(x) /\ x \in rooms
        /\ \A y \in told : Apart(x, y)
    BY <2>1, <2>2 DEF PairsInv
  <2> HIDE DEF x
  <2>4. \A y \in told : Apart(y, x)
    BY <2>3 DEF Apart
  <2> QED BY <1>1, <1>2, <2>1, <2>2, <2>3, <2>4 DEF ToldInv
<1> QED BY <1>3, <1>4, ToldSteps

\* What a step does to those who wait, while nothing has failed.
LEMMA WaitingSteps ==
  ASSUME TypeOK, WaitingInv, [Next]_vars, faults' = 0
  PROVE  /\ faults = 0
         /\ \/ UNCHANGED <<zset, waiting, stopping, pc, pairs, joins>>
            \/ /\ UNCHANGED <<zset, waiting, stopping>>
               /\ pc \notin {"dequeueH", "publish"}
            \/ \E c \in Requests, p \in Players, r \in Ranks : Join(c, p, r)
            \/ \E c \in Requests, p \in Players : Leave(c, p)
            \/ EvictZRem \/ DequeueZRem \/ DequeueHDel \/ Publish
<1>0. faults \in Nat
  BY MatchmakingAssumption DEF TypeOK
<1>1. CASE UNCHANGED vars
  BY <1>1 DEF vars
<1>2. CASE Tick
  BY <1>2, Zenon DEF Tick, EvictRead, EvictZRem, EvictHDel, PairUp, SaveRooms, DequeueZRem, DequeueHDel,
              Publish, queueVars
<1>3. CASE Failure
  BY <1>0, <1>3 DEF Failure, EvictError, SnapshotError, SaveError, DequeueError, PublishError,
              Signal, Crash, Fault
<1>4. CASE Return \/ ExitAtTimeout
  BY <1>4 DEF Return, ExitAtTimeout, WaitingInv
<1>5. ASSUME NEW c \in Requests, NEW p \in Players, FinishJoin(c, p) \/ FinishLeave(c, p)
      PROVE  UNCHANGED <<zset, waiting, stopping, pc, pairs, joins, faults>>
  BY <1>5 DEF FinishJoin, FinishLeave, tickVars
<1>6. ASSUME NEW c \in Requests, BreakCall(c) PROVE FALSE
  BY <1>0, <1>6 DEF BreakCall, Fault
<1>7. ASSUME NEW p \in Players, Age(p)
      PROVE  UNCHANGED <<zset, waiting, stopping, pc, pairs, joins, faults>>
  BY <1>7 DEF Age, tickVars
<1>8. ASSUME NEW c \in Requests, NEW p \in Players, NEW r \in Ranks, Join(c, p, r)
      PROVE  faults' = faults
  BY <1>8 DEF Join
<1>9. ASSUME NEW c \in Requests, NEW p \in Players, Leave(c, p)
      PROVE  faults' = faults
  BY <1>9 DEF Leave
<1> QED BY <1>1, <1>2, <1>3, <1>4, <1>5, <1>6, <1>7, <1>8, <1>9 DEF Next

\* Without a fault, no step loses a waiting player.
LEMMA WaitingStep ==
  ASSUME TypeOK, PairsInv, WaitingInv, [Next]_vars
  PROVE  WaitingInv'
<1> SUFFICES ASSUME faults' = 0
             PROVE  /\ ~stopping'
                    /\ \A p \in waiting' :
                         zset'[p] # 0 \/ (pc' \in {"dequeueH", "publish"} /\ p \in PlayersOf(pairs)')
  BY DEF WaitingInv
<1>1. /\ faults = 0 /\ ~stopping /\ waiting \subseteq Players
      /\ \A p \in waiting :
           zset[p] # 0 \/ (pc \in {"dequeueH", "publish"} /\ p \in PlayersOf(pairs))
  BY WaitingSteps, Zenon DEF WaitingInv, TypeOK
<1>2. CASE UNCHANGED <<zset, waiting, stopping, pc, pairs, joins>>
  BY <1>1, <1>2, Zenon DEF PlayersOf
<1>3. CASE UNCHANGED <<zset, waiting, stopping>> /\ pc \notin {"dequeueH", "publish"}
  BY <1>1, <1>3
<1>4. ASSUME NEW c \in Requests, NEW p \in Players, NEW r \in Ranks, Join(c, p, r)
      PROVE  /\ ~stopping'
             /\ \A q \in waiting' :
                  zset'[q] # 0 \/ (pc' \in {"dequeueH", "publish"} /\ q \in PlayersOf(pairs)')
  <2>1. /\ stopping' = stopping /\ waiting' = waiting \cup {p} /\ UNCHANGED <<pc, pairs>>
        /\ zset' = [zset EXCEPT ![p] = Len(joins) + 1] /\ zset \in [Players -> 0..Len(joins)]
    BY <1>4 DEF Join, tickVars, TypeOK
  <2>2. Len(joins) \in Nat /\ \A t \in 1..Len(joins) : joins'[t] = joins[t]
    BY <1>4, JoinAppends
  <2>3. PlayersOf(pairs) \subseteq PlayersOf(pairs)'
    <3>1. \A i \in 1..Len(pairs) : /\ joins'[pairs[i][1]] = joins[pairs[i][1]]
                                   /\ joins'[pairs[i][2]] = joins[pairs[i][2]]
      BY <2>2 DEF PairsInv, Playable
    <3> QED BY <2>1, <3>1 DEF PlayersOf
  <2>4. ASSUME NEW q \in waiting', q # p
        PROVE  zset'[q] # 0 \/ (pc' \in {"dequeueH", "publish"} /\ q \in PlayersOf(pairs)')
    BY <1>1, <2>1, <2>3, <2>4
  <2>5. zset'[p] # 0
    BY <2>1, <2>2
  <2> QED BY <1>1, <2>1, <2>4, <2>5
<1>5. ASSUME NEW S, ZRem(S), waiting' = waiting \ S, UNCHANGED <<stopping, joins, pairs>>,
             pc \in {"dequeueH", "publish"} => pc' \in {"dequeueH", "publish"}
      PROVE  /\ ~stopping'
             /\ \A q \in waiting' :
                  zset'[q] # 0 \/ (pc' \in {"dequeueH", "publish"} /\ q \in PlayersOf(pairs)')
  <2>1. PlayersOf(pairs)' = PlayersOf(pairs)
    BY <1>5 DEF PlayersOf
  <2>2. \A q \in waiting' : zset'[q] = zset[q] /\ q \in waiting
    BY <1>1, <1>5 DEF ZRem
  <2> QED BY <1>1, <1>5, <2>1, <2>2
<1>6. ASSUME NEW c \in Requests, NEW p \in Players, Leave(c, p)
      PROVE  ZRem({p}) /\ waiting' = waiting \ {p} /\ UNCHANGED <<stopping, joins, pairs, pc>>
  BY <1>6 DEF Leave, tickVars
<1>7. CASE EvictZRem
  BY <1>5, <1>7 DEF EvictZRem
<1>8. CASE DequeueZRem
  <2>1. /\ ZRem(PlayersOf(pairs)) /\ pc = "dequeueZ" /\ pc' = "dequeueH"
        /\ UNCHANGED <<joins, pairs, stopping, waiting>>
    BY <1>8 DEF DequeueZRem
  <2>2. PlayersOf(pairs)' = PlayersOf(pairs)
    BY <2>1 DEF PlayersOf
  <2>3. \A q \in waiting : zset'[q] = IF q \in PlayersOf(pairs) THEN 0 ELSE zset[q]
    BY <1>1, <2>1 DEF ZRem
  <2> QED BY <1>1, <2>1, <2>2, <2>3
<1>9. CASE DequeueHDel
  <2>1. UNCHANGED <<zset, joins, pairs, stopping, waiting>> /\ pc' = "publish"
    BY <1>9 DEF DequeueHDel
  <2>2. PlayersOf(pairs)' = PlayersOf(pairs)
    BY <2>1 DEF PlayersOf
  <2> QED BY <1>1, <2>1, <2>2
<1>10. CASE Publish
  <2>1. /\ UNCHANGED <<zset, joins, stopping>> /\ pairs' = Tail(pairs) /\ pc = "publish"
        /\ waiting' = waiting \ PlayersOf(<<Head(pairs)>>)
        /\ pc' = IF Tail(pairs) = <<>> THEN "idle" ELSE "publish"
    BY <1>10 DEF Publish
  <2>2. pairs # <<>> /\ pairs \in Seq(Ticket \X Ticket)
    BY <2>1 DEF PairsInv, TypeOK
  <2>3. /\ Len(pairs) \in Nat /\ Len(Tail(pairs)) = Len(pairs) - 1 /\ Head(pairs) = pairs[1]
        /\ \A i \in 1..(Len(pairs) - 1) : Tail(pairs)[i] = pairs[i + 1]
        /\ Tail(pairs) = <<>> => Len(pairs) = 1
    <3> HIDE DEF Ticket
    <3>1. /\ Len(pairs) \in Nat /\ Len(Tail(pairs)) = Len(pairs) - 1 /\ Head(pairs) = pairs[1]
          /\ \A i \in 1..(Len(pairs) - 1) : Tail(pairs)[i] = pairs[i + 1]
      BY <2>2
    <3>2. ASSUME Tail(pairs) = <<>> PROVE Len(pairs) = 1
      <4>1. \A s : s = <<>> => Len(s) = 0
        OBVIOUS
      <4>2. Len(Tail(pairs)) = 0
        BY <3>2, <4>1, Zenon
      <4> QED BY <3>1, <4>2
    <3> QED BY <3>1, <3>2
  <2>4. ASSUME NEW q \in waiting', zset[q] = 0
        PROVE  pc' = "publish" /\ q \in PlayersOf(pairs)'
    <3>1. PICK i \in 1..Len(pairs) : q \in {joins[pairs[i][1]].player, joins[pairs[i][2]].player}
      BY <1>1, <2>1, <2>4 DEF PlayersOf
    <3>2. i # 1
      <4>1. ASSUME i = 1 PROVE q \in PlayersOf(<<Head(pairs)>>)
        <5> DEFINE x == Head(pairs)
        <5>1. q \in {joins[x[1]].player, joins[x[2]].player}
          BY <2>3, <3>1, <4>1
        <5> HIDE DEF x
        <5>2. Len(<<x>>) = 1 /\ <<x>>[1] = x
          OBVIOUS
        <5> QED BY <5>1, <5>2 DEF PlayersOf, x
      <4> QED BY <2>1, <4>1
    <3>3. i - 1 \in 1..(Len(pairs) - 1) /\ (i - 1) + 1 = i /\ Len(pairs) # 1
      BY <2>3, <3>1, <3>2
    <3>4. pairs'[i - 1] = pairs[i] /\ i - 1 \in 1..Len(pairs')
      BY <2>1, <2>3, <3>3
    <3>5. q \in PlayersOf(pairs)'
      BY <2>1, <3>1, <3>4, Zenon DEF PlayersOf
    <3> QED BY <2>1, <2>3, <3>3, <3>5
  <2> QED BY <1>1, <2>1, <2>4
<1> QED BY <1>2, <1>3, <1>4, <1>5, <1>6, <1>7, <1>8, <1>9, <1>10, WaitingSteps, Zenon

\* What a call has left to do tells its kind and its player.
LEMMA CallsDiffer ==
  ASSUME NEW p, NEW q
  PROVE  /\ HSetOf(p) # NoCall /\ HSetOf(p) # HDelOf(q)
         /\ HSetOf(p) = HSetOf(q) => p = q
BY DEF HSetOf, HDelOf, NoCall

\* Later states of the queue's history keep what earlier ones had.
LEMMA HistoryGrows ==
  ASSUME TypeOK, [Next]_vars, NEW p
  PROVE  /\ \A t : Has(p, t) => Has(p, t)'
         /\ JoinedTwice(p) => JoinedTwice(p)'
<1>1. ASSUME NEW t, Has(p, t) PROVE Has(p, t)'
  <2>1. CASE joins' = joins
    BY <1>1, <2>1 DEF Has
  <2>2. ASSUME NEW c \in Requests, NEW q \in Players, NEW r \in Ranks, Join(c, q, r)
        PROVE  Has(p, t)'
    <3>1. /\ Len(joins) \in Nat /\ Len(joins') = Len(joins) + 1
          /\ \A u \in 1..Len(joins) : joins'[u] = joins[u]
      BY <2>2, JoinAppends
    <3> QED BY <1>1, <3>1 DEF Has
  <2> QED BY <2>1, <2>2, QueueSteps
<1>2. ASSUME NEW t \in 1..Len(joins), NEW u \in 1..Len(joins), t < u, Has(p, t), Has(p, u)
      PROVE  JoinedTwice(p)'
  <2>1. Has(p, t)' /\ Has(p, u)'
    BY <1>1, <1>2
  <2>2. t \in 1..Len(joins)' /\ u \in 1..Len(joins)'
    BY <2>1 DEF Has
  <2> QED BY <1>2, <2>1, <2>2 DEF JoinedTwice
<1> QED BY <1>1, <1>2 DEF JoinedTwice

\* What a step does to join times, to requests and to what an eviction has read.
Remembers ==
  /\ \A p \in Players : /\ joined'[p] # "none" => joined[p] # "none"
                        /\ joined'[p] = "fresh" => joined[p] = "fresh"
  /\ \A c \in Requests, p \in Players : Pending(c, p)' => Pending(c, p)
  /\ pc' = "evictZ" => pc = "evictZ" /\ batch' = batch

\* A request that ends, or that starts a leave, is no pending join.
LEMMA CallOver ==
  ASSUME TypeOK, NEW c \in Requests, NEW x, calls' = [calls EXCEPT ![c] = x],
         x = NoCall \/ \E p \in Players : x = HDelOf(p)
  PROVE  \A d \in Requests, p \in Players : Pending(d, p)' => Pending(d, p)
<1> DEFINE C == {NoCall} \cup {HSetOf(p) : p \in Players} \cup {HDelOf(p) : p \in Players}
<1>1. calls \in [Requests -> C]
  BY DEF TypeOK
<1> HIDE DEF C
<1>2. calls'[c] = x /\ \A d \in Requests : d # c => calls'[d] = calls[d]
  BY <1>1
<1>3. \A p \in Players : x # HSetOf(p)
  BY CallsDiffer
<1> QED BY <1>2, <1>3 DEF Pending

\* HDEL only takes join times away.
LEMMA RemoveForgets ==
  ASSUME TypeOK, NEW S, HDel(S)
  PROVE  \A p \in Players : /\ joined'[p] # "none" => joined[p] # "none"
                            /\ joined'[p] = "fresh" => joined[p] = "fresh"
BY DEF HDel

\* Only a join, its HSET and the read of an eviction add anything.
LEMMA JoinTimesSteps ==
  ASSUME TypeOK, [Next]_vars
  PROVE  \/ Remembers
         \/ \E c \in Requests, p \in Players, r \in Ranks : Join(c, p, r)
         \/ \E c \in Requests, p \in Players : FinishJoin(c, p)
         \/ EvictRead
<1>1. CASE UNCHANGED vars
  BY <1>1 DEF vars, Remembers, Pending
<1>2. CASE Tick
  <2>1. CASE EvictHDel \/ DequeueHDel
    <3>1. calls' = calls /\ pc' # "evictZ" /\ \E S : HDel(S)
      BY <2>1 DEF EvictHDel, DequeueHDel
    <3> QED BY <3>1, RemoveForgets DEF Remembers, Pending
  <2>2. CASE EvictZRem \/ PairUp \/ SaveRooms \/ DequeueZRem \/ Publish
    <3>1. calls' = calls /\ pc' # "evictZ" /\ joined' = joined
      BY <2>2, Zenon DEF EvictZRem, PairUp, SaveRooms, DequeueZRem, Publish, queueVars
    <3> QED BY <3>1 DEF Remembers, Pending
  <2> QED BY <1>2, <2>1, <2>2 DEF Tick
<1>3. CASE Failure
  <2>1. CASE Crash
    <3>1. calls' = NoCalls /\ pc' # "evictZ" /\ joined' = joined
      BY <2>1 DEF Crash, queueVars
    <3>2. \A c \in Requests : calls'[c] = NoCall
      BY <3>1 DEF NoCalls
    <3> QED BY <3>1, <3>2, CallsDiffer DEF Remembers, Pending
  <2>2. CASE Failure /\ ~Crash
    <3>1. calls' = calls /\ joined' = joined /\ (pc' = "evictZ" => pc = "evictZ" /\ batch' = batch)
      BY <2>2 DEF Failure, EvictError, SnapshotError, SaveError, DequeueError, PublishError, Signal,
                  queueVars, tickVars
    <3> QED BY <3>1 DEF Remembers, Pending
  <2> QED BY <1>3, <2>1, <2>2
<1>4. CASE Return \/ ExitAtTimeout
  <2>1. calls' = calls /\ joined' = joined /\ (pc' = "evictZ" => pc = "evictZ" /\ batch' = batch)
    BY <1>4 DEF Return, ExitAtTimeout, queueVars, tickVars
  <2> QED BY <2>1 DEF Remembers, Pending
<1>5. ASSUME NEW c \in Requests, NEW p \in Players, Leave(c, p) PROVE Remembers
  <2>1. calls' = [calls EXCEPT ![c] = HDelOf(p)] /\ joined' = joined /\ UNCHANGED <<pc, batch>>
    BY <1>5 DEF Leave, Begin, tickVars
  <2> QED BY <2>1, CallOver, Zenon DEF Remembers
<1>6. ASSUME NEW c \in Requests, NEW p \in Players, FinishLeave(c, p) PROVE Remembers
  <2>1. calls' = [calls EXCEPT ![c] = NoCall] /\ HDel({p}) /\ UNCHANGED <<pc, batch>>
    BY <1>6 DEF FinishLeave, End, tickVars
  <2>2. \A d \in Requests, q \in Players : Pending(d, q)' => Pending(d, q)
    BY <2>1, CallOver, Zenon
  <2> QED BY <2>1, <2>2, RemoveForgets DEF Remembers
<1>7. ASSUME NEW c \in Requests, BreakCall(c) PROVE Remembers
  <2>1. calls' = [calls EXCEPT ![c] = NoCall] /\ joined' = joined /\ UNCHANGED <<pc, batch>>
    BY <1>7 DEF BreakCall, End, queueVars, tickVars
  <2> QED BY <2>1, CallOver, Zenon DEF Remembers
<1>8. ASSUME NEW p \in Players, Age(p) PROVE Remembers
  <2>1. /\ calls' = calls /\ joined' = [joined EXCEPT ![p] = "stale"] /\ UNCHANGED <<pc, batch>>
        /\ joined[p] = "fresh" /\ joined \in [Players -> {"none", "fresh", "stale"}]
    BY <1>8 DEF Age, tickVars, TypeOK
  <2> QED BY <2>1 DEF Remembers, Pending
<1> QED BY <1>1, <1>2, <1>3, <1>4, <1>5, <1>6, <1>7, <1>8 DEF Next

\* A join time, and an eviction's view of it, always come from a join.
LEMMA JoinTimesStep ==
  ASSUME TypeOK, JoinTimesInv, [Next]_vars
  PROVE  JoinTimesInv'
<1> DEFINE Joined(p) == \E t \in 1..Len(joins) : Has(p, t)
<1>1. \A p : Joined(p) => Joined(p)'
  BY HistoryGrows DEF Has
<1>2. \A p : JoinedTwice(p) => JoinedTwice(p)'
  BY HistoryGrows
<1>3. /\ \A p \in Players : joined[p] # "none" => Joined(p)
      /\ \A p \in Players, c \in Requests : Pending(c, p) => Joined(p)
      /\ \A p \in Players, c \in Requests : Pending(c, p) /\ joined[p] # "none" => JoinedTwice(p)
      /\ \A p \in Players, c, d \in Requests :
           Pending(c, p) /\ Pending(d, p) /\ c # d => JoinedTwice(p)
      /\ pc = "evictZ" => \A p \in batch :
           /\ Joined(p)
           /\ \A c \in Requests : Pending(c, p) => JoinedTwice(p)
           /\ joined[p] = "fresh" => JoinedTwice(p)
  BY DEF JoinTimesInv
<1>4. batch \subseteq Players /\ joined \in [Players -> {"none", "fresh", "stale"}]
  BY DEF TypeOK
<1> SUFFICES
      /\ \A p \in Players : joined'[p] # "none" => Joined(p)'
      /\ \A p \in Players, c \in Requests : Pending(c, p)' => Joined(p)'
      /\ \A p \in Players, c \in Requests : Pending(c, p)' /\ joined'[p] # "none" => JoinedTwice(p)'
      /\ \A p \in Players, c, d \in Requests :
           Pending(c, p)' /\ Pending(d, p)' /\ c # d => JoinedTwice(p)'
      /\ pc' = "evictZ" => \A p \in batch' :
           /\ Joined(p)'
           /\ \A c \in Requests : Pending(c, p)' => JoinedTwice(p)'
           /\ joined'[p] = "fresh" => JoinedTwice(p)'
  BY Zenon DEF JoinTimesInv
<1> HIDE DEF Joined
<1>5. CASE Remembers
  BY <1>1, <1>2, <1>3, <1>4, <1>5 DEF Remembers
<1>6. ASSUME NEW c \in Requests, NEW p \in Players, NEW r \in Ranks, Join(c, p, r)
      PROVE  /\ \A q \in Players : joined'[q] # "none" => Joined(q)'
             /\ \A q \in Players, d \in Requests : Pending(d, q)' => Joined(q)'
             /\ \A q \in Players, d \in Requests :
                  Pending(d, q)' /\ joined'[q] # "none" => JoinedTwice(q)'
             /\ \A q \in Players, d, e \in Requests :
                  Pending(d, q)' /\ Pending(e, q)' /\ d # e => JoinedTwice(q)'
             /\ pc' = "evictZ" => \A q \in batch' :
                  /\ Joined(q)'
                  /\ \A d \in Requests : Pending(d, q)' => JoinedTwice(q)'
                  /\ joined'[q] = "fresh" => JoinedTwice(q)'
  <2>1. calls' = [calls EXCEPT ![c] = HSetOf(p)] /\ UNCHANGED <<joined, pc, batch>>
    BY <1>6 DEF Join, Begin, tickVars
  <2>2. \A d \in Requests, q \in Players : Pending(d, q)' => Pending(d, q) \/ (d = c /\ q = p)
    <3> DEFINE C == {NoCall} \cup {HSetOf(q) : q \in Players} \cup {HDelOf(q) : q \in Players}
    <3>1. calls \in [Requests -> C]
      BY DEF TypeOK
    <3> HIDE DEF C
    <3>2. calls'[c] = HSetOf(p) /\ \A d \in Requests : d # c => calls'[d] = calls[d]
      BY <2>1, <3>1
    <3> QED BY <3>2, CallsDiffer DEF Pending
  <2>3. Joined(p)' /\ (Joined(p) => JoinedTwice(p)')
    <3> PICK n : n = Len(joins)
      BY Zenon
    <3>1. /\ n \in Nat /\ Len(joins') = n + 1 /\ joins'[n + 1].player = p
      BY <1>6, JoinAppends
    <3>2. Has(p, n + 1)' /\ n + 1 \in 1..Len(joins)'
      BY <3>1 DEF Has
    <3>3. ASSUME NEW t \in 1..n, Has(p, t) PROVE JoinedTwice(p)'
      <4>1. Has(p, t)'
        BY <3>3, HistoryGrows, Zenon
      <4>2. t < n + 1 /\ t \in 1..Len(joins)'
        BY <3>1
      <4> QED BY <3>2, <4>1, <4>2 DEF JoinedTwice
    <3> QED BY <3>2, <3>3 DEF Joined
  <2> QED BY <1>1, <1>2, <1>3, <1>4, <2>1, <2>2, <2>3
<1>7. ASSUME NEW c \in Requests, NEW p \in Players, FinishJoin(c, p)
      PROVE  /\ \A q \in Players : joined'[q] # "none" => Joined(q)'
             /\ \A q \in Players, d \in Requests : Pending(d, q)' => Joined(q)'
             /\ \A q \in Players, d \in Requests :
                  Pending(d, q)' /\ joined'[q] # "none" => JoinedTwice(q)'
             /\ \A q \in Players, d, e \in Requests :
                  Pending(d, q)' /\ Pending(e, q)' /\ d # e => JoinedTwice(q)'
             /\ pc' = "evictZ" => \A q \in batch' :
                  /\ Joined(q)'
                  /\ \A d \in Requests : Pending(d, q)' => JoinedTwice(q)'
                  /\ joined'[q] = "fresh" => JoinedTwice(q)'
  <2>1. /\ calls[c] = HSetOf(p) /\ calls' = [calls EXCEPT ![c] = NoCall] /\ UNCHANGED <<pc, batch>>
        /\ joined' = [joined EXCEPT ![p] = "fresh"]
    BY <1>7 DEF FinishJoin, End, tickVars
  <2>2. Pending(c, p) /\ \A d \in Requests, q \in Players : Pending(d, q)' => Pending(d, q) /\ d # c
    <3> DEFINE C == {NoCall} \cup {HSetOf(q) : q \in Players} \cup {HDelOf(q) : q \in Players}
    <3>1. calls \in [Requests -> C]
      BY DEF TypeOK
    <3> HIDE DEF C
    <3>2. calls'[c] = NoCall /\ \A d \in Requests : d # c => calls'[d] = calls[d]
      BY <2>1, <3>1
    <3> QED BY <2>1, <3>2, CallsDiffer DEF Pending
  <2>3. \A q \in Players : q # p => joined'[q] = joined[q]
    BY <1>4, <2>1
  <2> QED BY <1>1, <1>2, <1>3, <1>4, <2>1, <2>2, <2>3
<1>8. CASE EvictRead
  <2>1. /\ UNCHANGED <<calls, joined>> /\ batch' = {p \in Players : joined[p] = "stale"}
    BY <1>8 DEF EvictRead, queueVars
  <2>2. \A c \in Requests, p \in Players : Pending(c, p)' <=> Pending(c, p)
    BY <2>1 DEF Pending
  <2> QED BY <1>1, <1>2, <1>3, <1>4, <2>1, <2>2
<1> QED BY <1>5, <1>6, <1>7, <1>8, JoinTimesSteps

\* Every step keeps the types.
LEMMA TypeStep ==
  ASSUME TypeOK, QueueInv, PairsInv, [Next]_vars
  PROVE  TypeOK'
<1> DEFINE C == {NoCall} \cup {HSetOf(p) : p \in Players} \cup {HDelOf(p) : p \in Players}
           J == [player : Players, rank : Ranks]
<1>1. /\ joins \in Seq(J) /\ Len(joins) <= MaxJoins /\ Len(joins) \in Nat
      /\ zset \in [Players -> 0..Len(joins)]
      /\ joined \in [Players -> {"none", "fresh", "stale"}]
      /\ calls \in [Requests -> C]
      /\ pc \in Steps /\ batch \in SUBSET Players
      /\ stopping \in BOOLEAN /\ waiting \in SUBSET Players /\ faults \in 0..MaxFaults
  <2>1. joins \in Seq(J)
    BY DEF TypeOK
  <2>2. Len(joins) \in Nat
    <3> HIDE DEF J
    <3> QED BY <2>1
  <2> QED BY <2>1, <2>2 DEF TypeOK
<1>2. /\ pairs \in Seq(Ticket \X Ticket) /\ rooms \in SUBSET (Ticket \X Ticket)
      /\ told \in SUBSET (Ticket \X Ticket)
  BY DEF TypeOK
<1>3. /\ joins' \in Seq(J) /\ Len(joins') <= MaxJoins /\ zset' \in [Players -> 0..Len(joins')]
  <2>1. CASE joins' = joins /\ zset' = zset
    BY <1>1, <2>1
  <2>2. ASSUME NEW c \in Requests, NEW p \in Players, NEW r \in Ranks, Join(c, p, r)
        PROVE  /\ joins' \in Seq(J) /\ Len(joins') <= MaxJoins
               /\ zset' \in [Players -> 0..Len(joins')]
    <3>1. /\ joins' \in Seq(J) /\ Len(joins') <= MaxJoins /\ Len(joins') = Len(joins) + 1
      BY <2>2, JoinAppends, Zenon
    <3>2. zset' = [zset EXCEPT ![p] = Len(joins) + 1]
      BY <2>2 DEF Join
    <3> HIDE DEF J
    <3> QED BY <1>1, <3>1, <3>2
  <2>3. ASSUME NEW S, joins' = joins, ZRem(S) PROVE zset' \in [Players -> 0..Len(joins')]
    <3>1. \A p \in Players : (IF p \in S THEN 0 ELSE zset[p]) \in 0..Len(joins)
      BY <1>1
    <3> QED BY <2>3, <3>1 DEF ZRem
  <2> QED BY <1>1, <2>1, <2>2, <2>3, QueueSteps, Zenon
<1>4. /\ pairs' \in Seq(Ticket \X Ticket) /\ rooms' \in SUBSET (Ticket \X Ticket)
      /\ told' \in SUBSET (Ticket \X Ticket)
  <2> DEFINE X == Ticket \X Ticket
  <2>0. pairs \in Seq(X) /\ rooms \subseteq X /\ told \subseteq X
    BY <1>2
  <2> SUFFICES pairs' \in Seq(X) /\ rooms' \subseteq X /\ told' \subseteq X
    OBVIOUS
  <2> HIDE DEF X
  <2>1. Range(pairs) \subseteq X /\ \A n \in 0..Len(pairs) : Range(SubSeq(pairs, 1, n)) \subseteq X
    <3>1. Range(pairs) \subseteq X
      BY <2>0 DEF Range
    <3>2. ASSUME NEW n \in 0..Len(pairs) PROVE Range(SubSeq(pairs, 1, n)) \subseteq X
      <4>1. SubSeq(pairs, 1, n) \in Seq(X)
        BY <2>0
      <4> QED BY <4>1 DEF Range
    <3> QED BY <3>1, <3>2
  <2>2. CASE Publish \/ PublishError
    <3>1. pairs # <<>> /\ pairs' = Tail(pairs) /\ rooms' = rooms /\ told' \subseteq told \cup {Head(pairs)}
      BY <2>2 DEF Publish, PublishError, PairsInv, roomVars
    <3>2. Tail(pairs) \in Seq(X) /\ Head(pairs) \in X
      BY <2>0, <3>1
    <3> QED BY <2>0, <3>1, <3>2
  <2>3. CASE PairUp
    <3>1. pairs' = TicketPairs(Pair(Snapshot, Window)) /\ UNCHANGED roomVars
      BY <2>3 DEF PairUp, TicketPairs
    <3>2. pairs' \in Seq(X)
      BY <3>1, SnapshotPairs DEF X
    <3> QED BY <2>0, <3>1, <3>2 DEF roomVars
  <2>4. CASE UNCHANGED <<pairs, told>> /\ (rooms' = rooms \/ rooms' = rooms \cup Range(pairs))
    BY <2>0, <2>1, <2>4
  <2>5. CASE /\ pairs' = <<>> /\ told' = told
             /\ \/ rooms' = rooms
                \/ \E n \in 0..Len(pairs) : rooms' = rooms \cup Range(SubSeq(pairs, 1, n))
    BY <2>0, <2>1, <2>5
  <2>6. \/ Publish \/ PublishError \/ PairUp
        \/ UNCHANGED <<pairs, told>> /\ (rooms' = rooms \/ rooms' = rooms \cup Range(pairs))
        \/ /\ pairs' = <<>> /\ told' = told
           /\ \/ rooms' = rooms
              \/ \E n \in 0..Len(pairs) : rooms' = rooms \cup Range(SubSeq(pairs, 1, n))
    <3>1. CASE UNCHANGED vars
      BY <3>1 DEF vars
    <3>2. CASE Tick
      BY <3>2 DEF Tick, EvictRead, EvictZRem, EvictHDel, SaveRooms, DequeueZRem, DequeueHDel, roomVars
    <3>3. CASE Failure
      BY <3>3 DEF Failure, EvictError, SnapshotError, SaveError, DequeueError, Signal, Crash,
                  tickVars, roomVars
    <3>4. CASE Return \/ ExitAtTimeout
      BY <3>4 DEF Return, ExitAtTimeout, tickVars, roomVars
    <3>5. ASSUME NEW c \in Requests, NEW p \in Players,
                 FinishJoin(c, p) \/ Leave(c, p) \/ FinishLeave(c, p) \/ \E r \in Ranks : Join(c, p, r)
          PROVE  UNCHANGED <<pairs, told, rooms>>
      BY <3>5, Zenon DEF Join, FinishJoin, Leave, FinishLeave, tickVars, roomVars
    <3>6. ASSUME NEW c \in Requests, BreakCall(c) PROVE UNCHANGED <<pairs, told, rooms>>
      BY <3>6 DEF BreakCall, tickVars, roomVars
    <3>7. ASSUME NEW p \in Players, Age(p) PROVE UNCHANGED <<pairs, told, rooms>>
      BY <3>7 DEF Age, tickVars, roomVars
    <3> QED BY <3>1, <3>2, <3>3, <3>4, <3>5, <3>6, <3>7 DEF Next
  <2> QED BY <2>2, <2>3, <2>4, <2>5, <2>6
<1>5. /\ joined' \in [Players -> {"none", "fresh", "stale"}] /\ calls' \in [Requests -> C]
      /\ pc' \in Steps /\ batch' \in SUBSET Players
      /\ stopping' \in BOOLEAN /\ waiting' \in SUBSET Players /\ faults' \in 0..MaxFaults
  <2>0. /\ NoCall \in C /\ NoCalls \in [Requests -> C] /\ MaxFaults \in Nat
        /\ \A p \in Players : HSetOf(p) \in C /\ HDelOf(p) \in C
    BY MatchmakingAssumption DEF NoCalls
  <2> HIDE DEF C, J
  <2> DEFINE D == {"none", "fresh", "stale"}
  <2>1. \A S : HDel(S) => joined' \in [Players -> {"none", "fresh", "stale"}]
    BY <1>1 DEF HDel
  <2>2. Fault => faults' \in 0..MaxFaults
    BY <1>1, <2>0 DEF Fault
  <2>3. CASE UNCHANGED vars
    BY <1>1, <2>3 DEF vars
  <2>4. CASE Tick
    <3>1. CASE EvictRead
      BY <1>1, <3>1 DEF EvictRead, Steps, queueVars
    <3>2. CASE EvictZRem \/ PairUp \/ SaveRooms \/ DequeueZRem \/ Publish
      BY <1>1, <3>2 DEF EvictZRem, PairUp, SaveRooms, DequeueZRem, Publish, Steps, queueVars
    <3>3. CASE EvictHDel \/ DequeueHDel
      BY <1>1, <2>1, <3>3 DEF EvictHDel, DequeueHDel, Steps
    <3> QED BY <2>4, <3>1, <3>2, <3>3 DEF Tick
  <2>5. CASE Failure
    BY <1>1, <2>0, <2>2, <2>5, Zenon DEF Failure, EvictError, SnapshotError, SaveError, DequeueError,
       PublishError, Signal, Crash, Steps, queueVars, tickVars
  <2>6. CASE Return \/ ExitAtTimeout
    BY <1>1, <2>6, Zenon DEF Return, ExitAtTimeout, Steps, queueVars, tickVars
  <2>7. ASSUME NEW c \in Requests, NEW p \in Players, NEW r \in Ranks, Join(c, p, r)
        PROVE  /\ joined' \in [Players -> D] /\ calls' \in [Requests -> C]
               /\ pc' \in Steps /\ batch' \in SUBSET Players
               /\ stopping' \in BOOLEAN /\ waiting' \in SUBSET Players /\ faults' \in 0..MaxFaults
    BY <1>1, <2>0, <2>7 DEF Join, Begin, tickVars
  <2>8. ASSUME NEW c \in Requests, NEW p \in Players,
               FinishJoin(c, p) \/ Leave(c, p) \/ FinishLeave(c, p)
        PROVE  /\ joined' \in [Players -> D] /\ calls' \in [Requests -> C]
               /\ pc' \in Steps /\ batch' \in SUBSET Players
               /\ stopping' \in BOOLEAN /\ waiting' \in SUBSET Players /\ faults' \in 0..MaxFaults
    <3>1. CASE FinishJoin(c, p)
      BY <1>1, <2>0, <3>1 DEF FinishJoin, End, tickVars
    <3>2. CASE Leave(c, p)
      BY <1>1, <2>0, <3>2 DEF Leave, Begin, tickVars
    <3>3. CASE FinishLeave(c, p)
      BY <1>1, <2>0, <2>1, <3>3 DEF FinishLeave, End, tickVars
    <3> QED BY <2>8, <3>1, <3>2, <3>3
  <2>9. ASSUME NEW c \in Requests, BreakCall(c)
        PROVE  /\ joined' \in [Players -> D] /\ calls' \in [Requests -> C]
               /\ pc' \in Steps /\ batch' \in SUBSET Players
               /\ stopping' \in BOOLEAN /\ waiting' \in SUBSET Players /\ faults' \in 0..MaxFaults
    BY <1>1, <2>0, <2>2, <2>9 DEF BreakCall, End, queueVars, tickVars
  <2>10. ASSUME NEW p \in Players, Age(p)
        PROVE  /\ joined' \in [Players -> D] /\ calls' \in [Requests -> C]
               /\ pc' \in Steps /\ batch' \in SUBSET Players
               /\ stopping' \in BOOLEAN /\ waiting' \in SUBSET Players /\ faults' \in 0..MaxFaults
    BY <1>1, <2>10 DEF Age, tickVars
  <2> QED BY <2>3, <2>4, <2>5, <2>6, <2>7, <2>8, <2>9, <2>10 DEF Next
<1> QED BY <1>3, <1>4, <1>5, Zenon DEF TypeOK

\* The invariant holds at start.
LEMMA MatchStart == Init => MatchInv
<1> SUFFICES ASSUME Init PROVE MatchInv
  OBVIOUS
<1>1. /\ joins = <<>> /\ pairs = <<>> /\ told = {} /\ rooms = {} /\ waiting = {} /\ batch = {}
      /\ pc = "idle" /\ stopping = FALSE /\ faults = 0
      /\ zset = [p \in Players |-> 0] /\ joined = [p \in Players |-> "none"] /\ calls = NoCalls
  BY DEF Init
<1>2. Len(joins) = 0 /\ Len(pairs) = 0 /\ joins \in Seq([player : Players, rank : Ranks])
  BY <1>1
<1>3. TypeOK
  <2>0. \A S : <<>> \in Seq(S)
    OBVIOUS
  <2>1. pairs \in Seq(Ticket \X Ticket)
    BY <1>1, <2>0, Zenon
  <2>2. calls \in [Requests -> {NoCall} \cup {HSetOf(p) : p \in Players} \cup {HDelOf(p) : p \in Players}]
    BY <1>1 DEF NoCalls
  <2>3. zset \in [Players -> 0..Len(joins)]
    BY <1>1, <1>2
  <2>4. Len(joins) <= MaxJoins /\ faults \in 0..MaxFaults /\ pc \in Steps
    BY <1>1, <1>2, MatchmakingAssumption DEF Steps
  <2>5. joined \in [Players -> {"none", "fresh", "stale"}] /\ stopping \in BOOLEAN
    BY <1>1, Zenon
  <2>6. /\ batch \in SUBSET Players /\ waiting \in SUBSET Players
        /\ rooms \in SUBSET (Ticket \X Ticket) /\ told \in SUBSET (Ticket \X Ticket)
    BY <1>1, Zenon
  <2> QED BY <1>2, <2>1, <2>2, <2>3, <2>4, <2>5, <2>6, Zenon DEF TypeOK
<1>4. QueueInv
  BY <1>1 DEF QueueInv
<1>5. PairsInv /\ ToldInv
  BY <1>1, <1>2 DEF PairsInv, ToldInv
<1>6. WaitingInv
  BY <1>1 DEF WaitingInv
<1>7. JoinTimesInv
  <2>1. \A c \in Requests, p \in Players : ~Pending(c, p)
    BY <1>1, CallsDiffer DEF Pending, NoCalls
  <2> QED BY <1>1, <2>1 DEF JoinTimesInv
<1> QED BY <1>3, <1>4, <1>5, <1>6, <1>7 DEF MatchInv

\* The inductive invariant of the match loop and of the API calls beside it.
THEOREM MatchInvariant == Spec => []MatchInv
<1>1. MatchInv /\ [Next]_vars => MatchInv'
  BY TypeStep, QueueStep, PairsStep, ToldStep, WaitingStep, JoinTimesStep DEF MatchInv
<1> QED BY <1>1, MatchStart, PTL DEF Spec

\* Every room MatchFound was published for was stored first (createRooms saves,
\* then publishes), joins two different players and is within the rank window,
\* for every number of players, requests, joins and faults.
THEOREM RoomsSound == Spec => []ToldRoomsSound
<1>1. MatchInv => ToldRoomsSound
  BY DEF MatchInv, ToldInv, Playable, ToldRoomsSound
<1> QED BY <1>1, MatchInvariant, PTL

\* One ticket leads to at most one MatchFound, and one that did is out of the
\* queue (RemoveBatch comes before the publish loop), whatever fails.
THEOREM OneMatchPerTicket == Spec => []MatchedOnce
<1>1. MatchInv => MatchedOnce
  BY Zenon DEF MatchInv, ToldInv, Apart, Dequeued, MatchedOnce
<1> QED BY <1>1, MatchInvariant, PTL

\* Without a fault a player who joined is queued or about to be told, however
\* requests and ticks mix; and EvictStale acts on a join time it read too early
\* only against a player who has joined again.
THEOREM NobodyIsForgotten == Spec => []NobodyForgotten
<1>1. MatchInv => NobodyForgotten
  <2> SUFFICES ASSUME MatchInv PROVE NobodyForgotten
    OBVIOUS
  <2>1. ASSUME pc = "evictZ", NEW p \in batch \cap Queued, joined[p] = "fresh"
        PROVE  \E t \in 1..(zset[p] - 1) : joins[t].player = p
    <3>1. PICK t, u \in 1..Len(joins) : t < u /\ Has(p, t) /\ Has(p, u)
      BY <2>1 DEF MatchInv, JoinTimesInv, JoinedTwice
    <3>2. p \in Players /\ zset[p] \in 1..Len(joins) /\ u <= zset[p]
      BY <3>1, Zenon DEF MatchInv, QueueInv, Queued, Has
    <3>3. Len(joins) \in Nat
      BY SeqElements DEF MatchInv, TypeOK
    <3>4. t \in 1..(zset[p] - 1)
      BY <3>1, <3>2, <3>3
    <3> QED BY <3>1, <3>4 DEF Has
  <2> QED BY <2>1 DEF MatchInv, WaitingInv, NobodyForgotten
<1> QED BY <1>1, MatchInvariant, PTL

\* Pair against its promise on every snapshot the run enumerates, for every bound.
THEOREM PairingIsMaximum == Spec => []PairsMaximum
<1>1. ASSUME NEW tickets \in Snapshots, NEW window \in 0..MaxWindow PROVE Maximum(tickets, window)
  <2>1. PICK ranks \in SortedRanks :
          tickets = [i \in DOMAIN ranks |-> [ticket |-> i, rank |-> ranks[i]]]
    BY DEF Snapshots
  <2>2. PICK n \in 0..MaxLen : ranks \in [1..n -> 0..MaxRank]
    BY DEF SortedRanks
  <2>3. n \in Nat /\ window \in Int /\ MaxRank \in Nat
    BY SnapshotAssumption
  <2>4. \A i, j \in 1..n : i <= j => ranks[i] <= ranks[j]
    BY <2>2 DEF SortedRanks
  <2>5. tickets = [i \in 1..n |-> [ticket |-> i, rank |-> ranks[i]]]
    BY <2>1, <2>2
  <2>6. \A i \in 1..n : tickets[i].ticket = i /\ tickets[i].rank = ranks[i]
    BY <2>5
  <2>7. tickets \in Seq([ticket : Nat, rank : Int]) /\ Len(tickets) = n
    <3> DEFINE T == [ticket : Nat, rank : Int]
    <3>1. \A i \in 1..n : [ticket |-> i, rank |-> ranks[i]] \in T
      BY <2>2, <2>3
    <3> HIDE DEF T
    <3>2. tickets \in [1..n -> T]
      BY <2>5, <3>1
    <3>3. tickets \in Seq(T) /\ Len(tickets) = n
      BY <2>3, <3>2
    <3> QED BY <3>3 DEF T
  <2>8. IsSnapshot(tickets)
    BY <2>4, <2>6, <2>7 DEF IsSnapshot
  <2> QED BY <2>3, <2>6, <2>7, <2>8, GreedyIsMaximum
<1>2. PairsMaximum
  BY <1>1 DEF PairsMaximum
<1> QED BY <1>2, PTL
=============================================================================
