------------------------- MODULE LeaderboardProofs --------------------------
(***************************************************************************)
(* That answers are fresh and that every final score is announced, for any *)
(* number of players, requests and scores.                                 *)
(*                                                                         *)
(* Freshness needs what holds between the commands of one request: the     *)
(* player's score is among those the request may still read (Reading), a   *)
(* rank already read and the rows of a page stay within the board, which   *)
(* only grows (Ranked, Paged).  The announcement needs a witness: while a  *)
(* member's score is not in the feed, some submission has still to read    *)
(* it, or has read exactly it (Announced).                                 *)
(***************************************************************************)
EXTENDS Leaderboard, FiniteSetTheorems, TLAPS

\* A submission that has written and not yet announced.
Submitted(c) == pc[c] \in {"rank", "score", "publish"} /\ submits[c]

\* A request on its way to a score has it among those it may read.
Reading == \A c \in Calls : pc[c] \in {"rank", "score"} => score[who[c]] \in seen[c]

\* A rank that was read is the rank of some member; pages have none.
Ranked ==
  \A c \in Calls :
    /\ pc[c] \in {"new", "write", "total"} => rank[c] = 0
    /\ pc[c] = "score" => rank[c] \in 1..Cardinality(members)
    /\ pc[c] \in {"publish", "done"} /\ rank[c] # 0 =>
         entry[c] \in seen[c] /\ rank[c] \in 1..Cardinality(members)

\* The rows a page has read exist; requests of the other kinds have none.
Paged ==
  \A c \in Calls :
    /\ pc[c] = "total" => last[c] <= Cardinality(members)
    /\ pc[c] \notin {"total", "error"} => last[c] <= total[c]

\* A submission is marked as one from its start, and is on the board once written.
Marked ==
  \A c \in Calls :
    /\ pc[c] = "new" => ~submits[c]
    /\ pc[c] = "write" => submits[c]
    /\ Submitted(c) => who[c] \in members

\* Without a failed command, a score not yet in the feed has someone to announce it.
Announced ==
  faults = 0 =>
    \A p \in members :
      \/ <<p, score[p]>> \in feed
      \/ \E c \in Calls : /\ Submitted(c) /\ who[c] = p
                          /\ pc[c] = "publish" => entry[c] = score[p]

BoardInv == TypeOK /\ Reading /\ Ranked /\ Paged /\ Marked /\ Announced

-----------------------------------------------------------------------------
\* The board is finite: it has at most NPlayers members.
LEMMA BoardSize ==
  ASSUME members \subseteq Players
  PROVE  /\ IsFiniteSet(members) /\ Cardinality(members) \in 0..NPlayers
         /\ \A S \in SUBSET members : IsFiniteSet(S) /\ Cardinality(S) \in 0..Cardinality(members)
<1>1. IsFiniteSet(Players) /\ Cardinality(Players) = NPlayers
  <2>1. NPlayers \in Nat \ {0} /\ 1 \in Int
    BY LeaderboardAssumption
  <2>2. IsFiniteSet(1..NPlayers) /\ Cardinality(1..NPlayers) = IF 1 > NPlayers THEN 0 ELSE NPlayers - 1 + 1
    BY <2>1, FS_Interval
  <2> QED BY <2>1, <2>2 DEF Players
<1>2. IsFiniteSet(members) /\ Cardinality(members) <= Cardinality(Players)
  BY <1>1, FS_Subset
<1>3. Cardinality(members) \in Nat
  BY <1>2, FS_CardinalityType
<1>4. ASSUME NEW S \in SUBSET members
      PROVE  IsFiniteSet(S) /\ Cardinality(S) \in 0..Cardinality(members)
  <2>1. IsFiniteSet(S) /\ Cardinality(S) <= Cardinality(members)
    BY <1>2, FS_Subset
  <2>2. Cardinality(S) \in Nat
    BY <2>1, FS_CardinalityType
  <2> QED BY <1>3, <2>1, <2>2
<1> QED BY <1>1, <1>2, <1>3, <1>4, LeaderboardAssumption

\* ZREVRANK: a member has fewer others ahead of it than the board has members.
LEMMA RankOnBoard ==
  ASSUME members \subseteq Players, NEW p \in members, score \in [Players -> Int]
  PROVE  Cardinality(Ahead(p)) + 1 \in 1..Cardinality(members)
<1>1. Ahead(p) \in SUBSET (members \ {p})
  BY DEF Ahead, Players
<1>2. IsFiniteSet(members) /\ Cardinality(members) \in Nat
  BY BoardSize, LeaderboardAssumption
<1>3. IsFiniteSet(members \ {p}) /\ Cardinality(members \ {p}) = Cardinality(members) - 1
  BY <1>2, FS_RemoveElement
<1>4. IsFiniteSet(Ahead(p)) /\ Cardinality(Ahead(p)) <= Cardinality(members \ {p})
  BY <1>1, <1>3, FS_Subset
<1>5. Cardinality(Ahead(p)) \in Nat
  BY <1>4, FS_CardinalityType
<1> QED BY <1>2, <1>3, <1>4, <1>5

\* A write may add a member.
LEMMA BoardGrows ==
  ASSUME members \subseteq Players, NEW p \in Players
  PROVE  /\ Cardinality(members) \in Nat /\ Cardinality(members \cup {p}) \in Nat
         /\ Cardinality(members) <= Cardinality(members \cup {p})
<1>1. IsFiniteSet(members) /\ Cardinality(members) \in Nat
  BY BoardSize, LeaderboardAssumption
<1>2. IsFiniteSet(members \cup {p})
  BY <1>1, FS_AddElement
<1>3. members \subseteq members \cup {p}
  OBVIOUS
<1>4. Cardinality(members) <= Cardinality(members \cup {p})
  BY <1>2, <1>3, FS_Subset
<1> QED BY <1>1, <1>2, <1>4, FS_CardinalityType

\* The empty board satisfies the invariant.
LEMMA BoardStart == Init => BoardInv
<1> SUFFICES ASSUME Init PROVE BoardInv
  OBVIOUS
<1>1. TypeOK
  BY LeaderboardAssumption DEF Init, TypeOK, Players
<1>2. Paged
  BY FS_EmptySet DEF Init, Paged
<1> QED BY <1>1, <1>2 DEF Init, BoardInv, Reading, Ranked, Marked, Announced, Submitted

-----------------------------------------------------------------------------
\* submitScore: a submission arrives and has read nothing.
LEMMA SubmitInv ==
  ASSUME BoardInv, NEW c \in Calls, NEW p \in Players, Submit(c, p)
  PROVE  BoardInv'
<1>1. TypeOK'
  BY DEF BoardInv, TypeOK, Submit, Goto, boardVars, pageVars
<1>2. Reading' /\ Ranked' /\ Paged'
  BY DEF BoardInv, TypeOK, Reading, Ranked, Paged, Submit, Goto, boardVars, pageVars
<1>3. Marked' /\ Announced'
  BY DEF BoardInv, TypeOK, Marked, Announced, Submitted, Submit, Goto, boardVars, pageVars
<1> QED BY <1>1, <1>2, <1>3 DEF BoardInv

\* rank: a lookup arrives; the scores from now on are those it may read.
LEMMA LookupInv ==
  ASSUME BoardInv, NEW c \in Calls, NEW p \in Players, Lookup(c, p)
  PROVE  BoardInv'
<1>1. TypeOK'
  BY DEF BoardInv, TypeOK, Lookup, Goto, boardVars, pageVars
<1>2. Reading' /\ Ranked' /\ Paged'
  BY DEF BoardInv, TypeOK, Reading, Ranked, Paged, Lookup, Goto, boardVars, pageVars
<1>3. Marked' /\ Announced'
  BY DEF BoardInv, TypeOK, Marked, Announced, Submitted, Lookup, Goto, boardVars, pageVars
<1> QED BY <1>1, <1>2, <1>3 DEF BoardInv

\* ZADD or ZINCRBY: the board grows or keeps its size, every request about the player may
\* now read the new score, and this submission is there to announce it.
LEMMA WriteInv ==
  ASSUME BoardInv, NEW c \in Calls, NEW x \in Amounts, NEW increment \in BOOLEAN,
         Write(c, x, increment)
  PROVE  BoardInv'
<1> DEFINE p == who[c]
           n == IF increment THEN score[p] + x ELSE x
<1>1. /\ p \in Players /\ x \in Int /\ score \in [Players -> Int]
      /\ members \subseteq Players /\ pc[c] = "write"
  BY LeaderboardAssumption DEF BoardInv, TypeOK, Write
<1>2. n \in Int
  BY <1>1
<1>3. /\ members' = members \cup {p} /\ score' = [score EXCEPT ![p] = n]
      /\ seen' = [d \in Calls |-> IF d = c THEN {n}
                                  ELSE IF who[d] = p THEN seen[d] \cup {n} ELSE seen[d]]
      /\ pc' = [pc EXCEPT ![c] = "rank"]
      /\ UNCHANGED <<who, submits, rank, entry, last, total, feed, faults>>
  BY DEF Write, Store, Goto, pageVars
<1> HIDE DEF n, p
<1>4. TypeOK'
  BY <1>1, <1>2, <1>3 DEF BoardInv, TypeOK
<1>5. Reading'
  <2>1. \A d \in Calls : who[d] \in Players /\ (pc'[d] \in {"rank", "score"} /\ d # c => pc[d] \in {"rank", "score"})
    BY <1>3 DEF BoardInv, TypeOK
  <2> QED BY <1>1, <1>3, <2>1 DEF BoardInv, Reading, p
<1>6. /\ Cardinality(members) \in Nat /\ Cardinality(members') \in Nat
      /\ Cardinality(members) <= Cardinality(members')
  BY <1>1, <1>3, BoardGrows
<1>7. Ranked'
  <2>1. \A i : i \in 1..Cardinality(members) => i \in 1..Cardinality(members')
    BY <1>6
  <2> QED BY <1>1, <1>3, <2>1, Zenon DEF BoardInv, TypeOK, Ranked
<1>8. Paged'
  <2>1. \A d \in Calls : last[d] \in Int
    BY LeaderboardAssumption DEF BoardInv, TypeOK
  <2> QED BY <1>1, <1>3, <1>6, <2>1 DEF BoardInv, TypeOK, Paged
<1>9. Marked'
  BY <1>1, <1>3 DEF BoardInv, TypeOK, Marked, Submitted, p
<1>10. Announced'
  <2> SUFFICES ASSUME faults = 0, NEW q \in members'
               PROVE  \/ <<q, score'[q]>> \in feed
                      \/ \E d \in Calls : /\ Submitted(d)' /\ who[d] = q
                                          /\ pc'[d] = "publish" => entry[d] = score'[q]
    BY <1>3 DEF Announced
  <2>1. CASE q = p
    <3>1. Submitted(c)' /\ pc'[c] # "publish"
      BY <1>1, <1>3 DEF BoardInv, TypeOK, Marked, Submitted
    <3> QED BY <2>1, <3>1 DEF p
  <2>2. CASE q # p
    <3>1. q \in members /\ score'[q] = score[q]
      BY <1>1, <1>3, <2>2
    <3>2. \A d \in Calls : who[d] = q => d # c /\ pc'[d] = pc[d]
      BY <1>3, <2>2 DEF BoardInv, TypeOK, p
    <3> QED BY <1>3, <3>1, <3>2 DEF BoardInv, Announced, Submitted
  <2> QED BY <2>1, <2>2
<1> QED BY <1>4, <1>5, <1>7, <1>8, <1>9, <1>10 DEF BoardInv

\* ZREVRANK: a rank within the board, or an error for who is not on it.
LEMMA ReadRankInv ==
  ASSUME BoardInv, NEW c \in Calls, ReadRank(c)
  PROVE  BoardInv'
<1>0. /\ members \subseteq Players /\ who[c] \in Players /\ score \in [Players -> Int]
      /\ Cardinality(members) \in 0..NPlayers /\ NPlayers \in Nat
  BY BoardSize, LeaderboardAssumption DEF BoardInv, TypeOK
<1>1. CASE who[c] \in members
  <2> DEFINE r == Cardinality(Ahead(who[c])) + 1
  <2>1. r \in 1..Cardinality(members)
    BY <1>0, <1>1, RankOnBoard
  <2>2. /\ rank' = [rank EXCEPT ![c] = r] /\ pc' = [pc EXCEPT ![c] = "score"] /\ pc[c] = "rank"
        /\ UNCHANGED <<members, score, who, submits, entry, seen, last, total, feed, faults>>
    BY <1>1 DEF ReadRank, Goto, boardVars, pageVars
  <2> HIDE DEF r
  <2>3. r \in 0..NPlayers
    BY <1>0, <2>1
  <2>4. TypeOK'
    BY <2>2, <2>3 DEF BoardInv, TypeOK
  <2>5. Reading' /\ Ranked' /\ Paged'
    BY <2>1, <2>2 DEF BoardInv, TypeOK, Reading, Ranked, Paged
  <2>6. Marked' /\ Announced'
    BY <2>2 DEF BoardInv, TypeOK, Marked, Announced, Submitted
  <2> QED BY <2>4, <2>5, <2>6 DEF BoardInv
<1>2. CASE who[c] \notin members
  <2>1. /\ pc' = [pc EXCEPT ![c] = "error"] /\ pc[c] = "rank"
        /\ UNCHANGED <<members, score, who, submits, rank, entry, seen, last, total, feed, faults>>
    BY <1>2 DEF ReadRank, Goto, boardVars, pageVars
  <2>2. ~submits[c]
    BY <1>2, <2>1 DEF BoardInv, Marked, Submitted
  <2>3. TypeOK' /\ Reading' /\ Ranked' /\ Paged'
    BY <2>1 DEF BoardInv, TypeOK, Reading, Ranked, Paged
  <2>4. Marked' /\ Announced'
    BY <2>1, <2>2 DEF BoardInv, TypeOK, Marked, Announced, Submitted
  <2> QED BY <2>3, <2>4 DEF BoardInv
<1> QED BY <1>1, <1>2

\* ZSCORE: the score as it is now, which a submission goes on to announce.
LEMMA ReadScoreInv ==
  ASSUME BoardInv, NEW c \in Calls, ReadScore(c)
  PROVE  BoardInv'
<1>1. /\ entry' = [entry EXCEPT ![c] = score[who[c]]] /\ pc[c] = "score"
      /\ pc' = [pc EXCEPT ![c] = IF submits[c] THEN "publish" ELSE "done"]
      /\ UNCHANGED <<members, score, who, submits, rank, seen, last, total, feed, faults>>
  BY DEF ReadScore, Goto, boardVars, pageVars
<1>2. who[c] \in Players /\ score[who[c]] \in Int /\ submits[c] \in BOOLEAN
  BY DEF BoardInv, TypeOK
<1>3. TypeOK'
  BY <1>1, <1>2 DEF BoardInv, TypeOK
<1>4. Reading' /\ Ranked' /\ Paged'
  BY <1>1, <1>2 DEF BoardInv, TypeOK, Reading, Ranked, Paged
<1>5. Marked'
  BY <1>1, <1>2 DEF BoardInv, TypeOK, Marked, Submitted
<1>6. Announced'
  BY <1>1, <1>2 DEF BoardInv, TypeOK, Announced, Submitted
<1> QED BY <1>3, <1>4, <1>5, <1>6 DEF BoardInv

\* PublishLeaderboardUpdated: the score that was read is in the feed, or a command failed.
LEMMA PublishInv ==
  ASSUME BoardInv, NEW c \in Calls, Publish(c)
  PROVE  BoardInv'
<1>1. /\ pc' = [pc EXCEPT ![c] = "done"] /\ pc[c] = "publish"
      /\ \/ feed' = feed \cup {<<who[c], entry[c]>>} /\ faults' = faults
         \/ faults < MaxFaults /\ faults' = faults + 1 /\ feed' = feed
      /\ UNCHANGED <<members, score, who, submits, rank, entry, seen, last, total>>
  BY DEF Publish, Goto, boardVars, callVars, pageVars
<1>2. TypeOK'
  <2>1. faults' \in 0..MaxFaults
    BY <1>1, LeaderboardAssumption DEF BoardInv, TypeOK
  <2>2. <<who[c], entry[c]>> \in Players \X Int
    BY DEF BoardInv, TypeOK
  <2>3. feed' \subseteq Players \X Int
    BY <1>1, <2>2 DEF BoardInv, TypeOK
  <2> QED BY <1>1, <2>1, <2>3 DEF BoardInv, TypeOK
<1>3. Reading' /\ Ranked' /\ Paged'
  BY <1>1 DEF BoardInv, TypeOK, Reading, Ranked, Paged
<1>4. Marked'
  BY <1>1 DEF BoardInv, TypeOK, Marked, Submitted
<1>5. Announced'
  <2>1. CASE feed' = feed \cup {<<who[c], entry[c]>>} /\ faults' = faults
    <3> SUFFICES ASSUME faults = 0, NEW p \in members
                 PROVE  \/ <<p, score[p]>> \in feed'
                        \/ \E d \in Calls : /\ Submitted(d)' /\ who[d] = p
                                            /\ pc'[d] = "publish" => entry[d] = score[p]
      BY <1>1, <2>1 DEF Announced
    <3>1. CASE <<p, score[p]>> \in feed
      BY <2>1, <3>1
    <3>2. ASSUME NEW d \in Calls, Submitted(d), who[d] = p, pc[d] = "publish" => entry[d] = score[p]
          PROVE  \/ <<p, score[p]>> \in feed'
                 \/ Submitted(d)' /\ (pc'[d] = "publish" => entry[d] = score[p])
      <4>1. CASE d = c
        BY <1>1, <2>1, <3>2, <4>1
      <4>2. CASE d # c
        BY <1>1, <3>2, <4>2 DEF BoardInv, TypeOK, Submitted
      <4> QED BY <4>1, <4>2
    <3> QED BY <3>1, <3>2 DEF BoardInv, Announced
  <2>2. CASE faults' = faults + 1
    BY <2>2, LeaderboardAssumption DEF BoardInv, TypeOK, Announced
  <2> QED BY <1>1, <2>1, <2>2
<1> QED BY <1>2, <1>3, <1>4, <1>5 DEF BoardInv

\* ZREVRANGE and, later, ZCARD: the board has not shrunk in between.
LEMMA PageInv ==
  ASSUME BoardInv, NEW c \in Calls,
         PageTotal(c) \/ \E offset \in Offsets, limit \in Limits : PageRange(c, offset, limit)
  PROVE  BoardInv'
<1>0. Cardinality(members) \in 0..NPlayers /\ NPlayers \in Nat
  BY BoardSize, LeaderboardAssumption DEF BoardInv, TypeOK
<1>1. CASE PageTotal(c)
  <2>1. /\ total' = [total EXCEPT ![c] = Cardinality(members)] /\ pc[c] = "total"
        /\ pc' = [pc EXCEPT ![c] = "done"]
        /\ UNCHANGED <<members, score, who, submits, rank, entry, seen, last, feed, faults>>
    BY <1>1 DEF PageTotal, Goto, boardVars, callVars
  <2>2. TypeOK' /\ Reading' /\ Ranked' /\ Paged'
    BY <1>0, <2>1 DEF BoardInv, TypeOK, Reading, Ranked, Paged
  <2>3. Marked' /\ Announced'
    BY <2>1 DEF BoardInv, TypeOK, Marked, Announced, Submitted
  <2> QED BY <2>2, <2>3 DEF BoardInv
<1>2. ASSUME NEW offset \in Offsets, NEW limit \in Limits, PageRange(c, offset, limit)
      PROVE  BoardInv'
  <2> DEFINE l == LastRank(offset, limit)
  <2>1. /\ last' = [last EXCEPT ![c] = l] /\ pc[c] = "new" /\ pc' = [pc EXCEPT ![c] = "total"]
        /\ UNCHANGED <<members, score, who, submits, rank, entry, seen, total, feed, faults>>
    BY <1>2 DEF PageRange, Goto, boardVars, callVars
  <2>2. l \in 0..Cardinality(members)
    <3>1. offset \in Nat /\ limit \in Nat
      BY LeaderboardAssumption
    <3> QED BY <1>0, <3>1 DEF LastRank, Least
  <2> HIDE DEF l
  <2>3. l \in 0..NPlayers /\ l <= Cardinality(members)
    BY <1>0, <2>2
  <2>4. TypeOK' /\ Reading' /\ Ranked' /\ Paged'
    BY <2>1, <2>3 DEF BoardInv, TypeOK, Reading, Ranked, Paged
  <2>5. Marked' /\ Announced'
    BY <2>1 DEF BoardInv, TypeOK, Marked, Announced, Submitted
  <2> QED BY <2>4, <2>5 DEF BoardInv
<1> QED BY <1>1, <1>2

\* A command fails: nothing is promised about announcements from then on.
LEMMA FailInv ==
  ASSUME BoardInv, NEW c \in Calls, Fail(c)
  PROVE  BoardInv'
<1>1. /\ pc' = [pc EXCEPT ![c] = "error"] /\ faults < MaxFaults /\ faults' = faults + 1
      /\ UNCHANGED <<members, score, who, submits, rank, entry, seen, last, total, feed>>
  BY DEF Fail, Goto, boardVars, callVars, pageVars
<1>2. faults' \in 0..MaxFaults /\ faults' # 0
  BY <1>1, LeaderboardAssumption DEF BoardInv, TypeOK
<1>3. TypeOK' /\ Reading' /\ Ranked' /\ Paged'
  BY <1>1, <1>2 DEF BoardInv, TypeOK, Reading, Ranked, Paged
<1>4. Marked' /\ Announced'
  BY <1>1, <1>2 DEF BoardInv, TypeOK, Marked, Announced, Submitted
<1> QED BY <1>3, <1>4 DEF BoardInv

\* Every step keeps the invariant.
LEMMA BoardStep == BoardInv /\ [Next]_vars => BoardInv'
<1> SUFFICES ASSUME BoardInv, [Next]_vars PROVE BoardInv'
  OBVIOUS
<1>1. CASE UNCHANGED vars
  BY <1>1 DEF vars, BoardInv, TypeOK, Reading, Ranked, Paged, Marked, Announced, Submitted
<1> QED BY <1>1, SubmitInv, LookupInv, WriteInv, ReadRankInv, ReadScoreInv, PublishInv, PageInv,
           FailInv DEF Next, Step

-----------------------------------------------------------------------------
\* SubmitScore, Rank and Page, whose answers are put together from two reads: the
\* score is one the player had since the request wrote or began, the rank is a real
\* one, and no row lies beyond the total, however requests interleave.
THEOREM FreshAnswers == Spec => []AnswersAreFresh
<1>1. BoardInv => AnswersAreFresh
  BY DEF BoardInv, Ranked, Paged, AnswersAreFresh
<1> QED BY <1>1, BoardStart, BoardStep, PTL DEF Spec

\* SubmitScore reads its score back and announces it: when all requests have been
\* answered and no command failed, every player's final score is in the feed.
THEOREM LastScoreAnnounced == Spec => []FinalScoreAnnounced
<1>1. BoardInv => FinalScoreAnnounced
  BY DEF BoardInv, TypeOK, Announced, Submitted, FinalScoreAnnounced
<1> QED BY <1>1, BoardStart, BoardStep, PTL DEF Spec
=============================================================================
