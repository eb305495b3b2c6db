---------------------------- MODULE Leaderboard -----------------------------
(***************************************************************************)
(* The global leaderboard (internal/leaderboard): one Redis sorted set,    *)
(* and the requests that use it.  Each Redis command is atomic, a request  *)
(* is a sequence of them: a submission writes the score, then reads the    *)
(* rank, then the score, and announces what it read; a page reads a range  *)
(* and then the number of members; a rank lookup reads rank, then score.   *)
(* Any command may fail, which ends the request with an error and undoes   *)
(* nothing.                                                                *)
(***************************************************************************)
EXTENDS Integers, FiniteSets

CONSTANTS
  NPlayers,   \* players 1..NPlayers, in the order Redis breaks ties by
  Calls,      \* requests, each made at most once
  Amounts,    \* scores and increments submitted
  Offsets,    \* offsets of pages
  Limits,     \* limits of pages
  MaxFaults   \* bound on failed commands

ASSUME LeaderboardAssumption ==
  /\ NPlayers \in Nat \ {0} /\ MaxFaults \in Nat
  /\ Amounts \subseteq Int \ {0}      \* binding "required" refuses 0
  /\ Offsets \subseteq Nat /\ Limits \subseteq Nat \ {0}

VARIABLES
  members,   \* players in the sorted set
  score,     \* score[p]: the score of p, 0 while p is not a member
  pc,        \* pc[c]: how far request c has come
  who,       \* who[c]: the player it is about
  submits,   \* submits[c]: it is a submission, so announces its entry
  rank,      \* rank[c]: the rank it read
  entry,     \* entry[c]: the score it read
  seen,      \* seen[c]: scores of who[c] since c began or wrote
  last,      \* last[c]: last rank on its page
  total,     \* total[c]: members its page reports
  feed,      \* LeaderboardUpdated events: player and score
  faults     \* failed commands so far

boardVars == <<members, score>>
callVars == <<who, submits, rank, entry, seen>>
pageVars == <<last, total>>
vars == <<members, score, pc, who, submits, rank, entry, seen, last, total, feed, faults>>

Players == 1..NPlayers

TypeOK ==
  /\ members \subseteq Players
  /\ score \in [Players -> Int]
  /\ pc \in [Calls -> {"new", "write", "rank", "score", "publish", "total", "done", "error"}]
  /\ who \in [Calls -> Players]
  /\ submits \in [Calls -> BOOLEAN]
  /\ rank \in [Calls -> 0..NPlayers]
  /\ entry \in [Calls -> Int]
  /\ seen \in [Calls -> SUBSET Int]
  /\ last \in [Calls -> 0..NPlayers] /\ total \in [Calls -> 0..NPlayers]
  /\ feed \subseteq Players \X Int
  /\ faults \in 0..MaxFaults

Init ==
  /\ members = {} /\ score = [p \in Players |-> 0]
  /\ pc = [c \in Calls |-> "new"]
  /\ who = [c \in Calls |-> 1] /\ submits = [c \in Calls |-> FALSE]
  /\ rank = [c \in Calls |-> 0] /\ entry = [c \in Calls |-> 0]
  /\ seen = [c \in Calls |-> {}]
  /\ last = [c \in Calls |-> 0] /\ total = [c \in Calls |-> 0]
  /\ feed = {} /\ faults = 0

Goto(c, label) == pc' = [pc EXCEPT ![c] = label]

\* ZREVRANK counts from the highest score down, ties from the last member up.
Ahead(p) ==
  {q \in members : score[q] > score[p] \/ (score[q] = score[p] /\ q > p)}

\* Request c sets its player's score to x; from here c may read it, or later ones.
Store(c, x) ==
  /\ members' = members \cup {who[c]}
  /\ score' = [score EXCEPT ![who[c]] = x]
  /\ seen' = [d \in Calls |-> IF d = c THEN {x}
                              ELSE IF who[d] = who[c] THEN seen[d] \cup {x}
                              ELSE seen[d]]

-----------------------------------------------------------------------------
(* Submissions and lookups *)

\* submitScore reaches SubmitScore.
Submit(c, p) ==
  /\ pc[c] = "new"
  /\ who' = [who EXCEPT ![c] = p] /\ submits' = [submits EXCEPT ![c] = TRUE]
  /\ Goto(c, "write")
  /\ UNCHANGED <<boardVars, rank, entry, seen, pageVars, feed, faults>>

\* A submission that answers with what it read before its own write.
Write_AfterRead(c, x, increment) ==
  /\ pc[c] = "write"
  /\ Store(c, IF increment THEN score[who[c]] + x ELSE x)
  /\ rank' = [rank EXCEPT ![c] = Cardinality(Ahead(who[c])) + 1]
  /\ entry' = [entry EXCEPT ![c] = score[who[c]]]
  /\ Goto(c, "publish")
  /\ UNCHANGED <<who, submits, pageVars, feed, faults>>

\* SetScore (ZADD) or IncrScore (ZINCRBY).
Write(c, x, increment) ==
  /\ pc[c] = "write"
  /\ Store(c, IF increment THEN score[who[c]] + x ELSE x)
  /\ Goto(c, "rank")
  /\ UNCHANGED <<who, submits, rank, entry, pageVars, feed, faults>>

\* The rank handler reaches Rank.
Lookup(c, p) ==
  /\ pc[c] = "new"
  /\ who' = [who EXCEPT ![c] = p]
  /\ seen' = [seen EXCEPT ![c] = {score[p]}]
  /\ Goto(c, "rank")
  /\ UNCHANGED <<boardVars, submits, rank, entry, pageVars, feed, faults>>

\* Rank, ZREVRANK: no answer for a player who is not a member.
ReadRank(c) ==
  /\ pc[c] = "rank"
  /\ IF who[c] \in members
     THEN rank' = [rank EXCEPT ![c] = Cardinality(Ahead(who[c])) + 1] /\ Goto(c, "score")
     ELSE UNCHANGED rank /\ Goto(c, "error")
  /\ UNCHANGED <<boardVars, who, submits, entry, seen, pageVars, feed, faults>>

\* Rank, ZSCORE.
ReadScore(c) ==
  /\ pc[c] = "score"
  /\ entry' = [entry EXCEPT ![c] = score[who[c]]]
  /\ Goto(c, IF submits[c] THEN "publish" ELSE "done")
  /\ UNCHANGED <<boardVars, who, submits, rank, seen, pageVars, feed, faults>>

\* SubmitScore announces the entry; a failure is logged and the answer is sent.
Publish(c) ==
  /\ pc[c] = "publish"
  /\ \/ feed' = feed \cup {<<who[c], entry[c]>>} /\ UNCHANGED faults
     \/ faults < MaxFaults /\ faults' = faults + 1 /\ UNCHANGED feed
  /\ Goto(c, "done")
  /\ UNCHANGED <<boardVars, callVars, pageVars>>

-----------------------------------------------------------------------------
(* Pages *)

Least(i, j) == IF i < j THEN i ELSE j

\* rangeDesc: the ranks offset+1..offset+limit that exist; 0 for an empty page.
LastRank(offset, limit) ==
  IF Cardinality(members) <= offset THEN 0
  ELSE Least(offset + limit, Cardinality(members))

\* Page, ZREVRANGE (Top is the first page).
PageRange(c, offset, limit) ==
  /\ pc[c] = "new"
  /\ last' = [last EXCEPT ![c] = LastRank(offset, limit)]
  /\ Goto(c, "total")
  /\ UNCHANGED <<boardVars, callVars, total, feed, faults>>

\* A page that reuses the total an earlier page was answered with.
PageTotal_Cached(c) ==
  /\ pc[c] = "total"
  /\ \E n \in {Cardinality(members)} \cup {total[d] : d \in {k \in Calls : pc[k] = "done" /\ rank[k] = 0}} :
       total' = [total EXCEPT ![c] = n]
  /\ Goto(c, "done")
  /\ UNCHANGED <<boardVars, callVars, last, feed, faults>>

\* Page, ZCARD.
PageTotal(c) ==
  /\ pc[c] = "total"
  /\ total' = [total EXCEPT ![c] = Cardinality(members)]
  /\ Goto(c, "done")
  /\ UNCHANGED <<boardVars, callVars, last, feed, faults>>

-----------------------------------------------------------------------------
\* A command fails: the request ends with an error, what it wrote stays.
Fail(c) ==
  /\ pc[c] \in {"write", "rank", "score", "total"}
  /\ faults < MaxFaults /\ faults' = faults + 1
  /\ Goto(c, "error")
  /\ UNCHANGED <<boardVars, callVars, pageVars, feed>>

Step(c) ==
  \/ \E x \in Amounts, increment \in BOOLEAN : Write(c, x, increment)
  \/ ReadRank(c) \/ ReadScore(c) \/ Publish(c) \/ PageTotal(c) \/ Fail(c)

Next ==
  \E c \in Calls :
    \/ \E p \in Players : Submit(c, p) \/ Lookup(c, p)
    \/ \E offset \in Offsets, limit \in Limits : PageRange(c, offset, limit)
    \/ Step(c)

Spec == Init /\ [][Next]_vars

-----------------------------------------------------------------------------
(* What the leaderboard promises *)

\* SubmitScore, Rank: the score in an answer is one the player had since the
\* request wrote its own (for a lookup: since it began), never an older one,
\* and its rank is a real one, though two commands read them.  No row of a page
\* lies beyond the total sent with it, however many players enter the board
\* between the two reads.  Every variable keeps its type.
AnswersAreFresh ==
  /\ TypeOK
  /\ \A c \in Calls :
       pc[c] \in {"publish", "done"} /\ rank[c] # 0 =>
         entry[c] \in seen[c] /\ rank[c] \in 1..Cardinality(members)
  /\ \A c \in Calls : pc[c] = "done" => last[c] <= total[c]

\* SubmitScore, api.md's "any score change": once every request has been
\* answered and no command failed, the score each player ended with has been
\* announced, in whatever order the submissions' reads and events came.
FinalScoreAnnounced ==
  faults = 0 /\ (\A c \in Calls : pc[c] \in {"new", "done", "error"}) =>
    \A p \in members : <<p, score[p]>> \in feed
=============================================================================
