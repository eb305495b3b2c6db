---------------------------- MODULE Matchmaking -----------------------------
(***************************************************************************)
(* Matchmaking: the API calls that join and leave the queue                *)
(* (internal/matchmaking/queue.go, handler.go) and the match loop that     *)
(* evicts, snapshots, pairs, stores rooms, dequeues and publishes          *)
(* MatchFound (service.go).  All of them work on the same Redis keys with  *)
(* non-transactional pipelines, so the commands of one interleave with the *)
(* commands of another.                                                    *)
(*                                                                         *)
(* A ticket is named by its position in the history of ZADDs, so that two  *)
(* joins of one player can be told apart.  Every error of Redis or of the  *)
(* event bus, a crash and a shutdown take one unit of MaxFaults.           *)
(***************************************************************************)
EXTENDS Pairing, SequencesExt

CONSTANTS
  NumPlayers,  \* players, named in the lexicographic order of their ids
  Ranks,       \* ranks they may join with
  Window,      \* Config.RankWindow
  BatchSize,   \* Config.BatchSize
  Requests,    \* HTTP requests that can be in progress at once
  MaxJoins,    \* bound on POST /queue
  MaxFaults    \* bound on faults

Players == 1..NumPlayers

ASSUME MatchmakingAssumption ==
  /\ NumPlayers \in Nat /\ Window \in Nat /\ MaxJoins \in Nat /\ MaxFaults \in Nat
  /\ BatchSize \in Nat \ {0}
  /\ \A r \in Ranks : r \in Nat /\ 1 <= r /\ r <= 100000

VARIABLES
  joins,     \* joins[t]: player and rank of ticket t
  zset,      \* zset[p]: p's ticket in matchmaking:queue, 0 if p is not a member
  joined,    \* joined[p]: p's entry in matchmaking:queue:joined, by its age
  calls,     \* calls[c]: what request c has left to do: the second half of a join
             \* ("hset") or of a leave ("hdel")
  pc,        \* where the match tick stands
  batch,     \* players the tick is evicting
  pairs,     \* pairs of tickets the tick still has to deal with
  rooms,     \* rooms stored in Redis
  told,      \* rooms MatchFound was published for
  stopping,  \* the loop's context is cancelled (SIGTERM)
  waiting,   \* players who joined and neither left, were evicted nor were told
  faults     \* faults so far

queueVars == <<joins, zset, joined, waiting>>
tickVars == <<pc, batch, pairs>>
roomVars == <<rooms, told>>
vars == <<joins, zset, joined, calls, pc, batch, pairs, rooms, told, stopping, waiting, faults>>

Steps == {"idle", "evictZ", "evictH", "snapshot", "save", "dequeueZ", "dequeueH", "publish"}
NoCall == [op |-> "none", player |-> 0]
HSetOf(p) == [op |-> "hset", player |-> p]
HDelOf(p) == [op |-> "hdel", player |-> p]
NoCalls == [c \in Requests |-> NoCall]
Ticket == 1..MaxJoins

TypeOK ==
  /\ joins \in Seq([player : Players, rank : Ranks]) /\ Len(joins) <= MaxJoins
  /\ zset \in [Players -> 0..Len(joins)]
  /\ joined \in [Players -> {"none", "fresh", "stale"}]
  /\ calls \in [Requests -> {NoCall} \cup {HSetOf(p) : p \in Players} \cup {HDelOf(p) : p \in Players}]
  /\ pc \in Steps
  /\ batch \in SUBSET Players
  /\ pairs \in Seq(Ticket \X Ticket)
  /\ rooms \in SUBSET (Ticket \X Ticket)
  /\ told \in SUBSET (Ticket \X Ticket)
  /\ stopping \in BOOLEAN
  /\ waiting \in SUBSET Players
  /\ faults \in 0..MaxFaults

Init ==
  /\ joins = <<>>
  /\ zset = [p \in Players |-> 0]
  /\ joined = [p \in Players |-> "none"]
  /\ calls = NoCalls
  /\ pc = "idle" /\ batch = {} /\ pairs = <<>>
  /\ rooms = {} /\ told = {}
  /\ stopping = FALSE
  /\ waiting = {}
  /\ faults = 0

Fault == faults < MaxFaults /\ faults' = faults + 1

Queued == {p \in Players : zset[p] # 0}

\* ZREM and HDEL of several members.
ZRem(S) == zset' = [p \in Players |-> IF p \in S THEN 0 ELSE zset[p]]
HDel(S) == joined' = [p \in Players |-> IF p \in S THEN "none" ELSE joined[p]]

-----------------------------------------------------------------------------
(* API calls *)

Begin(c, x) == calls[c] = NoCall /\ calls' = [calls EXCEPT ![c] = x]
End(c, x) == calls[c] = x /\ calls' = [calls EXCEPT ![c] = NoCall]

\* Enqueue, ZADD: a re-join takes the player's old ticket's place.  The handler
\* has rejected rank 0 ("required") and everything beyond 100000.
Join(c, p, r) ==
  /\ Begin(c, HSetOf(p))
  /\ Len(joins) < MaxJoins
  /\ joins' = Append(joins, [player |-> p, rank |-> r])
  /\ zset' = [zset EXCEPT ![p] = Len(joins) + 1]
  /\ waiting' = waiting \cup {p}
  /\ UNCHANGED <<joined, tickVars, roomVars, stopping, faults>>

\* Enqueue, HSET.
FinishJoin(c, p) ==
  /\ End(c, HSetOf(p))
  /\ joined' = [joined EXCEPT ![p] = "fresh"]
  /\ UNCHANGED <<joins, zset, tickVars, roomVars, stopping, waiting, faults>>

\* Remove, ZREM; the HDEL follows also when the player was not queued.
Leave(c, p) ==
  /\ Begin(c, HDelOf(p))
  /\ ZRem({p})
  /\ waiting' = waiting \ {p}
  /\ UNCHANGED <<joins, joined, tickVars, roomVars, stopping, faults>>

\* A Remove that deletes the ZSET member last.
FinishLeave_RemovesAgain(c, p) ==
  /\ End(c, HDelOf(p))
  /\ HDel({p})
  /\ ZRem({p})
  /\ UNCHANGED <<joins, tickVars, roomVars, stopping, waiting, faults>>

\* Remove, HDEL.
FinishLeave(c, p) ==
  /\ End(c, HDelOf(p))
  /\ HDel({p})
  /\ UNCHANGED <<joins, zset, tickVars, roomVars, stopping, waiting, faults>>

\* The second command of a call fails; Remove does not even look.
BreakCall(c) ==
  /\ calls[c] # NoCall
  /\ End(c, calls[c])
  /\ Fault
  /\ UNCHANGED <<queueVars, tickVars, roomVars, stopping>>

\* A join time passes MaxQueueAge.
Age(p) ==
  /\ joined[p] = "fresh"
  /\ joined' = [joined EXCEPT ![p] = "stale"]
  /\ UNCHANGED <<joins, zset, calls, tickVars, roomVars, stopping, waiting, faults>>

-----------------------------------------------------------------------------
(* One match tick *)

PlayersOf(ps) == UNION {{joins[ps[i][1]].player, joins[ps[i][2]].player} : i \in 1..Len(ps)}

\* EvictStale, HGETALL: who is older than MaxQueueAge.
EvictRead ==
  LET stale == {p \in Players : joined[p] = "stale"} IN
  /\ pc = "idle"
  /\ pc' = IF stale = {} THEN "snapshot" ELSE "evictZ"
  /\ batch' = stale
  /\ UNCHANGED <<queueVars, calls, pairs, roomVars, stopping, faults>>

\* EvictStale, ZREM.
EvictZRem ==
  /\ pc = "evictZ"
  /\ ZRem(batch)
  /\ pc' = "evictH"
  /\ waiting' = waiting \ batch
  /\ UNCHANGED <<joins, joined, calls, batch, pairs, roomVars, stopping, faults>>

\* EvictStale, HDEL.
EvictHDel ==
  /\ pc = "evictH"
  /\ HDel(batch)
  /\ pc' = "snapshot" /\ batch' = {}
  /\ UNCHANGED <<joins, zset, calls, pairs, roomVars, stopping, waiting, faults>>

\* An eviction that fails half way is logged and the tick goes on.
EvictError ==
  /\ pc \in {"idle", "evictZ", "evictH"}
  /\ Fault
  /\ pc' = "snapshot" /\ batch' = {}
  /\ UNCHANGED <<queueVars, calls, pairs, roomVars, stopping>>

\* The sorted set's order: by rank, ties by player id.
Before(p, q) ==
  LET a == joins[zset[p]].rank
      b == joins[zset[q]].rank
  IN a < b \/ (a = b /\ p < q)

Order ==
  CHOOSE s \in SetToSeqs(Queued) : \A i, j \in DOMAIN s : i < j => Before(s[i], s[j])

\* The first n members of the queue, as tickets.
FirstTickets(n) ==
  [i \in 1..Min({n, Len(Order)}) |->
     [ticket |-> zset[Order[i]], rank |-> joins[zset[Order[i]]].rank]]

\* A range that ends one short.
Snapshot_ShortByOne == FirstTickets(BatchSize - 1)

\* ZRANGE 0 BatchSize-1.
Snapshot == FirstTickets(BatchSize)

\* The snapshot fails: the tick ends.
SnapshotError ==
  /\ pc = "snapshot"
  /\ Fault
  /\ pc' = "idle"
  /\ UNCHANGED <<queueVars, calls, batch, pairs, roomVars, stopping>>

\* MatchOnce between the snapshot and createRooms, all of it local to the loop.
PairUp ==
  LET found == Pair(Snapshot, Window) IN
  /\ pc = "snapshot"
  /\ pc' = IF found = <<>> THEN "idle" ELSE "save"
  /\ pairs' = [i \in DOMAIN found |-> <<found[i][1].ticket, found[i][2].ticket>>]
  /\ UNCHANGED <<queueVars, calls, batch, roomVars, stopping, faults>>

\* createRooms without its first step.
SaveRooms_Skipped ==
  /\ pc = "save"
  /\ pc' = "dequeueZ"
  /\ UNCHANGED <<queueVars, calls, batch, pairs, roomVars, stopping, faults>>

\* createRooms, SaveMany.
SaveRooms ==
  /\ pc = "save"
  /\ rooms' = rooms \cup Range(pairs)
  /\ pc' = "dequeueZ"
  /\ UNCHANGED <<queueVars, calls, batch, pairs, told, stopping, faults>>

\* A dequeue that takes the first player of each pair only.
DequeueZRem_FirstOnly ==
  /\ pc = "dequeueZ"
  /\ ZRem({joins[pairs[i][1]].player : i \in 1..Len(pairs)})
  /\ pc' = "dequeueH"
  /\ UNCHANGED <<joins, joined, calls, batch, pairs, roomVars, stopping, waiting, faults>>

\* createRooms, ZREM of RemoveBatch: by player, whatever ticket is in the queue.
DequeueZRem ==
  /\ pc = "dequeueZ"
  /\ ZRem(PlayersOf(pairs))
  /\ pc' = "dequeueH"
  /\ UNCHANGED <<joins, joined, calls, batch, pairs, roomVars, stopping, waiting, faults>>

\* createRooms, HDEL of RemoveBatch.
DequeueHDel ==
  /\ pc = "dequeueH"
  /\ HDel(PlayersOf(pairs))
  /\ pc' = "publish"
  /\ UNCHANGED <<joins, zset, calls, batch, pairs, roomVars, stopping, waiting, faults>>

\* createRooms, one turn of the publish loop.
Publish ==
  LET ps == Tail(pairs) IN
  /\ pc = "publish"
  /\ told' = told \cup {Head(pairs)}
  /\ waiting' = waiting \ PlayersOf(<<Head(pairs)>>)
  /\ pairs' = ps
  /\ pc' = IF ps = <<>> THEN "idle" ELSE "publish"
  /\ UNCHANGED <<joins, zset, joined, calls, batch, rooms, stopping, faults>>

\* A publish that fails is logged and the loop goes on; the event is gone.
PublishError ==
  LET ps == Tail(pairs) IN
  /\ pc = "publish"
  /\ Fault
  /\ pairs' = ps
  /\ pc' = IF ps = <<>> THEN "idle" ELSE "publish"
  /\ UNCHANGED <<queueVars, calls, batch, roomVars, stopping>>

\* SaveMany fails after storing some of the rooms: the tick ends.
SaveError ==
  /\ pc = "save"
  /\ Fault
  /\ \E n \in 0..Len(pairs) : rooms' = rooms \cup Range(SubSeq(pairs, 1, n))
  /\ pc' = "idle" /\ pairs' = <<>>
  /\ UNCHANGED <<queueVars, calls, batch, told, stopping>>

\* RemoveBatch fails before or after its ZREM: createRooms returns unpublished.
DequeueError ==
  /\ pc \in {"dequeueZ", "dequeueH"}
  /\ Fault
  /\ pc' = "idle" /\ pairs' = <<>>
  /\ UNCHANGED <<queueVars, calls, batch, roomVars, stopping>>

-----------------------------------------------------------------------------
(* Life of the process; one replica, restarted after it exits (Recreate) *)

\* SIGTERM; a running tick keeps its own context.
Signal ==
  /\ ~stopping
  /\ Fault
  /\ stopping' = TRUE
  /\ UNCHANGED <<queueVars, calls, tickVars, roomVars>>

\* RunMatchLoop returns between ticks, after the HTTP server has drained.
Return ==
  /\ stopping /\ pc = "idle"
  /\ calls = NoCalls
  /\ stopping' = FALSE
  /\ UNCHANGED <<queueVars, calls, tickVars, roomVars, faults>>

\* workers.Wait gives up on a tick after 5 s; tickTimeout allows it 10 s.
ExitAtTimeout ==
  /\ stopping /\ pc # "idle"
  /\ calls = NoCalls
  /\ stopping' = FALSE
  /\ pc' = "idle" /\ batch' = {} /\ pairs' = <<>>
  /\ UNCHANGED <<queueVars, calls, roomVars, faults>>

Crash ==
  /\ Fault
  /\ calls' = NoCalls
  /\ stopping' = FALSE
  /\ pc' = "idle" /\ batch' = {} /\ pairs' = <<>>
  /\ UNCHANGED <<queueVars, roomVars>>

-----------------------------------------------------------------------------
Tick ==
  EvictRead \/ EvictZRem \/ EvictHDel \/ PairUp \/ SaveRooms \/ DequeueZRem \/ DequeueHDel \/ Publish

Failure ==
  EvictError \/ SnapshotError \/ SaveError \/ DequeueError \/ PublishError \/ Signal \/ Crash

Next ==
  \/ Tick
  \/ Failure
  \/ Return
  \/ ExitAtTimeout
  \/ \E c \in Requests :
       \/ \E p \in Players :
            \/ \E r \in Ranks : Join(c, p, r)
            \/ FinishJoin(c, p) \/ Leave(c, p) \/ FinishLeave(c, p)
       \/ BreakCall(c)
  \/ \E p \in Players : Age(p)

Spec == Init /\ [][Next]_vars

\* The loop keeps ticking.
Fairness == WF_vars(Tick)

FairSpec == Spec /\ Fairness

-----------------------------------------------------------------------------
(* What matchmaking promises *)

\* Every published room was stored first, joins two different players, and their
\* ranks are within the window even if they re-joined in the meantime.
ToldRoomsSound ==
  \A x \in told :
    LET a == joins[x[1]]
        b == joins[x[2]]
    IN x \in rooms /\ a.player # b.player /\ b.rank - a.rank \in 0..Window

\* One ticket leads to at most one MatchFound, whatever fails or restarts, and a
\* ticket that led to one is out of the queue (createRooms dequeues, then tells).
\* Every variable keeps its type.
MatchedOnce ==
  /\ TypeOK
  /\ \A x \in told :
       /\ \A y \in told \ {x} : {x[1], x[2]} \cap {y[1], y[2]} = {}
       /\ \A p \in Players : zset[p] \notin {x[1], x[2]}

\* While nothing has failed, a player who joined is in the queue or about to be
\* told, however the joins and leaves of two requests mix with a tick.  And a
\* player who joined once is not evicted before MaxQueueAge: EvictStale may act
\* on a join time it read too early, but only against one who has re-joined.
NobodyForgotten ==
  /\ faults = 0 =>
       \A p \in waiting :
         zset[p] # 0 \/ (pc \in {"dequeueH", "publish"} /\ p \in PlayersOf(pairs))
  /\ pc = "evictZ" =>
       \A p \in batch \cap Queued :
         joined[p] = "fresh" =>
           \E t \in 1..(zset[p] - 1) : joins[t].player = p

Compatible(p, q) ==
  /\ zset[p] # 0 /\ zset[q] # 0
  /\ joins[zset[q]].rank - joins[zset[p]].rank \in (-Window)..Window

\* Two players within the window do not both stay in the queue for ever.
CompatibleMatched ==
  \A p, q \in Players : p < q => (Compatible(p, q) ~> ~Compatible(p, q))

-----------------------------------------------------------------------------
(* Sentences of the documentation that the code does not keep *)

\* queue.go: "EvictStale removes players whose tickets are older than maxAge":
\* no eviction takes a ticket whose join time is recent.
EvictsOnlyStale ==
  [][EvictZRem =>
       \A p \in batch : zset[p] # 0 => joined[p] # "fresh"]_vars

\* design-document.md: "Stale eviction means a crashed client doesn't poison the
\* queue forever": a ticket has a join time to be evicted by, or is about to.
EveryTicketExpires ==
  \A p \in Queued : joined[p] # "none" \/ \E c \in Requests : calls[c] = HSetOf(p)

\* queue.go: "a player left half-removed is simply re-paired on the next tick":
\* when RemoveBatch fails, the players it was called for are still queued.
HalfRemovedIsRepaired ==
  [][DequeueError =>
       \A p \in PlayersOf(pairs) \cap waiting : zset'[p] # 0]_vars

\* service_test.go: a shutdown "must not cut the tick between players dequeued and
\* MatchFound published".
ShutdownFinishesTick ==
  [][stopping /\ ~stopping' => pc \notin {"dequeueH", "publish"}]_vars
=============================================================================
