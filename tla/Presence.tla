------------------------------ MODULE Presence ------------------------------
(***************************************************************************)
(* Presence of one player (keys of different players are independent):    *)
(* the Lua scripts on presence:{id} (internal/presence/repository.go), the *)
(* service around them (service.go), and what drives them: the WebSocket   *)
(* replicas, whose hub reports every connection by a goroutine of its own  *)
(* and beats once per interval for the players it holds                    *)
(* (internal/wsgateway/hub.go), and the callers of PUT /presence/state.    *)
(*                                                                         *)
(* Time is counted in heartbeat intervals (15 s); a key written and not    *)
(* refreshed expires in the course of the TTL-th interval after (45 s).    *)
(* The answers of the notifier (3 s) and of a beat (5 s) are due within    *)
(* one interval.  Lost calls and replies and crashes take MaxFaults.       *)
(***************************************************************************)
EXTENDS Integers, FiniteSets

CONSTANTS
  Replicas,   \* WebSocket replicas
  Sockets,    \* connections of the player, each opened at most once
  Home,       \* Home[c]: the replica c lands on
  TTL,        \* key lifetime in heartbeat intervals
  Callers,    \* concurrent calls of PUT /presence/state and POST heartbeat
  Targets,    \* states they ask for
  MaxCalls,   \* bound on such calls
  MaxFaults   \* bound on faults

States == {"OFFLINE", "ONLINE", "IN_QUEUE", "IN_MATCH", "AWAY"}
NeedsConnection == {"IN_QUEUE", "IN_MATCH"}

ASSUME PresenceAssumption ==
  /\ IsFiniteSet(Sockets)
  /\ Home \in [Sockets -> Replicas]
  /\ TTL \in Nat \ {0} /\ MaxCalls \in Nat /\ MaxFaults \in Nat
  /\ Targets \subseteq States

VARIABLES
  key,     \* the record; raw is FALSE when the key is missing
  age,     \* intervals since the key was last written or refreshed
  conn,    \* conn[c]: the connection as the hub sees it
  calls,   \* connect and disconnect calls on their way to the service
  beat,    \* beat[w]: the bulk heartbeat of w in this interval
  target,  \* target[a]: state a caller was allowed to set and has yet to
  asked,   \* calls of the HTTP API so far
  online,  \* the gauge of online players, summed over presence replicas
  calm,    \* no call lost or overtaken, no key expired or re-created by a beat
  faults   \* faults so far

presenceVars == <<key, age, conn, calls, beat, target, asked, online, calm, faults>>

Ops == {"connect", "disconnect"}
Missing == [raw |-> FALSE, state |-> "OFFLINE", count |-> 0]

PresenceTypeOK ==
  /\ key \in [raw : BOOLEAN, state : States, count : Nat]
  /\ ~key.raw => key = Missing
  /\ age \in 0..TTL
  /\ conn \in [Sockets -> {"new", "open", "closed"}]
  /\ calls \in SUBSET (Sockets \X Ops)
  /\ beat \in [Replicas -> {"none", "due", "expire", "heal"}]
  /\ target \in [Callers -> States \cup {"none"}]
  /\ asked \in 0..MaxCalls
  /\ online \in Int
  /\ calm \in BOOLEAN
  /\ faults \in 0..MaxFaults

PresenceInit ==
  /\ key = Missing /\ age = 0
  /\ conn = [c \in Sockets |-> "new"]
  /\ calls = {}
  /\ beat = [w \in Replicas |-> "none"]
  /\ target = [a \in Callers |-> "none"]
  /\ asked = 0 /\ online = 0 /\ calm = TRUE /\ faults = 0

Open(w) == {c \in Sockets : Home[c] = w /\ conn[c] = "open"}

Fault == faults < MaxFaults /\ faults' = faults + 1

-----------------------------------------------------------------------------
(* The Lua scripts: the record after the call, from the record before it *)

Written(state, count) == [raw |-> TRUE, state |-> state, count |-> count]

\* A script that sets the count instead of adding to it.
AfterConnect_SetsOne(prev) ==
  Written(IF prev.state = "OFFLINE" THEN "ONLINE" ELSE prev.state, 1)

AfterConnect(prev) ==
  Written(IF prev.state = "OFFLINE" THEN "ONLINE" ELSE prev.state, prev.count + 1)

AfterDisconnect(prev) ==
  IF prev.count <= 1 THEN Missing ELSE Written(prev.state, prev.count - 1)

AfterHeartbeat(prev) ==
  IF prev.raw THEN prev ELSE Written("ONLINE", 1)

\* A script that trusts the check made before it.
AfterSetState_Trusting(prev, to) == Written(to, prev.count)

AfterSetState(prev, to) ==
  IF ~prev.raw /\ to \in NeedsConnection THEN prev ELSE Written(to, prev.count)

CanTransition(from, to) == ~(from = "OFFLINE" /\ to \in NeedsConnection)

\* A publishTransition that looks at the new state only.
Gauge_NewStateOnly(prev, cur) == IF cur.state = "OFFLINE" THEN -1 ELSE 1

\* publishTransition: what a transition adds to the gauge.
Gauge(prev, cur) ==
  CASE prev.state = "OFFLINE" /\ cur.state # "OFFLINE" -> 1
    [] prev.state # "OFFLINE" /\ cur.state = "OFFLINE" -> -1
    [] OTHER -> 0

\* The metrics and event of a transition, unless the service never sees the reply.
Report(prev, cur, replied) ==
  \/ replied /\ online' = online + Gauge(prev, cur) /\ UNCHANGED faults
  \/ ~replied /\ Fault /\ UNCHANGED online

\* A mutation of the record and what follows it.
Mutate(cur, replied) ==
  /\ key' = cur /\ age' = 0
  /\ Report(key, cur, replied)

-----------------------------------------------------------------------------
(* Connections *)

\* register: in the maps at once, the notification on its way.
HubRegister(c) ==
  /\ conn[c] = "new"
  /\ conn' = [conn EXCEPT ![c] = "open"]
  /\ calls' = calls \cup {<<c, "connect">>}
  /\ UNCHANGED <<key, age, beat, target, asked, online, calm, faults>>

\* unregister.
HubUnregister(c) ==
  /\ conn[c] = "open"
  /\ conn' = [conn EXCEPT ![c] = "closed"]
  /\ calls' = calls \cup {<<c, "disconnect">>}
  /\ UNCHANGED <<key, age, beat, target, asked, online, calm, faults>>

\* The two goroutines of one connection are not ordered.
Overtakes(c) == <<c, "connect">> \in calls

Connect(c, replied) ==
  /\ <<c, "connect">> \in calls
  /\ Mutate(AfterConnect(key), replied)
  /\ calls' = calls \ {<<c, "connect">>}
  /\ calm' = (calm /\ replied)
  /\ UNCHANGED <<conn, beat, target, asked>>

Disconnect(c, replied) ==
  /\ <<c, "disconnect">> \in calls
  /\ Mutate(AfterDisconnect(key), replied)
  /\ calls' = calls \ {<<c, "disconnect">>}
  /\ calm' = (calm /\ replied /\ ~Overtakes(c))
  /\ UNCHANGED <<conn, beat, target, asked>>

\* A notification fails before the script runs: logged, never repeated.
LoseCall(call) ==
  /\ call \in calls
  /\ Fault
  /\ calls' = calls \ {call}
  /\ calm' = FALSE
  /\ UNCHANGED <<key, age, conn, beat, target, asked, online>>

\* A WebSocket replica dies with its connections, calls and beat; its ticker
\* starts anew with the next interval.
Crash(w) ==
  /\ Fault
  /\ conn' = [c \in Sockets |-> IF c \in Open(w) THEN "closed" ELSE conn[c]]
  /\ calls' = {call \in calls : Home[call[1]] # w}
  /\ beat' = [beat EXCEPT ![w] = "none"]
  /\ calm' = FALSE
  /\ UNCHANGED <<key, age, target, asked, online>>

-----------------------------------------------------------------------------
(* Heartbeats and expiry *)

\* An interval passes; every replica's ticker will fire once in the new one.
Interval ==
  /\ \A w \in Replicas : beat[w] = "none"
  /\ calls = {}
  /\ ~(key.raw /\ age = TTL)
  /\ age' = IF key.raw THEN age + 1 ELSE 0
  /\ beat' = [w \in Replicas |-> "due"]
  /\ UNCHANGED <<key, conn, calls, target, asked, online, calm, faults>>

\* A hub that keeps beating for players it has seen.
Beat_NeverForgets(w) ==
  /\ beat[w] = "due"
  /\ beat' = [beat EXCEPT ![w] = IF \A c \in Sockets : conn[c] = "new" THEN "none" ELSE "expire"]
  /\ UNCHANGED <<key, age, conn, calls, target, asked, online, calm, faults>>

\* RunHeartbeat: connectedPlayers is read once, the call is made after.
Beat(w) ==
  /\ beat[w] = "due"
  /\ beat' = [beat EXCEPT ![w] = IF Open(w) = {} THEN "none" ELSE "expire"]
  /\ UNCHANGED <<key, age, conn, calls, target, asked, online, calm, faults>>

\* A first pass that only looks for the key.
Refresh_NoExpire(w) ==
  /\ beat[w] = "expire"
  /\ beat' = [beat EXCEPT ![w] = IF key.raw THEN "none" ELSE "heal"]
  /\ UNCHANGED <<key, age, conn, calls, target, asked, online, calm, faults>>

\* A bulk heartbeat without a second pass.
Refresh_NoSecondPass(w) ==
  /\ beat[w] = "expire"
  /\ age' = 0
  /\ beat' = [beat EXCEPT ![w] = "none"]
  /\ UNCHANGED <<key, conn, calls, target, asked, online, calm, faults>>

\* HeartbeatMany, first pass: EXPIRE, which a missing key answers with false.
Refresh(w) ==
  /\ beat[w] = "expire"
  /\ age' = 0
  /\ beat' = [beat EXCEPT ![w] = IF key.raw THEN "none" ELSE "heal"]
  /\ UNCHANGED <<key, conn, calls, target, asked, online, calm, faults>>

\* HeartbeatMany, second pass, after a miss in the first one; the service takes the
\* key for re-created whatever the script found.
Heal(w, replied) ==
  /\ beat[w] = "heal"
  /\ key' = AfterHeartbeat(key) /\ age' = 0
  /\ beat' = [beat EXCEPT ![w] = "none"]
  /\ Report(Missing, Written("ONLINE", 1), replied)
  /\ calm' = FALSE
  /\ UNCHANGED <<conn, calls, target, asked>>

\* A beat that fails before either pass reaches Redis.
LoseBeat(w) ==
  /\ beat[w] \in {"expire", "heal"}
  /\ Fault
  /\ beat' = [beat EXCEPT ![w] = "none"]
  /\ UNCHANGED <<key, age, conn, calls, target, asked, online, calm>>

\* The key's TTL runs out in Redis.
Expire ==
  /\ key.raw /\ age = TTL
  /\ key' = Missing /\ age' = 0
  /\ calm' = FALSE
  /\ UNCHANGED <<conn, calls, beat, target, asked, online, faults>>

-----------------------------------------------------------------------------
(* The HTTP API *)

\* SetState up to the check, on a record read with GET.
SetStateCheck(a, to) ==
  /\ target[a] = "none"
  /\ asked < MaxCalls
  /\ CanTransition(key.state, to)
  /\ target' = [target EXCEPT ![a] = to]
  /\ asked' = asked + 1
  /\ UNCHANGED <<key, age, conn, calls, beat, online, calm, faults>>

\* SetState from the script on; a refused script leaves the TTL alone.
SetStateApply(a, replied) ==
  LET to == target[a]
      refused == ~key.raw /\ to \in NeedsConnection
  IN
  /\ to # "none"
  /\ key' = AfterSetState(key, to)
  /\ age' = IF refused THEN age ELSE 0
  /\ Report(key, key', replied)
  /\ target' = [target EXCEPT ![a] = "none"]
  /\ calm' = (calm /\ replied)
  /\ UNCHANGED <<conn, calls, beat, asked>>

\* POST /presence/heartbeat.
Heartbeat(replied) ==
  /\ asked < MaxCalls
  /\ asked' = asked + 1
  /\ Mutate(AfterHeartbeat(key), replied)
  /\ calm' = (calm /\ key.raw /\ replied)
  /\ UNCHANGED <<conn, calls, beat, target>>

-----------------------------------------------------------------------------
Deliver(c) == \E replied \in BOOLEAN : Connect(c, replied) \/ Disconnect(c, replied)
BeatStep(w) == Beat(w) \/ Refresh(w) \/ \E replied \in BOOLEAN : Heal(w, replied)
Apply(a) == \E replied \in BOOLEAN : SetStateApply(a, replied)

PresenceNext ==
  \/ \E c \in Sockets : HubRegister(c) \/ HubUnregister(c) \/ Deliver(c)
  \/ \E call \in calls : LoseCall(call)
  \/ \E w \in Replicas : BeatStep(w) \/ LoseBeat(w) \/ Crash(w)
  \/ Interval
  \/ Expire
  \/ \E a \in Callers : Apply(a) \/ \E to \in Targets : SetStateCheck(a, to)
  \/ \E replied \in BOOLEAN : Heartbeat(replied)

PresenceSpec == PresenceInit /\ [][PresenceNext]_presenceVars

\* Time passes, keys expire, tickers fire, and calls are carried out or fail.
PresenceFairness ==
  /\ WF_presenceVars(Interval)
  /\ WF_presenceVars(Expire)
  /\ \A w \in Replicas : WF_presenceVars(BeatStep(w))
  /\ \A c \in Sockets : WF_presenceVars(Deliver(c))
  /\ \A a \in Callers : WF_presenceVars(Apply(a))

PresenceFairSpec == PresenceSpec /\ PresenceFairness

-----------------------------------------------------------------------------
(* What presence promises *)

Opened == {c \in Sockets : conn[c] = "open"}

\* Connections whose connect has been carried out and whose disconnect has not.
Counted ==
  {c \in Sockets : conn[c] # "new" /\ <<c, "connect">> \notin calls
                 /\ (conn[c] = "open" \/ <<c, "disconnect">> \in calls)}

\* repository.go: replicas "connecting/disconnecting the same player concurrently
\* can never lose an update": whatever the interleaving of replicas and API calls,
\* the record counts exactly the connections reported to it.
\* Every variable keeps its type; the count is never negative.
NoLostUpdate ==
  PresenceTypeOK /\ (calm => key.count = Cardinality(Counted))

\* While nothing has been lost, the gauge says whether the player is online: each
\* transition is counted by exactly one of the replicas that raced for it.
GaugeExact ==
  calm => online = IF key.state = "OFFLINE" THEN 0 ELSE 1

\* Unless a call was lost before, a key expires under an open connection only
\* after TTL - 1 faults: one missed beat of 15 s does no harm to a key of 45 s.
ExpiryNeedsFaults ==
  [][Expire /\ calm /\ Opened \cap Counted # {} => faults >= TTL - 1]_presenceVars

\* A player who stays connected has a record in the end, though the connect was
\* lost or the key has expired: beats re-create it, ONLINE, and only a SetState
\* that asks for it can make it say OFFLINE.
SelfHeals ==
  Opened # {} ~> (key.state # "OFFLINE" \/ (key.raw /\ asked > 0) \/ Opened = {})

\* A player without connections is offline in the end, though disconnects were
\* lost, replicas died or late beats re-created the key: it expires.
GoesOffline ==
  (\A c \in Sockets : conn[c] = "closed") ~> ~key.raw

\* SetState checks the transition on a record read before the script runs, and
\* the script checks again: a player whose record is gone, by the last close or
\* by expiry in between, is put neither into a queue nor into a match.
QueueNeedsRecord ==
  [][~key.raw => key'.state \notin NeedsConnection]_presenceVars

-----------------------------------------------------------------------------
(* Sentences of the documentation that the code does not keep *)

\* service.go: "The player goes OFFLINE only when the last connection closes".
OfflineOnlyAtLastClose ==
  [][\A c \in Sockets : Disconnect(c, TRUE) /\ key.state # "OFFLINE" /\ ~key'.raw
       => Opened \cap Counted = {}]_presenceVars

\* presence.md: "connection_count tracks live connections": a record a beat has
\* re-created counts every open one, or closing one of several ends the rest.
HealRestoresCount ==
  [][\A w \in Replicas : Heal(w, TRUE) /\ ~key.raw /\ calls = {}
       => key'.count >= Cardinality(Opened)]_presenceVars

\* presence.md: "two missed beats still leave the player online".
TwoMissedBeats ==
  [][Expire => Opened \cap Counted = {}]_presenceVars

\* service.go: HeartbeatMany "publishes PresenceOnline only for players whose
\* record had expired and was re-created".
HealsAreTransitions ==
  [][\A w \in Replicas : Heal(w, TRUE) => ~key.raw]_presenceVars

\* repository.go: "a stale API call cannot fabricate presence".
NoFabrication ==
  [][\A a \in Callers : Apply(a) /\ ~key.raw => key'.state = "OFFLINE"]_presenceVars

\* service.go: "only OFFLINE->IN_QUEUE / OFFLINE->IN_MATCH are rejected".
QueueNeedsPresence ==
  [][key.state = "OFFLINE" => key'.state \notin NeedsConnection]_presenceVars
=============================================================================
