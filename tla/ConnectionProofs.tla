-------------------------- MODULE ConnectionProofs --------------------------
(***************************************************************************)
(* Theorems about the connections of players: the maps of a hub, for any   *)
(* number of connections, players and rooms and every buffer size, and the *)
(* presence record that is kept of a player's connections, for any number  *)
(* of replicas, connections and calls and every TTL.                       *)
(*                                                                         *)
(* MapsAgree is not inductive: a join adds to the rooms a connection that  *)
(* must still be registered, and a registration adds to the clients one    *)
(* that must not be on any room's list.  What closes the argument is that  *)
(* a reader runs exactly while its channel is open (Attended), and that a  *)
(* connection is untouched until it is registered (Fresh).                 *)
(*                                                                         *)
(* The count of a record is exact because a connect that is under way has  *)
(* its connection still, or its disconnect behind it (CallsInOrder): the   *)
(* script then adds what Counted gains.  A key grows old under an open     *)
(* connection only at the cost of one lost beat an interval (Missed).      *)
(***************************************************************************)
EXTENDS Hub, Presence, FiniteSetTheorems, TLAPS

-----------------------------------------------------------------------------
(* The hub: Hub *)

\* readPump runs from register to unregister, the lifetime of the channel.
Attended == \A c \in Conns : reader[c] = "run" <=> chan[c] = "open"

\* Before serveWS registers it a connection has no channel and no room.
Fresh ==
  \A c \in Conns : sock[c] \in {"none", "upgrading"} =>
    chan[c] = "nil" /\ mine[c] = {} /\ reader[c] = "none"

HubInv == MapsAgree /\ Attended /\ Fresh

-----------------------------------------------------------------------------
\* An empty hub satisfies the invariant.
LEMMA HubInitInv == Init => HubInv
  BY HubAssumption DEF Init, HubInv, MapsAgree, TypeOK, Attended, Fresh

\* trySend never overfills a buffer.
LEMMA SendTyped ==
  ASSUME TypeOK, NEW S
  PROVE  Send(S) \in [Conns -> 0..SendBuffer]
  BY HubAssumption DEF Send, TypeOK

\* A step that leaves the maps and channels alone, starts no reader and readmits no
\* connection keeps the invariant.
LEMMA OutsideInv ==
  ASSUME HubInv, UNCHANGED <<clients, byPlayer, rooms, mine, chan>>, TypeOK',
         \A c \in Conns : reader'[c] # reader[c] => reader[c] = "left" /\ reader'[c] = "done",
         \A c \in Conns : sock'[c] \in {"none", "upgrading"} => sock[c] \in {"none", "upgrading"}
  PROVE  HubInv'
  BY DEF HubInv, MapsAgree, Attended, Fresh

\* register puts a connection into the maps and opens its channel.
LEMMA RegisterInv == ASSUME HubInv, NEW c \in Conns, Register(c) PROVE HubInv'
<1> USE HubAssumption DEF HubInv, Register, closeVars
<1>1. TypeOK'
  <2>1. byPlayer' \in [Players -> SUBSET Conns] /\ clients' \in SUBSET Conns
    <3>1. Owner[c] \in Players
      OBVIOUS
    <3>2. byPlayer[Owner[c]] \cup {c} \in SUBSET Conns
      BY <3>1 DEF MapsAgree, TypeOK
    <3> QED
      BY <3>1, <3>2 DEF MapsAgree, TypeOK
  <2>2. /\ sock' \in [Conns -> {"none", "upgrading", "open", "closed"}]
        /\ chan' \in [Conns -> {"nil", "open", "closed"}]
        /\ reader' \in [Conns -> {"none", "run", "left", "done"}]
        /\ writer' \in [Conns -> {"none", "run", "done"}]
    BY DEF MapsAgree, TypeOK
  <2> QED
    BY <2>1, <2>2 DEF MapsAgree, TypeOK
<1>2. \A d \in Conns : d \in clients' <=> chan'[d] = "open"
  BY DEF MapsAgree, TypeOK
<1>3. \A d \in Conns, p \in Players : d \in byPlayer'[p] <=> d \in clients' /\ Owner[d] = p
  BY DEF MapsAgree, TypeOK
<1>4. \A d \in Conns, r \in Rooms : d \in rooms'[r] <=> d \in clients' /\ r \in mine'[d]
  BY DEF MapsAgree, TypeOK, Fresh
<1>5. Attended' /\ Fresh'
  BY DEF MapsAgree, TypeOK, Attended, Fresh
<1> QED
  BY <1>1, <1>2, <1>3, <1>4, <1>5 DEF MapsAgree

\* Rooms are joined and left by registered connections.
LEMMA RoomInv ==
  ASSUME HubInv, NEW c \in Conns, NEW r \in Rooms, Join(c, r) \/ Leave(c, r)
  PROVE  HubInv'
<1> USE DEF HubInv, Join, Leave, Reading, netVars, sendVars, closeVars
<1>1. TypeOK'
  BY DEF MapsAgree, TypeOK
<1>2. c \in clients
  BY DEF MapsAgree, Attended
<1>3. \A d \in Conns, s \in Rooms : d \in rooms'[s] <=> d \in clients' /\ s \in mine'[d]
  BY <1>2 DEF MapsAgree, TypeOK
<1>4. Attended' /\ Fresh'
  BY DEF MapsAgree, TypeOK, Attended, Fresh
<1> QED
  BY <1>1, <1>3, <1>4 DEF MapsAgree

\* unregister takes a connection from every map and closes its channel.
LEMMA UnregisterInv == ASSUME HubInv, NEW c \in Conns, Unregister(c) PROVE HubInv'
<1> USE HubAssumption DEF HubInv, Unregister, Reading, closeVars
<1>1. TypeOK'
  BY Zenon DEF MapsAgree, TypeOK
<1>2. \A d \in Conns : d \in clients' <=> chan'[d] = "open"
  BY DEF MapsAgree, TypeOK
<1>3. \A d \in Conns, p \in Players : d \in byPlayer'[p] <=> d \in clients' /\ Owner[d] = p
  BY DEF MapsAgree, TypeOK
<1>4. \A d \in Conns, r \in Rooms : d \in rooms'[r] <=> d \in clients' /\ r \in mine'[d]
  BY DEF MapsAgree, TypeOK
<1>5. Attended' /\ Fresh'
  BY DEF MapsAgree, TypeOK, Attended, Fresh
<1> QED
  BY <1>1, <1>2, <1>3, <1>4, <1>5 DEF MapsAgree

\* The steps of a connection that do not touch the maps.
LEMMA ConnectionInv ==
  ASSUME HubInv, NEW c \in Conns,
         \/ Accept(c) \/ UpgradeError(c) \/ PeerClose(c) \/ ReaderDone(c)
         \/ Write(c) \/ WriterDone(c) \/ \E r \in Rooms : Shout(c, r)
  PROVE  HubInv'
<1> USE HubAssumption DEF netVars, mapVars, sendVars, closeVars
<1>1. TypeOK'
  BY SendTyped
  DEF HubInv, MapsAgree, TypeOK, Accept, UpgradeError, PeerClose, ReaderDone, Write,
      WriterDone, Shout
<1>2. UNCHANGED <<clients, byPlayer, rooms, mine, chan>>
  BY DEF Accept, UpgradeError, PeerClose, ReaderDone, Write, WriterDone, Shout
<1>3. /\ \A d \in Conns : reader'[d] # reader[d] => reader[d] = "left" /\ reader'[d] = "done"
      /\ \A d \in Conns : sock'[d] \in {"none", "upgrading"} => sock[d] \in {"none", "upgrading"}
  BY DEF HubInv, MapsAgree, TypeOK, Accept, UpgradeError, PeerClose, ReaderDone, Write,
         WriterDone, Shout
<1> QED
  BY <1>1, <1>2, <1>3, OutsideInv

\* Events, and CloseAll.
LEMMA HubWideInv ==
  ASSUME HubInv,
         \/ BroadcastAll \/ \E p \in Players : SendToPlayer(p)
         \/ CloseAll \/ CloseAllReturns \/ CloseAllForces
  PROVE  HubInv'
<1> USE HubAssumption DEF netVars, mapVars, sendVars, closeVars
<1>1. TypeOK'
  BY SendTyped
  DEF HubInv, MapsAgree, TypeOK, BroadcastAll, SendToPlayer, CloseAll, CloseAllReturns,
      CloseAllForces
<1>2. UNCHANGED <<clients, byPlayer, rooms, mine, chan, reader>>
  BY DEF BroadcastAll, SendToPlayer, CloseAll, CloseAllReturns, CloseAllForces
<1>3. \A d \in Conns : sock'[d] \in {"none", "upgrading"} => sock[d] \in {"none", "upgrading"}
  BY DEF BroadcastAll, SendToPlayer, CloseAll, CloseAllReturns, CloseAllForces
<1> QED
  BY <1>1, <1>2, <1>3, OutsideInv

\* Every step keeps the invariant of the hub.
LEMMA HubNextInv == HubInv /\ [Next]_vars => HubInv'
<1> SUFFICES ASSUME HubInv, [Next]_vars PROVE HubInv'
  OBVIOUS
<1>1. CASE UNCHANGED vars
  BY <1>1 DEF vars, HubInv, MapsAgree, TypeOK, Attended, Fresh
<1> QED
  BY <1>1, RegisterInv, RoomInv, UnregisterInv, ConnectionInv, HubWideInv
  DEF Next, ReadPump

-----------------------------------------------------------------------------
\* Hub.register, unregister, join, leave and the broadcasts, for any number of
\* connections and rooms: the four maps agree at every step, the clients are
\* exactly those whose send channel is open, and no buffer overflows.
THEOREM HubMapsAgree == Spec => []MapsAgree
<1>1. HubInv => MapsAgree
  BY DEF HubInv
<1> QED
  BY <1>1, HubInitInv, HubNextInv, PTL DEF Spec

\* A broadcast holds only the read lock and does not look at the channels: to
\* whatever set of clients a step adds a message, their channels are open.
THEOREM SendsOnOpenChannels ==
  Spec => [][\A c \in Conns : buf'[c] > buf[c] => chan[c] = "open"]_vars
<1>1. HubInv /\ [Next]_vars => [\A c \in Conns : buf'[c] > buf[c] => chan[c] = "open"]_vars
  <2> SUFFICES ASSUME HubInv, Next, NEW c \in Conns, buf'[c] > buf[c]
               PROVE  chan[c] = "open"
    OBVIOUS
  <2> USE HubAssumption DEF HubInv, MapsAgree, TypeOK, sendVars
  <2>1. ASSUME NEW d \in Conns, Accept(d) \/ Register(d) \/ UpgradeError(d) \/ PeerClose(d)
                                \/ Unregister(d) \/ ReaderDone(d) \/ WriterDone(d)
        PROVE  FALSE
    BY <2>1 DEF Accept, Register, UpgradeError, PeerClose, Unregister, ReaderDone, WriterDone
  <2>2. ASSUME NEW d \in Conns, Write(d)
        PROVE  FALSE
    BY <2>2 DEF Write
  <2>3. ASSUME NEW d \in Conns, NEW r \in Rooms, Shout(d, r)
        PROVE  chan[c] = "open"
    BY <2>3 DEF Shout, Send
  <2>4. ASSUME NEW d \in Conns, NEW r \in Rooms, Join(d, r) \/ Leave(d, r)
        PROVE  FALSE
    BY <2>4 DEF Join, Leave
  <2>5. CASE BroadcastAll
    BY <2>5 DEF BroadcastAll, Send
  <2>6. ASSUME NEW p \in Players, SendToPlayer(p)
        PROVE  chan[c] = "open"
    BY <2>6 DEF SendToPlayer, Send
  <2>7. CASE CloseAll \/ CloseAllReturns \/ CloseAllForces
    BY <2>7 DEF CloseAll, CloseAllReturns, CloseAllForces
  <2> QED
    BY <2>1, <2>2, <2>3, <2>4, <2>5, <2>6, <2>7 DEF Next, ReadPump
<1> QED
  BY <1>1, HubInitInv, HubNextInv, PTL DEF Spec

-----------------------------------------------------------------------------
(* The record: Presence *)

\* A key that is missing has the contents of no record.
KeyTyped ==
  /\ key \in [raw : BOOLEAN, state : States, count : Nat]
  /\ ~key.raw => key = Missing

\* The variables but the key keep their types.
RestTyped ==
  /\ age \in 0..TTL
  /\ conn \in [Sockets -> {"new", "open", "closed"}]
  /\ calls \in SUBSET (Sockets \X Ops)
  /\ beat \in [Replicas -> {"none", "due", "expire", "heal"}]
  /\ target \in [Callers -> States \cup {"none"}]
  /\ asked \in 0..MaxCalls
  /\ online \in Int
  /\ calm \in BOOLEAN
  /\ faults \in 0..MaxFaults

\* A connection's calls are under way only after its hub made them, and while
\* nothing was lost a connect still to come has its connection or its disconnect.
CallsInOrder ==
  \A c \in Sockets :
    /\ <<c, "connect">> \in calls => conn[c] # "new"
    /\ <<c, "disconnect">> \in calls => conn[c] = "closed"
    /\ calm /\ <<c, "connect">> \in calls => conn[c] = "open" \/ <<c, "disconnect">> \in calls

\* The count, while nothing was lost.
CountExact == calm => key.count = Cardinality(Counted)

\* A connection that is counted was open all along since the key was last written:
\* every interval since then has cost a fault, this one if its beat is over.
Missed ==
  calm => \A c \in Opened \cap Counted : age > 0 =>
    faults >= age - (IF beat[Home[c]] = "none" THEN 0 ELSE 1)

PresenceInv ==
  KeyTyped /\ RestTyped /\ CallsInOrder /\ CountExact /\ GaugeExact /\ Missed

\* The steps of the record: what a step may make of it.
KeyStep ==
  \/ key' = key
  \/ key' = AfterConnect(key)
  \/ key' = AfterDisconnect(key)
  \/ key' = AfterHeartbeat(key)
  \/ key' = Missing
  \/ \E to \in States : key' = AfterSetState(key, to)

\* A transition moves the gauge by one at most, or takes a fault.
LEMMA ReportTyped ==
  ASSUME online \in Int, faults \in 0..MaxFaults, NEW prev, NEW cur, NEW replied,
         Report(prev, cur, replied)
  PROVE  online' \in Int /\ faults' \in 0..MaxFaults /\ faults' >= faults
<1>1. Gauge(prev, cur) \in Int
  BY DEF Gauge
<1>2. MaxFaults \in Nat
  BY PresenceAssumption
<1>3. CASE online' = online + Gauge(prev, cur) /\ UNCHANGED faults
  BY <1>1, <1>2, <1>3
<1>4. CASE Fault /\ UNCHANGED online
  BY <1>2, <1>4 DEF Fault
<1> QED
  BY <1>3, <1>4 DEF Report

\* Every step applies one of the scripts, or lets the key expire.
LEMMA KeySteps ==
  ASSUME RestTyped, [PresenceNext]_presenceVars
  PROVE  KeyStep
<1>1. CASE UNCHANGED presenceVars
  BY <1>1 DEF presenceVars, KeyStep
<1>2. ASSUME NEW c \in Sockets, HubRegister(c) \/ HubUnregister(c) PROVE KeyStep
  BY <1>2 DEF HubRegister, HubUnregister, KeyStep
<1>3. ASSUME NEW c \in Sockets, NEW r \in BOOLEAN, Connect(c, r) \/ Disconnect(c, r) PROVE KeyStep
  BY <1>3 DEF Connect, Disconnect, Mutate, KeyStep
<1>4. ASSUME NEW call \in calls, LoseCall(call) PROVE KeyStep
  BY <1>4 DEF LoseCall, KeyStep
<1>5. ASSUME NEW w \in Replicas, Beat(w) \/ Refresh(w) \/ LoseBeat(w) \/ Crash(w) PROVE KeyStep
  BY <1>5 DEF Beat, Refresh, LoseBeat, Crash, KeyStep
<1>6. ASSUME NEW w \in Replicas, NEW r \in BOOLEAN, Heal(w, r) PROVE KeyStep
  BY <1>6 DEF Heal, KeyStep
<1>7. CASE Interval \/ Expire
  BY <1>7 DEF Interval, Expire, KeyStep
<1>8. ASSUME NEW a \in Callers, NEW r \in BOOLEAN, SetStateApply(a, r) PROVE KeyStep
  BY <1>8 DEF SetStateApply, KeyStep, RestTyped
<1>9. ASSUME NEW a \in Callers, NEW to \in Targets, SetStateCheck(a, to) PROVE KeyStep
  BY <1>9 DEF SetStateCheck, KeyStep
<1>10. ASSUME NEW r \in BOOLEAN, Heartbeat(r) PROVE KeyStep
  BY <1>10 DEF Heartbeat, Mutate, KeyStep
<1> QED
  BY <1>1, <1>2, <1>3, <1>4, <1>5, <1>6, <1>7, <1>8, <1>9, <1>10
  DEF PresenceNext, Deliver, BeatStep, Apply

\* The scripts write whole records, with a count that is never negative.
LEMMA ScriptsTyped ==
  ASSUME KeyTyped, KeyStep
  PROVE  KeyTyped'
<1>1. /\ key.raw \in BOOLEAN /\ key.state \in States /\ key.count \in Nat
      /\ ~key.raw => key.state = "OFFLINE" /\ key.count = 0
  BY DEF KeyTyped, Missing
<1>2. \A s \in States, n \in Nat : Written(s, n) \in [raw : BOOLEAN, state : States, count : Nat]
                                   /\ Written(s, n).raw
  BY DEF Written
<1>3. Missing \in [raw : BOOLEAN, state : States, count : Nat]
  BY DEF Missing, States
<1>4. "ONLINE" \in States /\ 1 \in Nat /\ key.count + 1 \in Nat
      /\ (~(key.count <= 1) => key.count - 1 \in Nat)
  BY <1>1 DEF States
<1>5. key' = key \/ key' = Missing \/ \E s \in States, n \in Nat : key' = Written(s, n)
  <2>1. CASE key' = AfterConnect(key)
    BY <1>1, <1>4, <2>1 DEF AfterConnect
  <2>2. CASE key' = AfterDisconnect(key)
    BY <1>1, <1>4, <2>2 DEF AfterDisconnect
  <2>3. CASE key' = AfterHeartbeat(key)
    BY <1>1, <1>4, <2>3 DEF AfterHeartbeat
  <2>4. ASSUME NEW to \in States, key' = AfterSetState(key, to)
        PROVE  key' = key \/ \E s \in States, n \in Nat : key' = Written(s, n)
    BY <1>1, <2>4 DEF AfterSetState
  <2> QED
    BY <2>1, <2>2, <2>3, <2>4 DEF KeyStep
<1>6. key' \in [raw : BOOLEAN, state : States, count : Nat] /\ (key' = Missing \/ key' = key \/ key'.raw)
  BY <1>2, <1>3, <1>5, Zenon DEF KeyTyped
<1> QED
  BY <1>6 DEF KeyTyped

\* SetState.lua: no step makes a missing record say that its player queues or plays.
LEMMA ScriptsRefuse ==
  ASSUME KeyTyped, KeyStep, ~key.raw
  PROVE  key'.state \notin NeedsConnection
<1>1. key = Missing
  BY DEF KeyTyped
<1> QED
  BY <1>1 DEF KeyStep, AfterConnect, AfterDisconnect, AfterHeartbeat, AfterSetState, Missing,
     Written, NeedsConnection

\* Every step keeps the types of the other variables.
LEMMA RestStep ==
  ASSUME RestTyped, [PresenceNext]_presenceVars
  PROVE  RestTyped'
<1>0. /\ TTL \in Nat \ {0} /\ MaxCalls \in Nat /\ MaxFaults \in Nat /\ Targets \subseteq States
      /\ 0 \in 0..TTL
  BY PresenceAssumption
<1>f. ASSUME Fault PROVE faults' \in 0..MaxFaults
  BY <1>0, <1>f DEF Fault, RestTyped
<1>a. ASSUME asked < MaxCalls PROVE asked + 1 \in 0..MaxCalls
  BY <1>0, <1>a DEF RestTyped
<1>1. CASE UNCHANGED presenceVars
  BY <1>1 DEF presenceVars, RestTyped
<1>2. ASSUME NEW c \in Sockets, HubRegister(c) \/ HubUnregister(c) PROVE RestTyped'
  <2>1. <<c, "connect">> \in Sockets \X Ops /\ <<c, "disconnect">> \in Sockets \X Ops
    BY DEF Ops
  <2> QED
    BY <1>2, <2>1 DEF HubRegister, HubUnregister, RestTyped
<1>3. ASSUME NEW c \in Sockets, NEW r \in BOOLEAN, Connect(c, r) \/ Disconnect(c, r) PROVE RestTyped'
  <2>1. online' \in Int /\ faults' \in 0..MaxFaults /\ age' = 0
    BY <1>3, ReportTyped DEF Connect, Disconnect, Mutate, RestTyped
  <2>2. calm' \in BOOLEAN
    BY <1>3, Zenon DEF Connect, Disconnect
  <2> QED
    BY <1>0, <1>3, <2>1, <2>2 DEF Connect, Disconnect, RestTyped
<1>4. ASSUME NEW call \in calls, LoseCall(call) PROVE RestTyped'
  BY <1>4, <1>f, Zenon DEF LoseCall, RestTyped
<1>5. ASSUME NEW w \in Replicas, Beat(w) \/ Refresh(w) \/ LoseBeat(w) \/ Crash(w) PROVE RestTyped'
  BY <1>0, <1>5, <1>f, Zenon DEF Beat, Refresh, LoseBeat, Crash, RestTyped
<1>6. ASSUME NEW w \in Replicas, NEW r \in BOOLEAN, Heal(w, r) PROVE RestTyped'
  <2>1. online' \in Int /\ faults' \in 0..MaxFaults
    BY <1>6, ReportTyped DEF Heal, RestTyped
  <2> QED
    BY <1>0, <1>6, <2>1, Zenon DEF Heal, RestTyped
<1>7. CASE Interval \/ Expire
  <2>1. age' \in 0..TTL
    BY <1>0, <1>7 DEF Interval, Expire, RestTyped
  <2> QED
    BY <1>7, <2>1, Zenon DEF Interval, Expire, RestTyped
<1>8. ASSUME NEW a \in Callers, NEW r \in BOOLEAN, SetStateApply(a, r) PROVE RestTyped'
  <2>1. online' \in Int /\ faults' \in 0..MaxFaults
    BY <1>8, ReportTyped DEF SetStateApply, RestTyped
  <2>2. calm' \in BOOLEAN
    BY <1>8, Zenon DEF SetStateApply
  <2>3. age' \in 0..TTL
    BY <1>0, <1>8 DEF SetStateApply, RestTyped
  <2> QED
    BY <1>8, <2>1, <2>2, <2>3 DEF SetStateApply, RestTyped
<1>9. ASSUME NEW a \in Callers, NEW to \in Targets, SetStateCheck(a, to) PROVE RestTyped'
  BY <1>0, <1>9, <1>a DEF SetStateCheck, RestTyped
<1>10. ASSUME NEW r \in BOOLEAN, Heartbeat(r) PROVE RestTyped'
  <2>1. online' \in Int /\ faults' \in 0..MaxFaults /\ age' = 0
    BY <1>10, ReportTyped DEF Heartbeat, Mutate, RestTyped
  <2>2. calm' \in BOOLEAN
    BY <1>10, Zenon DEF Heartbeat
  <2> QED
    BY <1>0, <1>10, <1>a, <2>1, <2>2 DEF Heartbeat, RestTyped
<1> QED
  BY <1>1, <1>2, <1>3, <1>4, <1>5, <1>6, <1>7, <1>8, <1>9, <1>10
  DEF PresenceNext, Deliver, BeatStep, Apply

\* The steps that neither make a call nor carry one out, and open or close nothing.
Apart == UNCHANGED <<conn, calls>> /\ (calm' => calm)

\* The steps that lose a call or its reply, or let the record go.
Upset == calm' = FALSE

\* Every step is of one of these kinds.
LEMMA StepKinds ==
  ASSUME RestTyped, [PresenceNext]_presenceVars
  PROVE  \/ Apart \/ Upset
         \/ \E c \in Sockets : HubRegister(c) \/ HubUnregister(c)
         \/ \E c \in Sockets : calm /\ (Connect(c, TRUE) \/ (Disconnect(c, TRUE) /\ ~Overtakes(c)))
<1>1. CASE UNCHANGED presenceVars
  BY <1>1, Zenon DEF presenceVars, Apart
<1>2. ASSUME NEW c \in Sockets, NEW r \in BOOLEAN, Connect(c, r)
      PROVE  Upset \/ (calm /\ Connect(c, TRUE))
  <2>1. CASE calm /\ r = TRUE
    BY <1>2, <2>1, Zenon
  <2>2. CASE ~(calm /\ r = TRUE)
    <3>1. calm' = (calm /\ r)
      BY <1>2 DEF Connect
    <3> QED
      BY <2>2, <3>1, Zenon DEF Upset, RestTyped
  <2> QED
    BY <2>1, <2>2, Zenon
<1>3. ASSUME NEW c \in Sockets, NEW r \in BOOLEAN, Disconnect(c, r)
      PROVE  Upset \/ (calm /\ Disconnect(c, TRUE) /\ ~Overtakes(c))
  <2>1. CASE calm /\ r = TRUE /\ ~Overtakes(c)
    BY <1>3, <2>1, Zenon
  <2>2. CASE ~(calm /\ r = TRUE /\ ~Overtakes(c))
    <3>1. calm' = (calm /\ r /\ ~Overtakes(c))
      BY <1>3 DEF Disconnect
    <3> QED
      BY <2>2, <3>1, Zenon DEF Upset, RestTyped
  <2> QED
    BY <2>1, <2>2, Zenon
<1>4. ASSUME NEW call \in calls, LoseCall(call) PROVE Upset
  BY <1>4 DEF LoseCall, Upset
<1>5. ASSUME NEW w \in Replicas, Beat(w) \/ Refresh(w) \/ LoseBeat(w) \/ Crash(w) PROVE Apart \/ Upset
  BY <1>5 DEF Beat, Refresh, LoseBeat, Crash, Apart, Upset
<1>6. ASSUME NEW w \in Replicas, NEW r \in BOOLEAN, Heal(w, r) PROVE Upset
  BY <1>6 DEF Heal, Upset
<1>7. CASE Interval \/ Expire
  BY <1>7, Zenon DEF Interval, Expire, Apart, Upset
<1>8. ASSUME NEW a \in Callers, NEW r \in BOOLEAN, SetStateApply(a, r) PROVE Apart
  BY <1>8, Zenon DEF SetStateApply, Apart
<1>9. ASSUME NEW a \in Callers, NEW to \in Targets, SetStateCheck(a, to) PROVE Apart
  BY <1>9 DEF SetStateCheck, Apart
<1>10. ASSUME NEW r \in BOOLEAN, Heartbeat(r) PROVE Apart
  BY <1>10, Zenon DEF Heartbeat, Apart
<1> QED
  BY <1>1, <1>2, <1>3, <1>4, <1>5, <1>6, <1>7, <1>8, <1>9, <1>10, Zenon
  DEF PresenceNext, Deliver, BeatStep, Apply

\* Calls are made in order and leave one by one; a crash takes those of its replica,
\* and closes what they were about.
LEMMA OrderStep ==
  ASSUME RestTyped, CallsInOrder, [PresenceNext]_presenceVars
  PROVE  CallsInOrder'
<1>1. CASE Apart
  BY <1>1, Zenon DEF Apart, CallsInOrder
<1>2. ASSUME NEW c \in Sockets, HubRegister(c) PROVE CallsInOrder'
  BY <1>2, Zenon DEF HubRegister, CallsInOrder, RestTyped
<1>3. ASSUME NEW c \in Sockets, HubUnregister(c) PROVE CallsInOrder'
  BY <1>3, Zenon DEF HubUnregister, CallsInOrder, RestTyped
<1>4. ASSUME NEW c \in Sockets, Connect(c, TRUE) PROVE CallsInOrder'
  BY <1>4, Zenon DEF Connect, CallsInOrder
<1>5. ASSUME NEW c \in Sockets, Disconnect(c, TRUE), ~Overtakes(c) PROVE CallsInOrder'
  BY <1>5, Zenon DEF Disconnect, Overtakes, CallsInOrder
<1>6. CASE Upset
  <2>1. /\ calls' \subseteq calls \/ \E c \in Sockets : HubRegister(c) \/ HubUnregister(c)
        /\ \A c \in Sockets : conn[c] # "new" /\ conn'[c] # conn[c] => conn'[c] = "closed"
    <3>1. ASSUME NEW w \in Replicas, Crash(w)
          PROVE  /\ calls' \subseteq calls
                 /\ \A c \in Sockets : conn[c] # "new" /\ conn'[c] # conn[c] => conn'[c] = "closed"
      BY <3>1 DEF Crash
    <3>2. CASE ~\E w \in Replicas : Crash(w)
      BY <3>2, Zenon DEF PresenceNext, presenceVars, Deliver, BeatStep, Apply, HubRegister, HubUnregister, Connect,
         Disconnect, LoseCall, Beat, Refresh, Heal, LoseBeat, Interval, Expire, SetStateApply,
         SetStateCheck, Heartbeat, RestTyped
    <3> QED
      BY <3>1, <3>2
  <2>2. CASE calls' \subseteq calls
    BY <1>6, <2>1, <2>2, Zenon DEF Upset, CallsInOrder, RestTyped
  <2> QED
    BY <1>2, <1>3, <2>1, <2>2
<1> QED
  BY <1>1, <1>2, <1>3, <1>4, <1>5, <1>6, StepKinds, Zenon

\* The counted connections are finitely many.
LEMMA CountedFinite == IsFiniteSet(Counted) /\ Cardinality(Counted) \in Nat
<1>1. Counted \subseteq Sockets /\ IsFiniteSet(Sockets)
  BY PresenceAssumption DEF Counted
<1>2. IsFiniteSet(Counted)
  BY <1>1, FS_Subset
<1> QED
  BY <1>2, FS_CardinalityType

\* Connect and Disconnect: the script counts exactly the connection its call is about,
\* and an API call leaves the count alone, as long as nothing is lost.
LEMMA CountStep ==
  ASSUME KeyTyped, RestTyped, CallsInOrder, CountExact, [PresenceNext]_presenceVars
  PROVE  CountExact'
<1>0. key.count \in Nat /\ Cardinality(Counted) \in Nat /\ IsFiniteSet(Counted)
  BY CountedFinite DEF KeyTyped
<1>1. CASE Apart
  <2>1. Counted' = Counted
    BY <1>1 DEF Apart, Counted
  <2>2. calm' => key'.count = key.count
    <3>1. CASE UNCHANGED presenceVars
      BY <3>1 DEF presenceVars
    <3>2. ASSUME NEW c \in Sockets, HubRegister(c) \/ HubUnregister(c) PROVE key' = key
      BY <3>2 DEF HubRegister, HubUnregister
    <3>3. ASSUME NEW c \in Sockets, NEW r \in BOOLEAN, Connect(c, r) \/ Disconnect(c, r) PROVE FALSE
      BY <1>1, <3>3 DEF Connect, Disconnect, Apart
    <3>4. ASSUME NEW call \in calls, LoseCall(call) PROVE key' = key
      BY <3>4 DEF LoseCall
    <3>5. ASSUME NEW w \in Replicas, Beat(w) \/ Refresh(w) \/ LoseBeat(w) \/ Crash(w) PROVE key' = key
      BY <3>5 DEF Beat, Refresh, LoseBeat, Crash
    <3>6. ASSUME NEW w \in Replicas, NEW r \in BOOLEAN, Heal(w, r) PROVE ~calm'
      BY <3>6 DEF Heal
    <3>7. CASE Interval \/ Expire
      BY <3>7 DEF Interval, Expire
    <3>8. ASSUME NEW a \in Callers, NEW r \in BOOLEAN, SetStateApply(a, r) PROVE key'.count = key.count
      BY <3>8 DEF SetStateApply, AfterSetState, Written
    <3>9. ASSUME NEW a \in Callers, NEW to \in Targets, SetStateCheck(a, to) PROVE key' = key
      BY <3>9 DEF SetStateCheck
    <3>10. ASSUME NEW r \in BOOLEAN, Heartbeat(r), calm' PROVE key' = key
      BY <3>10, Zenon DEF Heartbeat, Mutate, AfterHeartbeat
    <3> QED
      BY <3>1, <3>2, <3>3, <3>4, <3>5, <3>6, <3>7, <3>8, <3>9, <3>10
      DEF PresenceNext, Deliver, BeatStep, Apply
  <2> QED
    BY <1>1, <2>1, <2>2 DEF Apart, CountExact
<1>2. ASSUME NEW c \in Sockets, HubRegister(c) \/ HubUnregister(c) PROVE CountExact'
  <2>1. Counted' = Counted
    <3>1. CASE HubRegister(c)
      BY <3>1 DEF HubRegister, Counted, CallsInOrder, RestTyped
    <3>2. CASE HubUnregister(c)
      BY <3>2 DEF HubUnregister, Counted, CallsInOrder, RestTyped
    <3> QED
      BY <1>2, <3>1, <3>2
  <2> QED
    BY <1>2, <2>1, Zenon DEF HubRegister, HubUnregister, CountExact
<1>3. ASSUME NEW c \in Sockets, calm, Connect(c, TRUE) PROVE CountExact'
  <2>1. Counted' = Counted \cup {c} /\ c \notin Counted
    BY <1>3 DEF Connect, Counted, CallsInOrder
  <2>2. Cardinality(Counted') = Cardinality(Counted) + 1
    BY <1>0, <2>1, FS_AddElement
  <2>3. key'.count = key.count + 1
    BY <1>3 DEF Connect, Mutate, AfterConnect, Written
  <2> QED
    BY <1>3, <2>2, <2>3 DEF CountExact
<1>4. ASSUME NEW c \in Sockets, calm, Disconnect(c, TRUE), ~Overtakes(c) PROVE CountExact'
  <2>1. Counted' = Counted \ {c} /\ c \in Counted
    BY <1>4 DEF Disconnect, Overtakes, Counted, CallsInOrder
  <2>2. Cardinality(Counted') = Cardinality(Counted) - 1 /\ Cardinality(Counted') \in Nat
    BY <1>0, <2>1, FS_RemoveElement, FS_CardinalityType
  <2>3. key.count = Cardinality(Counted)
    BY <1>4 DEF CountExact
  <2>4. key'.count = IF key.count <= 1 THEN 0 ELSE key.count - 1
    BY <1>4 DEF Disconnect, Mutate, AfterDisconnect, Written, Missing
  <2> QED
    BY <1>0, <2>2, <2>3, <2>4 DEF CountExact
<1>5. CASE Upset
  BY <1>5 DEF Upset, CountExact
<1> QED
  BY <1>1, <1>2, <1>3, <1>4, <1>5, StepKinds, Zenon

\* publishTransition: a transition that is reported moves the gauge from what the old
\* state says to what the new one says.
LEMMA ReportExact ==
  ASSUME online = IF key.state = "OFFLINE" THEN 0 ELSE 1, Report(key, key', TRUE)
  PROVE  online' = IF key'.state = "OFFLINE" THEN 0 ELSE 1
<1>1. online' = online + Gauge(key, key')
  BY DEF Report
<1>2. CASE key.state = "OFFLINE" /\ key'.state # "OFFLINE"
  BY <1>1, <1>2 DEF Gauge
<1>3. CASE key.state # "OFFLINE" /\ key'.state = "OFFLINE"
  <2>1. Gauge(key, key') = -1
    BY <1>3 DEF Gauge
  <2> QED
    BY <1>1, <1>3, <2>1
<1>4. CASE (key.state = "OFFLINE") = (key'.state = "OFFLINE")
  <2>1. Gauge(key, key') = 0
    BY <1>4 DEF Gauge
  <2> QED
    BY <1>1, <1>4, <2>1
<1> QED
  BY <1>2, <1>3, <1>4

\* Every script's transition is reported by the call that ran it.
LEMMA GaugeStep ==
  ASSUME GaugeExact, [PresenceNext]_presenceVars
  PROVE  GaugeExact'
<1> SUFFICES ASSUME calm' PROVE online' = IF key'.state = "OFFLINE" THEN 0 ELSE 1
  BY DEF GaugeExact
<1> DEFINE Still == UNCHANGED <<key, online>> /\ calm
           Told == Report(key, key', TRUE) /\ calm
<1>1. CASE UNCHANGED presenceVars
  BY <1>1 DEF presenceVars, GaugeExact
<1>2. ASSUME NEW c \in Sockets, HubRegister(c) \/ HubUnregister(c) PROVE Still
  BY <1>2, Zenon DEF HubRegister, HubUnregister
<1>3. ASSUME NEW c \in Sockets, NEW r \in BOOLEAN, Connect(c, r) \/ Disconnect(c, r) PROVE Told
  <2>1. r = TRUE /\ calm
    BY <1>3, Zenon DEF Connect, Disconnect
  <2> QED
    BY <1>3, <2>1, Zenon DEF Connect, Disconnect, Mutate
<1>4. ASSUME NEW call \in calls, LoseCall(call) PROVE FALSE
  BY <1>4 DEF LoseCall
<1>5. ASSUME NEW w \in Replicas, Beat(w) \/ Refresh(w) \/ LoseBeat(w) \/ Crash(w) PROVE Still
  BY <1>5, Zenon DEF Beat, Refresh, LoseBeat, Crash
<1>6. ASSUME NEW w \in Replicas, NEW r \in BOOLEAN, Heal(w, r) PROVE FALSE
  BY <1>6 DEF Heal
<1>7. CASE Interval \/ Expire
  BY <1>7, Zenon DEF Interval, Expire, GaugeExact
<1>8. ASSUME NEW a \in Callers, NEW r \in BOOLEAN, SetStateApply(a, r) PROVE Told
  <2>1. r = TRUE /\ calm
    BY <1>8, Zenon DEF SetStateApply
  <2> QED
    BY <1>8, <2>1, Zenon DEF SetStateApply
<1>9. ASSUME NEW a \in Callers, NEW to \in Targets, SetStateCheck(a, to) PROVE Still
  BY <1>9 DEF SetStateCheck
<1>10. ASSUME NEW r \in BOOLEAN, Heartbeat(r) PROVE Told
  <2>1. r = TRUE /\ calm
    BY <1>10, Zenon DEF Heartbeat
  <2> QED
    BY <1>10, <2>1, Zenon DEF Heartbeat, Mutate
<1>11. CASE Still
  BY <1>11 DEF GaugeExact
<1>12. CASE Told
  BY <1>12, ReportExact, SMTT(20) DEF GaugeExact
<1> HIDE DEF Still, Told
<1> QED
  BY <1>1, <1>2, <1>3, <1>4, <1>5, <1>6, <1>7, <1>8, <1>9, <1>10, <1>11, <1>12
  DEF PresenceNext, Deliver, BeatStep, Apply

\* RunHeartbeat: a replica that holds a connection beats for it in every interval,
\* and a beat refreshes the key unless it is lost.
LEMMA MissedStep ==
  ASSUME RestTyped, Missed, [PresenceNext]_presenceVars
  PROVE  Missed'
<1> SUFFICES ASSUME calm', NEW c \in (Opened \cap Counted)', age' > 0
             PROVE  faults' >= age' - (IF beat'[Home[c]] = "none" THEN 0 ELSE 1)
  BY DEF Missed
<1> DEFINE Spent == faults >= age - (IF beat[Home[c]] = "none" THEN 0 ELSE 1)
           Held == calm /\ c \in Opened \cap Counted
<1>0. /\ c \in Sockets /\ Home[c] \in Replicas /\ age \in Nat /\ faults \in Nat
      /\ beat \in [Replicas -> {"none", "due", "expire", "heal"}]
  BY PresenceAssumption DEF Opened, RestTyped
<1>h. Held /\ age > 0 => Spent
  BY DEF Missed
<1>u. ASSUME Held, UNCHANGED <<age, faults>>, (beat'[Home[c]] = "none") = (beat[Home[c]] = "none")
      PROVE  faults' >= age' - (IF beat'[Home[c]] = "none" THEN 0 ELSE 1)
  BY <1>0, <1>h, <1>u
<1>1. CASE UNCHANGED presenceVars
  <2>1. Held
    BY <1>1 DEF presenceVars, Opened, Counted
  <2> QED
    BY <1>1, <1>u, <2>1 DEF presenceVars
<1>2. ASSUME NEW d \in Sockets, HubRegister(d) \/ HubUnregister(d)
      PROVE  faults' >= age' - (IF beat'[Home[c]] = "none" THEN 0 ELSE 1)
  <2>1. Held
    BY <1>2, Zenon DEF HubRegister, HubUnregister, Opened, Counted, RestTyped
  <2> QED
    BY <1>2, <1>u, <2>1 DEF HubRegister, HubUnregister
<1>3. ASSUME NEW d \in Sockets, NEW r \in BOOLEAN, Connect(d, r) \/ Disconnect(d, r) PROVE FALSE
  <2>1. age' = 0
    BY <1>3, Zenon DEF Connect, Disconnect, Mutate
  <2> QED
    BY <2>1
<1>4. ASSUME NEW call \in calls, LoseCall(call) PROVE FALSE
  BY <1>4 DEF LoseCall
<1>5. ASSUME NEW w \in Replicas, Beat(w)
      PROVE  faults' >= age' - (IF beat'[Home[c]] = "none" THEN 0 ELSE 1)
  <2>1. Held
    BY <1>5 DEF Beat, Opened, Counted
  <2>2. CASE w = Home[c]
    <3>1. c \in Open(w) /\ Open(w) # {}
      BY <1>0, <2>1, <2>2 DEF Open, Opened
    <3> QED
      BY <1>0, <1>5, <1>u, <2>1, <2>2, <3>1 DEF Beat
  <2>3. CASE w # Home[c]
    BY <1>0, <1>5, <1>u, <2>1, <2>3 DEF Beat
  <2> QED
    BY <2>2, <2>3
<1>6. ASSUME NEW w \in Replicas, Refresh(w) \/ Crash(w) PROVE FALSE
  BY <1>6 DEF Refresh, Crash
<1>7. ASSUME NEW w \in Replicas, NEW r \in BOOLEAN, Heal(w, r) PROVE FALSE
  BY <1>7 DEF Heal
<1>8. ASSUME NEW w \in Replicas, LoseBeat(w)
      PROVE  faults' >= age' - (IF beat'[Home[c]] = "none" THEN 0 ELSE 1)
  <2>1. Held
    BY <1>8 DEF LoseBeat, Opened, Counted
  <2>2. faults' = faults + 1 /\ age' = age
    BY <1>8 DEF LoseBeat, Fault
  <2> QED
    BY <1>0, <1>h, <2>1, <2>2
<1>9. CASE Interval
  <2>1. Held
    BY <1>9 DEF Interval, Opened, Counted
  <2>2. beat[Home[c]] = "none" /\ beat'[Home[c]] = "due" /\ faults' = faults /\ age' \in {0, age + 1}
    BY <1>0, <1>9 DEF Interval
  <2>3. age' = age + 1
    BY <2>2
  <2>4. faults >= age
    BY <1>0, <1>h, <2>1, <2>2
  <2>5. (IF beat'[Home[c]] = "none" THEN 0 ELSE 1) = 1
    BY <2>2
  <2> HIDE DEF Spent, Held
  <2> QED
    BY <1>0, <2>2, <2>3, <2>4, <2>5
<1>10. CASE Expire
  BY <1>10 DEF Expire
<1>11. ASSUME NEW a \in Callers, NEW r \in BOOLEAN, SetStateApply(a, r)
       PROVE  faults' >= age' - (IF beat'[Home[c]] = "none" THEN 0 ELSE 1)
  <2>1. Held
    BY <1>11, Zenon DEF SetStateApply, Opened, Counted
  <2>2. faults' = faults
    BY <1>11 DEF SetStateApply, Report
  <2>3. age' = age
    BY <1>11 DEF SetStateApply
  <2> QED
    BY <1>11, <1>u, <2>1, <2>2, <2>3 DEF SetStateApply
<1>12. ASSUME NEW a \in Callers, NEW to \in Targets, SetStateCheck(a, to)
       PROVE  faults' >= age' - (IF beat'[Home[c]] = "none" THEN 0 ELSE 1)
  <2>1. Held
    BY <1>12 DEF SetStateCheck, Opened, Counted
  <2> QED
    BY <1>12, <1>u, <2>1 DEF SetStateCheck
<1>13. ASSUME NEW r \in BOOLEAN, Heartbeat(r) PROVE FALSE
  BY <1>13 DEF Heartbeat, Mutate
<1> QED
  BY <1>1, <1>2, <1>3, <1>4, <1>5, <1>6, <1>7, <1>8, <1>9, <1>10, <1>11, <1>12, <1>13
  DEF PresenceNext, Deliver, BeatStep, Apply

\* A player who has not connected has no record and is not online.
LEMMA PresenceStart == PresenceInit => PresenceInv
<1> SUFFICES ASSUME PresenceInit PROVE PresenceInv
  OBVIOUS
<1>1. KeyTyped
  BY DEF PresenceInit, KeyTyped, Missing, States
<1>2. RestTyped
  BY PresenceAssumption DEF PresenceInit, RestTyped
<1>3. CallsInOrder /\ GaugeExact /\ Missed
  BY DEF PresenceInit, CallsInOrder, GaugeExact, Missed, Missing
<1>4. Counted = {}
  BY DEF PresenceInit, Counted
<1>5. CountExact
  BY <1>4, FS_EmptySet DEF PresenceInit, CountExact, Missing
<1> QED
  BY <1>1, <1>2, <1>3, <1>5 DEF PresenceInv

\* Every step keeps the invariant.
LEMMA PresenceStep == PresenceInv /\ [PresenceNext]_presenceVars => PresenceInv'
  BY KeySteps, ScriptsTyped, RestStep, OrderStep, CountStep, GaugeStep, MissedStep DEF PresenceInv

\* The invariant holds throughout.
LEMMA PresenceInvariant == PresenceSpec => []PresenceInv
  BY PresenceStart, PresenceStep, PTL DEF PresenceSpec

-----------------------------------------------------------------------------
\* connect.lua and disconnect.lua, for any number of replicas, connections and API
\* calls: while no call is lost or overtaken, the record counts exactly the
\* connections reported to it, whatever the interleaving.
THEOREM UpdatesKept == PresenceSpec => []NoLostUpdate
<1>1. PresenceInv => NoLostUpdate
  BY DEF PresenceInv, KeyTyped, RestTyped, CountExact, NoLostUpdate, PresenceTypeOK
<1> QED
  BY <1>1, PresenceInvariant, PTL

\* publishTransition: every transition is counted by exactly one of the calls that
\* raced for it, so the gauge says whether the player is online.
THEOREM GaugeTells == PresenceSpec => []GaugeExact
<1>1. PresenceInv => GaugeExact
  BY DEF PresenceInv
<1> QED
  BY <1>1, PresenceInvariant, PTL

\* RunHeartbeat and the key's TTL, for every TTL: under an open connection that was
\* reported, a key expires only after TTL - 1 faults.
THEOREM ExpiryTakesFaults == PresenceSpec => ExpiryNeedsFaults
<1>1. PresenceInv =>
        (Expire /\ calm /\ Opened \cap Counted # {} => faults >= TTL - 1)
  <2> SUFFICES ASSUME PresenceInv, Expire, calm, NEW c \in Opened \cap Counted
               PROVE  faults >= TTL - 1
    OBVIOUS
  <2>1. TTL \in Nat /\ TTL > 0 /\ faults \in Nat /\ age = TTL
    BY PresenceAssumption DEF PresenceInv, RestTyped, Expire
  <2>2. faults >= age - (IF beat[Home[c]] = "none" THEN 0 ELSE 1)
    BY <2>1 DEF PresenceInv, Missed
  <2> QED
    BY <2>1, <2>2
<1> QED
  BY <1>1, PresenceInvariant, PTL DEF ExpiryNeedsFaults

\* setstate.lua checks again what SetState checked before: no step puts a player
\* whose record is gone into a queue or a match.
THEOREM NoRecordNoQueue == PresenceSpec => QueueNeedsRecord
<1>1. PresenceInv /\ [PresenceNext]_presenceVars => (~key.raw => key'.state \notin NeedsConnection)
  BY KeySteps, ScriptsRefuse DEF PresenceInv
<1> QED
  BY <1>1, PresenceInvariant, PTL DEF PresenceSpec, QueueNeedsRecord
=============================================================================
