-------------------------------- MODULE Hub ---------------------------------
(***************************************************************************)
(* The hub of one WebSocket replica (internal/wsgateway/hub.go) and the    *)
(* read and write pumps of its clients (client.go): registration, rooms,   *)
(* fan-out into the buffered send channels, and the shutdown hook          *)
(* CloseAll.  What runs under the hub's mutex is one step; the broadcast   *)
(* that follows a join, a leave or an unregister is a step of its own.     *)
(* Messages are counted, not told apart.                                   *)
(***************************************************************************)
EXTENDS Naturals

CONSTANTS
  Conns,      \* connections, each opened at most once
  Players,    \* players
  Owner,      \* Owner[c]: the player of connection c
  Rooms,      \* room names
  SendBuffer  \* capacity of a client's send channel

ASSUME HubAssumption ==
  /\ Owner \in [Conns -> Players]
  /\ SendBuffer \in Nat \ {0}

VARIABLES
  sock,      \* sock[c]: the network connection
  clients,   \* Hub.clients
  byPlayer,  \* Hub.byPlayer
  rooms,     \* Hub.rooms
  mine,      \* mine[c]: Client.rooms
  buf,       \* buf[c]: messages in Client.send
  chan,      \* chan[c]: Client.send is not made, open or closed
  reader,    \* reader[c]: readPump; "left" after its unregister
  writer,    \* writer[c]: writePump
  shout,     \* shout[c]: rooms c's reader has yet to broadcast to
  closing,   \* CloseAll
  snap       \* connections CloseAll has seen

netVars == <<sock, reader, writer>>
mapVars == <<clients, byPlayer, rooms, mine>>
sendVars == <<buf, chan>>
closeVars == <<closing, snap>>
vars == <<sock, clients, byPlayer, rooms, mine, buf, chan, reader, writer, shout, closing, snap>>

TypeOK ==
  /\ sock \in [Conns -> {"none", "upgrading", "open", "closed"}]
  /\ clients \in SUBSET Conns
  /\ byPlayer \in [Players -> SUBSET Conns]
  /\ rooms \in [Rooms -> SUBSET Conns]
  /\ mine \in [Conns -> SUBSET Rooms]
  /\ buf \in [Conns -> 0..SendBuffer]
  /\ chan \in [Conns -> {"nil", "open", "closed"}]
  /\ reader \in [Conns -> {"none", "run", "left", "done"}]
  /\ writer \in [Conns -> {"none", "run", "done"}]
  /\ shout \in [Conns -> SUBSET Rooms]
  /\ closing \in {"no", "polling", "returned", "forced"}
  /\ snap \in SUBSET Conns

Init ==
  /\ sock = [c \in Conns |-> "none"]
  /\ clients = {} /\ byPlayer = [p \in Players |-> {}]
  /\ rooms = [r \in Rooms |-> {}] /\ mine = [c \in Conns |-> {}]
  /\ buf = [c \in Conns |-> 0] /\ chan = [c \in Conns |-> "nil"]
  /\ reader = [c \in Conns |-> "none"] /\ writer = [c \in Conns |-> "none"]
  /\ shout = [c \in Conns |-> {}]
  /\ closing = "no" /\ snap = {}

\* trySend to a set of clients: a message to a full channel is dropped.
Send(S) == [c \in Conns |-> IF c \in S /\ buf[c] < SendBuffer THEN buf[c] + 1 ELSE buf[c]]

-----------------------------------------------------------------------------
(* The life of a connection *)

\* serveWS has passed its checks; the server accepts until it shuts down.
Accept(c) ==
  /\ sock[c] = "none" /\ closing = "no"
  /\ sock' = [sock EXCEPT ![c] = "upgrading"]
  /\ UNCHANGED <<reader, writer, mapVars, sendVars, shout, closeVars>>

\* serveWS after the upgrade: register, then both pumps.
Register(c) ==
  /\ sock[c] = "upgrading"
  /\ sock' = [sock EXCEPT ![c] = "open"]
  /\ clients' = clients \cup {c}
  /\ byPlayer' = [byPlayer EXCEPT ![Owner[c]] = @ \cup {c}]
  /\ chan' = [chan EXCEPT ![c] = "open"]
  /\ reader' = [reader EXCEPT ![c] = "run"]
  /\ writer' = [writer EXCEPT ![c] = "run"]
  /\ UNCHANGED <<rooms, mine, buf, shout, closeVars>>

\* The upgrade fails: nothing was registered.
UpgradeError(c) ==
  /\ sock[c] = "upgrading"
  /\ sock' = [sock EXCEPT ![c] = "closed"]
  /\ UNCHANGED <<reader, writer, mapVars, sendVars, shout, closeVars>>

\* The peer closes, answers a close frame, or misses its pong deadline.
PeerClose(c) ==
  /\ sock[c] = "open"
  /\ sock' = [sock EXCEPT ![c] = "closed"]
  /\ UNCHANGED <<reader, writer, mapVars, sendVars, shout, closeVars>>

Reading(c) == reader[c] = "run" /\ shout[c] = {}

\* readPump, "join".
Join(c, r) ==
  /\ Reading(c) /\ sock[c] = "open"
  /\ rooms' = [rooms EXCEPT ![r] = @ \cup {c}]
  /\ mine' = [mine EXCEPT ![c] = @ \cup {r}]
  /\ shout' = [shout EXCEPT ![c] = {r}]
  /\ UNCHANGED <<netVars, clients, byPlayer, sendVars, closeVars>>

\* readPump, "leave", which is broadcast also when c was not in the room.
Leave(c, r) ==
  /\ Reading(c) /\ sock[c] = "open"
  /\ rooms' = [rooms EXCEPT ![r] = @ \ {c}]
  /\ mine' = [mine EXCEPT ![c] = @ \ {r}]
  /\ shout' = [shout EXCEPT ![c] = {r}]
  /\ UNCHANGED <<netVars, clients, byPlayer, sendVars, closeVars>>

\* BroadcastToRoom, outside the lock of the change it announces.
Shout(c, r) ==
  /\ r \in shout[c]
  /\ buf' = Send(rooms[r])
  /\ shout' = [shout EXCEPT ![c] = @ \ {r}]
  /\ UNCHANGED <<netVars, mapVars, chan, closeVars>>

\* An unregister that leaves the rooms to the garbage collector.
Unregister_KeepsRooms(c) ==
  /\ Reading(c) /\ sock[c] = "closed"
  /\ clients' = clients \ {c}
  /\ byPlayer' = [byPlayer EXCEPT ![Owner[c]] = @ \ {c}]
  /\ chan' = [chan EXCEPT ![c] = "closed"]
  /\ shout' = [shout EXCEPT ![c] = mine[c]]
  /\ reader' = [reader EXCEPT ![c] = "left"]
  /\ UNCHANGED <<sock, writer, rooms, mine, buf, closeVars>>

\* readPump returns on a read error: unregister, up to the unlock.
Unregister(c) ==
  /\ Reading(c) /\ sock[c] = "closed"
  /\ clients' = clients \ {c}
  /\ byPlayer' = [byPlayer EXCEPT ![Owner[c]] = @ \ {c}]
  /\ rooms' = [r \in Rooms |-> IF r \in mine[c] THEN rooms[r] \ {c} ELSE rooms[r]]
  /\ chan' = [chan EXCEPT ![c] = "closed"]
  /\ shout' = [shout EXCEPT ![c] = {r \in mine[c] : rooms'[r] # {}}]
  /\ reader' = [reader EXCEPT ![c] = "left"]
  /\ UNCHANGED <<sock, writer, mine, buf, closeVars>>

\* readPump ends with the connection closed.
ReaderDone(c) ==
  /\ reader[c] = "left" /\ shout[c] = {}
  /\ reader' = [reader EXCEPT ![c] = "done"]
  /\ sock' = [sock EXCEPT ![c] = "closed"]
  /\ UNCHANGED <<writer, mapVars, sendVars, shout, closeVars>>

\* writePump writes one message.
Write(c) ==
  /\ writer[c] = "run" /\ sock[c] = "open" /\ buf[c] > 0
  /\ buf' = [buf EXCEPT ![c] = @ - 1]
  /\ UNCHANGED <<netVars, mapVars, chan, shout, closeVars>>

\* A writePump that leaves the connection to its reader.
WriterDone_KeepsConn(c) ==
  /\ writer[c] = "run"
  /\ writer' = [writer EXCEPT ![c] = "done"]
  /\ UNCHANGED <<sock, reader, mapVars, sendVars, shout, closeVars>>

\* writePump ends, on a closed channel or a write or ping that fails or times
\* out, and closes the connection.
WriterDone(c) ==
  /\ writer[c] = "run"
  /\ writer' = [writer EXCEPT ![c] = "done"]
  /\ sock' = [sock EXCEPT ![c] = "closed"]
  /\ UNCHANGED <<reader, mapVars, sendVars, shout, closeVars>>

-----------------------------------------------------------------------------
(* Events from the bridge *)

BroadcastAll ==
  /\ buf' = Send(clients)
  /\ UNCHANGED <<netVars, mapVars, chan, shout, closeVars>>

SendToPlayer(p) ==
  /\ buf' = Send(byPlayer[p])
  /\ UNCHANGED <<netVars, mapVars, chan, shout, closeVars>>

-----------------------------------------------------------------------------
(* Shutdown *)

\* CloseAll: the clients of now are sent a close frame.
CloseAll ==
  /\ closing = "no"
  /\ closing' = "polling" /\ snap' = clients
  /\ UNCHANGED <<netVars, mapVars, sendVars, shout>>

\* The poll finds the hub empty.
CloseAllReturns ==
  /\ closing = "polling" /\ clients = {}
  /\ closing' = "returned"
  /\ UNCHANGED <<netVars, mapVars, sendVars, shout, snap>>

\* The context is done first: the connections of the snapshot are closed.
CloseAllForces ==
  /\ closing = "polling" /\ clients # {}
  /\ closing' = "forced"
  /\ sock' = [c \in Conns |-> IF c \in snap THEN "closed" ELSE sock[c]]
  /\ UNCHANGED <<reader, writer, mapVars, sendVars, shout, snap>>

-----------------------------------------------------------------------------
ReadPump(c) == Unregister(c) \/ ReaderDone(c) \/ \E r \in Rooms : Shout(c, r)

Next ==
  \/ \E c \in Conns :
       \/ Accept(c) \/ Register(c) \/ UpgradeError(c) \/ PeerClose(c)
       \/ ReadPump(c) \/ Write(c) \/ WriterDone(c)
  \/ \E c \in Conns, r \in Rooms : Join(c, r) \/ Leave(c, r)
  \/ BroadcastAll
  \/ \E p \in Players : SendToPlayer(p)
  \/ CloseAll \/ CloseAllReturns \/ CloseAllForces

Spec == Init /\ [][Next]_vars

\* Readers run; a writer whose channel or connection is closed finds out by its
\* next message or ping.
Fairness ==
  \A c \in Conns :
    /\ WF_vars(ReadPump(c))
    /\ WF_vars((chan[c] = "closed" \/ sock[c] = "closed") /\ WriterDone(c))

FairSpec == Spec /\ Fairness

-----------------------------------------------------------------------------
(* What the hub promises *)

\* The maps agree with one another, and a closed channel is in none of them: no
\* broadcast, under the read lock alone, can send on a closed channel and panic.
\* Every variable keeps its type; no buffer overflows.
MapsAgree ==
  /\ TypeOK
  /\ \A c \in Conns : c \in clients <=> chan[c] = "open"
  /\ \A c \in Conns, p \in Players : c \in byPlayer[p] <=> c \in clients /\ Owner[c] = p
  /\ \A c \in Conns, r \in Rooms : c \in rooms[r] <=> c \in clients /\ r \in mine[c]

\* When either pump of a connection ends, both do and the hub forgets it.
PumpsEndTogether ==
  \A c \in Conns :
    (reader[c] = "left" \/ writer[c] = "done")
      ~> (reader[c] = "done" /\ writer[c] = "done" /\ c \notin clients)

-----------------------------------------------------------------------------
(* A sentence of the documentation that the code does not keep *)

\* hub.go: "connections still open then are closed outright".
ForcedClosesAll ==
  [][CloseAllForces => \A c \in clients : sock'[c] = "closed"]_vars
=============================================================================
