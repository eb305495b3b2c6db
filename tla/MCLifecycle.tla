---------------------------- MODULE MCLifecycle -----------------------------
(* The deployed binaries with their timeouts in seconds, as an instance of Lifecycle. *)
EXTENDS Lifecycle

CONSTANTS r1, h1, w1, w2

OneRequest == {r1}

Deployed == {"gateway", "player", "presence", "matchmaking", "websocket", "relay"}

\* what run connects to: database.Open, NewNATSBus with EVENT_BUS=nats
Connections ==
  [b \in Deployed |->
     CASE b = "gateway" -> <<>>
       [] b = "player" -> <<"postgres">>
       [] b = "relay" -> <<"postgres", "nats", "streams">>
       [] OTHER -> <<"nats", "streams">>]

\* the arguments of Validate
Validated ==
  [b \in Deployed |->
     CASE b \in {"gateway", "websocket"} -> {"jwt", "redis"}
       [] b = "player" -> {"jwt", "postgres", "redis"}
       [] b = "relay" -> {"postgres"}
       [] OTHER -> {"redis"}]

Environments == {{}, {"jwt", "postgres"}}

\* connect_timeout, nats.Connect's default, the context of the streams
Attempts ==
  [d \in {"postgres", "nats", "streams"} |->
     CASE d = "postgres" -> 5 [] d = "nats" -> 2 [] d = "streams" -> 10]

Hooked == [b \in Deployed |-> IF b = "websocket" THEN {h1} ELSE {}]

Working ==
  [b \in Deployed |->
     CASE b = "websocket" -> {w1, w2}
       [] b \in {"matchmaking", "relay"} -> {w1}
       [] OTHER -> {}]
=============================================================================
