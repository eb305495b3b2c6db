------------------------------ MODULE Sessions ------------------------------
(***************************************************************************)
(* One login session (sessions are independent: one Redis key per JWT id): *)
(* login and logout (internal/player/service.go), a gateway replica that   *)
(* checks it on every request through its cached store                     *)
(* (internal/player/session.go, pkg/middleware Auth; the caches of several *)
(* replicas do not interact), and the WebSocket replicas that check it at  *)
(* the handshake, on the logout event and on every sweep                   *)
(* (internal/wsgateway/handler.go, bridge.go, sweep.go).                   *)
(*                                                                         *)
(* A clock tick is the grain in which CacheTTL and the latency of Redis    *)
(* are counted.  Login and logout may reach the replica whose cache is     *)
(* modelled, or another one.  Errors of Redis or of the event bus, missed  *)
(* events and failed upgrades take MaxFaults.                              *)
(***************************************************************************)
EXTENDS Naturals

CONSTANTS
  Requests,    \* requests the gateway can be checking at once
  Sockets,     \* WebSocket replicas
  Conns,       \* connections, each opened at most once
  Home,        \* Home[c]: the replica c lands on
  CacheTTL,    \* lifetime of a cached verdict, in ticks
  Latency,     \* longest EXISTS of a gateway, in ticks
  MaxFaults    \* bound on faults

ASSUME SessionsAssumption ==
  /\ Home \in [Conns -> Sockets]
  /\ CacheTTL \in Nat \ {0} /\ Latency \in Nat /\ MaxFaults \in Nat

VARIABLES
  token,    \* the JWT: not issued, valid or expired
  key,      \* session:{jti} exists in Redis
  logout,   \* how far the logout has come
  since,    \* ticks since the session was deleted, up to Window
  cache,    \* verdict cached by the gateway
  left,     \* ticks that verdict is trusted for
  check,    \* check[q]: the Exists of request q, which missed the cache
  wait,     \* wait[q]: ticks since it was sent
  conn,     \* conn[c]: the connection and its handshake
  events,   \* replicas that will receive SessionRevoked
  sweep,    \* sweep[w]: connections of which w is about to read the sessions
  faults    \* faults so far

loginVars == <<token, key, logout, since>>
gateVars == <<cache, left, check, wait>>
sockVars == <<conn, events, sweep>>
vars == <<token, key, logout, since, cache, left, check, wait, conn, events, sweep, faults>>

Window == CacheTTL + Latency
Verdicts == {"none", "yes", "no"}

TypeOK ==
  /\ token \in {"none", "valid", "expired"}
  /\ key \in BOOLEAN
  /\ logout \in {"none", "evicted", "deleted", "done"}
  /\ since \in 0..Window
  /\ cache \in Verdicts
  /\ left \in 0..CacheTTL
  /\ check \in [Requests -> Verdicts \cup {"sent"}]
  /\ wait \in [Requests -> 0..Latency]
  /\ conn \in [Conns -> {"none", "checked", "open", "closing", "closed"}]
  /\ events \in SUBSET Sockets
  /\ sweep \in [Sockets -> SUBSET Conns]
  /\ faults \in 0..MaxFaults

Init ==
  /\ token = "none" /\ key = FALSE /\ logout = "none" /\ since = 0
  /\ cache = "none" /\ left = 0
  /\ check = [q \in Requests |-> "none"] /\ wait = [q \in Requests |-> 0]
  /\ conn = [c \in Conns |-> "none"]
  /\ events = {} /\ sweep = [w \in Sockets |-> {}]
  /\ faults = 0

Fault == faults < MaxFaults /\ faults' = faults + 1

Revoked == logout \in {"deleted", "done"}

\* cachedSessionStore.set.
CacheSet(verdict) == cache' = verdict /\ left' = CacheTTL

-----------------------------------------------------------------------------
(* Login and logout *)

\* Login: the token is issued also when Save fails; if this gateway's store saves
\* the session, it seeds the cache.
Login ==
  /\ token = "none"
  /\ token' = "valid"
  /\ \/ /\ key' = TRUE /\ UNCHANGED faults
        /\ CacheSet("yes") \/ UNCHANGED <<cache, left>>
     \/ key' = FALSE /\ Fault /\ UNCHANGED <<cache, left>>
  /\ UNCHANGED <<logout, since, check, wait, sockVars>>

\* cachedSessionStore.Delete of this gateway, the eviction.
Evict ==
  /\ token # "none" /\ logout \in {"none", "evicted"}
  /\ logout' = "evicted"
  /\ cache' = "none"
  /\ UNCHANGED <<token, key, since, left, check, wait, sockVars, faults>>

\* Logout, DEL in Redis; an error is returned and the caller may try again.
Delete ==
  /\ token # "none"
  /\ logout \in {"none", "evicted"}
  /\ logout' = "deleted" /\ key' = FALSE
  /\ UNCHANGED <<token, since, gateVars, sockVars, faults>>

\* Logout, the SessionRevoked event; its failure is logged.
Announce ==
  /\ logout = "deleted"
  /\ logout' = "done"
  /\ \/ events' = Sockets /\ UNCHANGED faults
     \/ events' = {} /\ Fault
  /\ UNCHANGED <<token, key, since, gateVars, conn, sweep>>

\* The JWT expires ...
ExpireToken ==
  /\ token = "valid"
  /\ token' = "expired"
  /\ UNCHANGED <<key, logout, since, gateVars, sockVars, faults>>

\* A session saved for a shorter time than its token lives.
ExpireKey_Early ==
  /\ token # "none" /\ key
  /\ key' = FALSE
  /\ UNCHANGED <<token, logout, since, gateVars, sockVars, faults>>

\* ... and after it the key, which was saved later with the same lifetime.
ExpireKey ==
  /\ token = "expired" /\ key
  /\ key' = FALSE
  /\ UNCHANGED <<token, logout, since, gateVars, sockVars, faults>>

-----------------------------------------------------------------------------
(* The gateway *)

\* A request that misses the cache sends EXISTS.
Ask(q) ==
  /\ token = "valid" /\ cache = "none"
  /\ check[q] = "none"
  /\ check' = [check EXCEPT ![q] = "sent"]
  /\ UNCHANGED <<loginVars, cache, left, wait, sockVars, faults>>

\* Redis carries it out.
Read(q) ==
  /\ check[q] = "sent"
  /\ check' = [check EXCEPT ![q] = IF key THEN "yes" ELSE "no"]
  /\ UNCHANGED <<loginVars, cache, left, wait, sockVars, faults>>

\* The answer is cached from the time it arrives on.
Answer(q) ==
  /\ check[q] \in {"yes", "no"}
  /\ CacheSet(check[q])
  /\ check' = [check EXCEPT ![q] = "none"] /\ wait' = [wait EXCEPT ![q] = 0]
  /\ UNCHANGED <<loginVars, sockVars, faults>>

\* A gateway that lets requests through when Redis fails, and remembers it.
AskError_FailsOpen(q) ==
  /\ check[q] # "none"
  /\ Fault
  /\ CacheSet("yes")
  /\ check' = [check EXCEPT ![q] = "none"] /\ wait' = [wait EXCEPT ![q] = 0]
  /\ UNCHANGED <<loginVars, sockVars>>

\* An error fails the request and is not cached.
AskError(q) ==
  /\ check[q] # "none"
  /\ Fault
  /\ check' = [check EXCEPT ![q] = "none"] /\ wait' = [wait EXCEPT ![q] = 0]
  /\ UNCHANGED <<loginVars, cache, left, sockVars>>

\* Time passes; get no longer serves, and the janitor drops, a stale verdict.
Tick ==
  /\ \A q \in Requests : check[q] # "none" => wait[q] < Latency
  /\ since' = IF Revoked /\ since < Window THEN since + 1 ELSE since
  /\ left' = IF left > 0 THEN left - 1 ELSE 0
  /\ cache' = IF left <= 1 THEN "none" ELSE cache
  /\ wait' = [q \in Requests |-> IF check[q] = "none" THEN 0 ELSE wait[q] + 1]
  /\ UNCHANGED <<token, key, logout, check, sockVars, faults>>

-----------------------------------------------------------------------------
(* WebSocket replicas *)

Held(w) == {c \in Conns : Home[c] = w /\ conn[c] = "open"}

\* closeWith: the close frame now, the connection itself within a second.
CloseWith(S) == [c \in Conns |-> IF c \in S THEN "closing" ELSE conn[c]]

\* serveWS up to the session check, made against Redis itself.
Handshake(c) ==
  /\ token = "valid" /\ key
  /\ conn[c] = "none"
  /\ conn' = [conn EXCEPT ![c] = "checked"]
  /\ UNCHANGED <<loginVars, gateVars, events, sweep, faults>>

\* serveWS from the upgrade on.
Upgrade(c) ==
  /\ conn[c] = "checked"
  /\ \/ conn' = [conn EXCEPT ![c] = "open"] /\ UNCHANGED faults
     \/ conn' = [conn EXCEPT ![c] = "closed"] /\ Fault
  /\ UNCHANGED <<loginVars, gateVars, events, sweep>>

\* readPump returns and unregisters, be it the client's or the server's doing.
Unregister(c) ==
  /\ conn[c] \in {"open", "closing"}
  /\ conn' = [conn EXCEPT ![c] = "closed"]
  /\ UNCHANGED <<loginVars, gateVars, events, sweep, faults>>

\* dispatch of SessionRevoked: CloseSession.
Dispatch(w) ==
  /\ w \in events
  /\ events' = events \ {w}
  /\ conn' = CloseWith(Held(w))
  /\ UNCHANGED <<loginVars, gateVars, sweep, faults>>

\* A replica whose consumer misses the event.
MissEvent(w) ==
  /\ w \in events
  /\ Fault
  /\ events' = events \ {w}
  /\ UNCHANGED <<loginVars, gateVars, conn, sweep>>

\* A sweep that trusts the expiry checked at the handshake.
SweepClients_KeepsExpired(w) ==
  /\ sweep[w] = {} /\ Held(w) # {}
  /\ sweep' = [sweep EXCEPT ![w] = Held(w)]
  /\ UNCHANGED <<loginVars, gateVars, conn, events, faults>>

\* sweepSessions: expired tokens are closed at once, the others looked up.
SweepClients(w) ==
  /\ sweep[w] = {} /\ Held(w) # {}
  /\ IF token = "expired"
     THEN conn' = CloseWith(Held(w)) /\ UNCHANGED sweep
     ELSE sweep' = [sweep EXCEPT ![w] = Held(w)] /\ UNCHANGED conn
  /\ UNCHANGED <<loginVars, gateVars, events, faults>>

\* ExistsMany, and the connections of the snapshot it finds no session for.
SweepSessions(w) ==
  /\ sweep[w] # {}
  /\ sweep' = [sweep EXCEPT ![w] = {}]
  /\ conn' = IF key THEN conn ELSE CloseWith(sweep[w] \cap Held(w))
  /\ UNCHANGED <<loginVars, gateVars, events, faults>>

\* ExistsMany fails: the sweep keeps every connection.
SweepError(w) ==
  /\ sweep[w] # {}
  /\ Fault
  /\ sweep' = [sweep EXCEPT ![w] = {}]
  /\ UNCHANGED <<loginVars, gateVars, conn, events>>

-----------------------------------------------------------------------------
Logout == Evict \/ Delete \/ Announce
Request(q) == Read(q) \/ Answer(q)
Socket(w) == Dispatch(w) \/ SweepClients(w) \/ SweepSessions(w)

Next ==
  \/ Login
  \/ Logout
  \/ ExpireToken \/ ExpireKey
  \/ Tick
  \/ \E q \in Requests : Ask(q) \/ Request(q) \/ AskError(q)
  \/ \E c \in Conns : Handshake(c) \/ Upgrade(c) \/ Unregister(c)
  \/ \E w \in Sockets : Socket(w) \/ MissEvent(w) \/ SweepError(w)

Spec == Init /\ [][Next]_vars

\* Sweeps go on, a handshake and a closing connection come to their end.
Fairness ==
  /\ \A w \in Sockets : WF_vars(SweepClients(w)) /\ WF_vars(SweepSessions(w))
  /\ \A c \in Conns : WF_vars(Upgrade(c)) /\ WF_vars(conn[c] = "closing" /\ Unregister(c))

FairSpec == Spec /\ Fairness

-----------------------------------------------------------------------------
(* What sessions promise *)

\* A gateway serves a revoked session from its cache no longer than the cache's
\* lifetime and the latency of the lookup that filled it, however many lookups
\* raced the logout and in whatever order their answers came.
\* Every variable keeps its type.
RevocationBounded ==
  /\ TypeOK
  /\ since = Window => cache # "yes" /\ \A q \in Requests : check[q] # "yes"

\* While nothing fails, no request of a live session is turned away.
NoFalseReject ==
  token = "valid" /\ logout = "none" /\ faults = 0 =>
    cache # "no" /\ \A q \in Requests : check[q] # "no"

\* sweep.go: a connection whose session was revoked or whose token expired is
\* closed, though the logout event was missed, sweeps failed, or the handshake
\* had checked the session before it was deleted.
RevokedConnectionsClose ==
  \A c \in Conns :
    (conn[c] = "open" /\ (Revoked \/ token = "expired")) ~> conn[c] = "closed"

-----------------------------------------------------------------------------
(* Sentences of the documentation that the code does not keep *)

\* session.go: "a logout served by the same replica revokes at once".
LocalLogoutAtOnce ==
  [][logout = "evicted" /\ logout' = "deleted" => cache' # "yes"]_vars

\* service.go: "Session caching is best-effort: a Redis blip must not block
\* logins": a token that was handed out is not turned away.
LoginUsable ==
  token = "valid" /\ logout = "none" => cache # "no"
=============================================================================
