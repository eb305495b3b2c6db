------------------------------ MODULE Gateway -------------------------------
(***************************************************************************)
(* The requests of the gateway: the middleware chain of NewEngine, the     *)
(* rate limiter added after it, Auth on the protected routes, and the      *)
(* reverse proxy with its error handler.  What a request shares with the   *)
(* others is the rate limiter (RateLimit) and the sessions.                *)
(*                                                                         *)
(* The steps are those between which a handler waits: for the session      *)
(* store, for the upstream, for the end of the body.  In each of them the  *)
(* client may close its connection, which cancels the request's context.   *)
(***************************************************************************)
EXTENDS RateLimit

CONSTANTS
  Slots,     \* requests the gateway serves at the same time
  Players,   \* whom a token can be for
  NoOne      \* no identity

\* What RegisterRoutes and NewEngine tell apart.  A probe is /livez, /readyz,
\* /healthz or /metrics; unmatched is a path without a route.
Routes == {"probe", "health", "public", "protected", "ws", "unmatched"}

\* "none" is a request without a bearer token, "bad" one Validate refuses.
Bearers == Players \cup {"none", "bad"}

\* Status 0 stands for none.
Statuses == {0, 101, 200, 204, 400, 401, 404, 429, 499, 500, 502, 503}

\* Whose failure ended a request, if it failed: for the properties only.
Causes == {"none", "client", "server"}

\* requests_total, errors_total, and the access log.
Telemetry == {"requests", "errors", "log"}

VARIABLES
  request,   \* request[r]: the gin context of the request in slot r
  live       \* players whose session the checker takes for active

gatewayVars == <<vars, request, live>>

Idle == [stage |-> "idle", route |-> "unmatched", bearer |-> "none",
         header |-> NoOne, user |-> NoOne, seen |-> FALSE, gone |-> FALSE,
         status |-> 0, cause |-> "none", written |-> {}]

Contexts ==
  [stage : {"idle", "auth", "proxy", "upstream", "body", "session", "done",
            "aborted"},
   route : Routes, bearer : Bearers, header : Players \cup {NoOne},
   user : Players \cup {NoOne}, seen : BOOLEAN, gone : BOOLEAN,
   status : Statuses, cause : Causes, written : SUBSET Telemetry]

GatewayTypeOK ==
  /\ TypeOK
  /\ live \subseteq Players
  /\ request \in [Slots -> Contexts]

GatewayInit ==
  /\ Init
  /\ request = [r \in Slots |-> Idle]
  /\ live = {}

\* IsTelemetryExcluded: the internal probes and the public smoke check.
Excluded(route) == route \in {"probe", "health"}

\* Metrics counting as errors all answers that are not a success.
Written_AnyFailure(route, status) ==
  (IF Excluded(route) THEN {} ELSE {"requests", "log"})
  \cup (IF ~Excluded(route) /\ status >= 400 THEN {"errors"} ELSE {})
  \cup (IF status >= 400 THEN {"log"} ELSE {})

\* What Metrics and Logger write when the handlers have returned.  Errors are
\* the answers of 500 and more; an excluded path is not counted, and logged
\* only when it fails.  A hijacked connection has the status 101.
Written(route, status) ==
  (IF Excluded(route) THEN {} ELSE {"requests", "log"})
  \cup (IF ~Excluded(route) /\ status >= 500 THEN {"errors"} ELSE {})
  \cup (IF status >= 400 THEN {"log"} ELSE {})

Finished(q, status, cause) ==
  [Idle EXCEPT !.stage = "done", !.route = q.route, !.status = status,
               !.cause = cause, !.written = Written(q.route, status)]

Answer(r, status, cause) ==
  request' = [request EXCEPT ![r] = Finished(@, status, cause)]

-----------------------------------------------------------------------------
(* The chain before the handler *)

\* A request as it comes in, with the identity header the client wrote.
Incoming(route, bearer, header) ==
  [Idle EXCEPT !.route = route, !.bearer = bearer, !.header = header,
               !.seen = bearer \in live]

\* CORS answers OPTIONS, before the limiter sees it.
Preflight(r) ==
  /\ request[r].stage = "idle"
  /\ \E route \in Routes :
       request' = [request EXCEPT
         ![r] = Finished(Incoming(route, "none", NoOne), 204, "none")]
  /\ UNCHANGED <<vars, live>>

\* The internal probes are not limited; their handler is the health check.
Probe(r) ==
  /\ request[r].stage = "idle"
  /\ \E status \in {200, 503} :
       request' = [request EXCEPT
         ![r] = Finished(Incoming("probe", "none", NoOne), status,
                         IF status = 503 THEN "server" ELSE "none")]
  /\ UNCHANGED <<vars, live>>

\* RateLimit answers 429.
Limited(r) ==
  /\ request[r].stage = "idle"
  /\ \E i \in IPs : Reject(i)
  /\ \E route \in Routes \ {"probe"} :
       request' = [request EXCEPT
         ![r] = Finished(Incoming(route, "none", NoOne), 429, "client")]
  /\ UNCHANGED live

\* RateLimit lets the request through to the handlers of its route.
Enter(r) ==
  /\ request[r].stage = "idle"
  /\ \E i \in IPs : Admit(i)
  /\ \E route \in Routes \ {"probe"}, bearer \in Bearers,
        header \in Players \cup {NoOne} :
       LET q == Incoming(route, bearer, header) IN
       request' = [request EXCEPT ![r] =
         CASE route = "health" -> Finished(q, 200, "none")
           [] route = "unmatched" -> Finished(q, 404, "client")
           [] route = "protected" -> [q EXCEPT !.stage = "auth"]
           [] OTHER -> [q EXCEPT !.stage = "proxy"]]
  /\ UNCHANGED live

-----------------------------------------------------------------------------
(* Auth *)

\* No bearer token, one Validate refuses, or one whose session is no more.
Unauthorized(r) ==
  /\ request[r].stage = "auth" /\ request[r].bearer \notin live
  /\ Answer(r, 401, "client")
  /\ UNCHANGED <<vars, live>>

\* The session check fails: the store does, or the context it was given, the
\* request's, is cancelled because the client has gone.
CheckFails(r) ==
  /\ request[r].stage = "auth" /\ request[r].bearer \in Players
  /\ Answer(r, 503, IF request[r].gone THEN "client" ELSE "server")
  /\ UNCHANGED <<vars, live>>

\* Auth that goes by the signature alone.
Authenticated_SignatureOnly(r) ==
  /\ request[r].stage = "auth" /\ request[r].bearer \in Players
  /\ request' = [request EXCEPT ![r].user = request[r].bearer,
                                ![r].stage = "proxy"]
  /\ UNCHANGED <<vars, live>>

\* The token is valid and its session active: the identity is in the context.
Authenticated(r) ==
  /\ request[r].stage = "auth" /\ request[r].bearer \in live
  /\ request' = [request EXCEPT ![r].user = request[r].bearer,
                                ![r].stage = "proxy"]
  /\ UNCHANGED <<vars, live>>

-----------------------------------------------------------------------------
(* The reverse proxy *)

\* The client's identity headers are dropped, those of the context set, and
\* the request goes to the upstream of its route.
Forward(r) ==
  LET q == request[r] IN
  /\ q.stage = "proxy"
  /\ request' = [request EXCEPT ![r].stage = "upstream", ![r].header = q.user]
  /\ UNCHANGED <<vars, live>>

\* The upstream answers, and its body follows.
Reply(r) ==
  /\ request[r].stage = "upstream"
  /\ \E status \in {200, 400, 500} :
       request' = [request EXCEPT
         ![r] = [request[r] EXCEPT !.stage = "body", !.status = status]]
  /\ UNCHANGED <<vars, live>>

\* The upstream switches protocols: the proxy hijacks the connection.
Upgrade(r) ==
  /\ request[r].stage = "upstream" /\ request[r].route = "ws"
  /\ request' = [request EXCEPT ![r].stage = "session"]
  /\ UNCHANGED <<vars, live>>

\* The error handler, for an upstream that failed.
BadGateway(r) ==
  /\ request[r].stage = "upstream"
  /\ Answer(r, 502, "server")
  /\ UNCHANGED <<vars, live>>

\* The error handler, for a client that gave up.
ClientClosed(r) ==
  /\ request[r].stage = "upstream" /\ request[r].gone
  /\ Answer(r, 499, "client")
  /\ UNCHANGED <<vars, live>>

\* The whole body is copied, and the answer is the upstream's.
Copied(r) ==
  LET status == request[r].status IN
  /\ request[r].stage = "body"
  /\ Answer(r, status, CASE status = 500 -> "server"
                         [] status = 400 -> "client"
                         [] OTHER -> "none")
  /\ UNCHANGED <<vars, live>>

\* The copy fails, because either end went away: ReverseProxy panics and
\* Recovery catches it outside of Metrics and Logger, which do not resume.
CopyAborts(r) ==
  /\ request[r].stage = "body"
  /\ request' = [request EXCEPT ![r] =
       [Idle EXCEPT !.stage = "aborted", !.route = request[r].route,
          !.cause = IF request[r].gone THEN "client" ELSE "server"]]
  /\ UNCHANGED <<vars, live>>

\* The WebSocket session ends, and the handler returns.
SessionEnds(r) ==
  /\ request[r].stage = "session"
  /\ Answer(r, 101, "none")
  /\ UNCHANGED <<vars, live>>

-----------------------------------------------------------------------------
(* The world around the request *)

\* The client closes the connection, which cancels the request's context.
GiveUp(r) ==
  /\ request[r].stage \in {"auth", "proxy", "upstream", "body"}
  /\ ~request[r].gone
  /\ request' = [request EXCEPT ![r].gone = TRUE]
  /\ UNCHANGED <<vars, live>>

\* The connection takes its next request.
Reuse(r) ==
  /\ request[r].stage \in {"done", "aborted"}
  /\ request' = [request EXCEPT ![r] = Idle]
  /\ UNCHANGED <<vars, live>>

\* A session ends or begins, for the checker: when it takes notice of a
\* logout, behind its cache, is the subject of Sessions.
LogOut(p) ==
  /\ live' = live \ {p}
  /\ UNCHANGED <<vars, request>>

LogIn(p) ==
  /\ live' = live \cup {p}
  /\ request' = [r \in Slots |-> [request[r] EXCEPT !.seen = @ \/
                   request[r].bearer = p]]
  /\ UNCHANGED vars

\* The clock, the janitor and the observer of RateLimit.
LimiterStep ==
  /\ Tick \/ Janitor \/ Window
  /\ UNCHANGED <<request, live>>

GatewayNext ==
  \/ \E r \in Slots :
       \/ Preflight(r) \/ Probe(r) \/ Limited(r) \/ Enter(r)
       \/ Unauthorized(r) \/ CheckFails(r) \/ Authenticated(r)
       \/ Forward(r) \/ Reply(r) \/ Upgrade(r) \/ BadGateway(r)
       \/ ClientClosed(r) \/ Copied(r) \/ CopyAborts(r) \/ SessionEnds(r)
       \/ GiveUp(r) \/ Reuse(r)
  \/ \E p \in Players : LogIn(p) \/ LogOut(p)
  \/ LimiterStep

GatewaySpec == GatewayInit /\ [][GatewayNext]_gatewayVars

-----------------------------------------------------------------------------
(* What the gateway promises *)

\* "The authenticated identity travels on X-User-ID" (proxy.go), and "a
\* logged-out token is rejected at the gateway before reaching any upstream"
\* (Auth): whatever the client wrote into the header, an upstream sees an
\* identity on protected routes only, it is the one of the token, and the
\* session was active at some moment after the request had come.
IdentityVerified ==
  /\ GatewayTypeOK
  /\ \A r \in Slots :
       LET q == request[r] IN
       q.stage \in {"upstream", "body", "session"} =>
         IF q.route = "protected" THEN q.header = q.bearer /\ q.seen
                                  ELSE q.header = NoOne

\* "Errors are the server's failures" (Metrics): of the requests that ended in
\* an answer, the error counter has those that failed through the session store
\* or an upstream, and neither the clients' mistakes nor clients that gave up,
\* unless they did so during the session check.  All but the excluded paths are
\* counted and logged, and these are logged when they fail.
ErrorsAreTheServers ==
  \A r \in Slots :
    LET q == request[r] IN
    q.stage = "done" =>
      IF Excluded(q.route)
      THEN /\ q.written \subseteq {"log"}
           /\ q.cause = "server" => q.written = {"log"}
      ELSE /\ {"requests", "log"} \subseteq q.written
           /\ "errors" \in q.written <=> q.cause = "server" \/ q.status = 503

\* Sentences of the code that do not hold.  "Logger emits one structured log
\* line per request": not for one whose body could not be copied to its end,
\* which Metrics does not count either.
LoggedOnce ==
  \A r \in Slots : request[r].stage = "aborted" => "log" \in request[r].written

\* "Errors are the server's failures": a client that gives up during the
\* session check is one of them.
NoClientErrors ==
  \A r \in Slots : "errors" \in request[r].written => request[r].cause = "server"
=============================================================================
