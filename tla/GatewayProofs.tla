--------------------------- MODULE GatewayProofs ----------------------------
(***************************************************************************)
(* The rate limiter's bounds for every rate, burst, idle limit and set of  *)
(* clients, and the gateway's promises for every number of requests,       *)
(* players and addresses: the pipeline drives the rate limiter only by the *)
(* limiter's own steps, so the limiter's bounds hold of the whole; an      *)
(* upstream only ever sees a verified identity; and the error counter      *)
(* blames the server alone, but for the session check.                     *)
(***************************************************************************)
EXTENDS Gateway, TLAPS

-----------------------------------------------------------------------------
(* The limiter: RateLimit *)

\* Inductive: what a client has spent and could spend now is within the window's
\* allowance, an idle bucket has been refilled, and idleness is bounded by the
\* janitor's phase.  Forgetting a bucket then leaves the first conjunct alone,
\* for a forgotten bucket was full.
RateInv ==
  /\ TypeOK
  /\ \A i \in IPs : spent[i] + Level(i) <= Burst + earned
  /\ \A i \in known : tokens[i] = Burst \/ Rate * idle[i] <= tokens[i]
  /\ \A i \in known : idle[i] <= IdleLimit + phase

\* A bucket idle for more than the limit would have gained a whole burst.
LEMMA IdleIsFull ==
  ASSUME NEW n \in Nat, n > IdleLimit
  PROVE  Burst <= Rate * n
<1>1. PICK k \in Nat : n = IdleLimit + k
  <2>1. n - IdleLimit \in Nat /\ n = IdleLimit + (n - IdleLimit)
    BY RateAssumption
  <2> QED
    BY <2>1
<1>2. Rate * n = Rate * IdleLimit + Rate * k
  BY <1>1, RateAssumption
<1>3. Rate * k \in Nat /\ Rate * IdleLimit \in Nat
  BY RateAssumption
<1> QED
  BY <1>2, <1>3, RateAssumption

\* The limiter starts with no buckets and nothing spent.
LEMMA InitInv == Init => RateInv
BY RateAssumption DEF Init, RateInv, TypeOK, Level

\* Requests, the clock, the janitor and the observer keep the invariant.
LEMMA NextInv == RateInv /\ [Next]_vars => RateInv'
<1> SUFFICES ASSUME RateInv, [Next]_vars PROVE RateInv'
  OBVIOUS
<1> USE RateAssumption
<1>1. ASSUME NEW i \in IPs, Admit(i) PROVE RateInv'
  <2>1. Level(i) \in 0..Burst
    BY DEF RateInv, TypeOK, Level
  <2>2. /\ known' = known \cup {i} /\ tokens' = [tokens EXCEPT ![i] = Level(i) - Cost]
        /\ idle' = [idle EXCEPT ![i] = 0] /\ spent' = [spent EXCEPT ![i] = @ + Cost]
        /\ phase' = phase /\ earned' = earned /\ Level(i) >= Cost
    BY <1>1 DEF Admit, Get
  <2>3. TypeOK'
    BY <2>1, <2>2 DEF RateInv, TypeOK
  <2>4. \A j \in IPs : spent'[j] + Level(j)' <= Burst + earned'
    <3> SUFFICES ASSUME NEW j \in IPs PROVE spent'[j] + Level(j)' <= Burst + earned'
      OBVIOUS
    <3>1. CASE j = i
      BY <3>1, <2>1, <2>2 DEF RateInv, TypeOK, Level
    <3>2. CASE j # i
      BY <3>2, <2>2 DEF RateInv, TypeOK, Level
    <3> QED
      BY <3>1, <3>2
  <2>5. \A j \in known' : tokens'[j] = Burst \/ Rate * idle'[j] <= tokens'[j]
    <3> SUFFICES ASSUME NEW j \in known'
                 PROVE tokens'[j] = Burst \/ Rate * idle'[j] <= tokens'[j]
      OBVIOUS
    <3>1. CASE j = i
      <4>1. idle'[j] = 0 /\ tokens'[j] \in Nat
        BY <3>1, <2>1, <2>2 DEF RateInv, TypeOK
      <4>2. Rate * 0 = 0
        OBVIOUS
      <4> QED
        BY <4>1, <4>2
    <3>2. CASE j # i
      BY <3>2, <2>2 DEF RateInv, TypeOK
    <3> QED
      BY <3>1, <3>2
  <2>6. \A j \in known' : idle'[j] <= IdleLimit + phase'
    BY <2>2 DEF RateInv, TypeOK
  <2> QED
    BY <2>3, <2>4, <2>5, <2>6 DEF RateInv
<1>2. ASSUME NEW i \in IPs, Reject(i) PROVE RateInv'
  <2>1. Level(i) \in 0..Burst
    BY DEF RateInv, TypeOK, Level
  <2>2. /\ known' = known \cup {i} /\ tokens' = [tokens EXCEPT ![i] = Level(i)]
        /\ idle' = [idle EXCEPT ![i] = 0] /\ spent' = spent
        /\ phase' = phase /\ earned' = earned
    BY <1>2 DEF Reject, Get
  <2>3. TypeOK'
    BY <2>1, <2>2 DEF RateInv, TypeOK
  <2>4. \A j \in IPs : spent'[j] + Level(j)' <= Burst + earned'
    BY <2>1, <2>2 DEF RateInv, TypeOK, Level
  <2>5. \A j \in known' : tokens'[j] = Burst \/ Rate * idle'[j] <= tokens'[j]
    <3> SUFFICES ASSUME NEW j \in known'
                 PROVE tokens'[j] = Burst \/ Rate * idle'[j] <= tokens'[j]
      OBVIOUS
    <3>1. CASE j = i
      <4>1. idle'[j] = 0 /\ tokens'[j] \in Nat
        BY <3>1, <2>1, <2>2 DEF RateInv, TypeOK
      <4>2. Rate * 0 = 0
        OBVIOUS
      <4> QED
        BY <4>1, <4>2
    <3>2. CASE j # i
      BY <3>2, <2>2 DEF RateInv, TypeOK
    <3> QED
      BY <3>1, <3>2
  <2>6. \A j \in known' : idle'[j] <= IdleLimit + phase'
    BY <2>2 DEF RateInv, TypeOK
  <2> QED
    BY <2>3, <2>4, <2>5, <2>6 DEF RateInv
<1>3. CASE Tick
  <2>1. TypeOK'
    BY <1>3 DEF Tick, Refill, RateInv, TypeOK
  <2>2. \A i \in IPs : spent'[i] + Level(i)' <= Burst + earned'
    BY <1>3 DEF Tick, Refill, RateInv, TypeOK, Level
  <2>3. \A i \in known' : tokens'[i] = Burst \/ Rate * idle'[i] <= tokens'[i]
    <3> SUFFICES ASSUME NEW i \in known', tokens'[i] # Burst
                 PROVE Rate * idle'[i] <= tokens'[i]
      OBVIOUS
    <3>1. i \in known /\ i \in IPs /\ tokens[i] \in 0..Burst /\ idle[i] \in Nat
      BY <1>3 DEF Tick, RateInv, TypeOK
    <3>2. idle'[i] = idle[i] + 1 /\ tokens'[i] = tokens[i] + Rate /\ tokens[i] # Burst
      BY <3>1, <1>3 DEF Tick, Refill
    <3>3. Rate * idle[i] <= tokens[i]
      BY <3>1, <3>2 DEF RateInv
    <3>4. Rate * (idle[i] + 1) = Rate * idle[i] + Rate /\ Rate * idle[i] \in Nat
      BY <3>1
    <3> QED
      BY <3>1, <3>2, <3>3, <3>4
  <2>4. \A i \in known' : idle'[i] <= IdleLimit + phase'
    BY <1>3 DEF Tick, RateInv, TypeOK
  <2> QED
    BY <2>1, <2>2, <2>3, <2>4 DEF RateInv
<1>4. CASE Janitor
  <2>1. TypeOK'
    BY <1>4 DEF Janitor, RateInv, TypeOK
  <2>2. \A i \in IPs : Level(i)' = Level(i)
    <3> SUFFICES ASSUME NEW i \in known, i \notin known' PROVE tokens[i] = Burst
      BY <1>4 DEF Janitor, Level
    <3>1. i \in IPs /\ tokens[i] \in 0..Burst /\ idle[i] \in Nat /\ idle[i] > IdleLimit
      BY <1>4 DEF Janitor, RateInv, TypeOK
    <3>2. Burst <= Rate * idle[i]
      BY <3>1, IdleIsFull
    <3>3. tokens[i] = Burst \/ Rate * idle[i] <= tokens[i]
      BY DEF RateInv
    <3>4. Rate * idle[i] \in Nat
      BY <3>1
    <3> QED
      BY <3>1, <3>2, <3>3, <3>4
  <2>3. \A i \in IPs : spent'[i] + Level(i)' <= Burst + earned'
    BY <2>2, <1>4 DEF Janitor, RateInv
  <2>4. \A i \in known' : tokens'[i] = Burst \/ Rate * idle'[i] <= tokens'[i]
    BY <1>4 DEF Janitor, RateInv
  <2>5. \A i \in known' : idle'[i] <= IdleLimit + phase'
    BY <1>4 DEF Janitor, RateInv, TypeOK
  <2> QED
    BY <2>1, <2>3, <2>4, <2>5 DEF RateInv
<1>5. CASE Window
  BY <1>5 DEF Window, RateInv, TypeOK, Level
<1>6. CASE UNCHANGED vars
  BY <1>6 DEF vars, RateInv, TypeOK, Level
<1> QED
  BY <1>1, <1>2, <1>3, <1>4, <1>5, <1>6 DEF Next

\* The invariant holds of every behaviour.
LEMMA Invariance == Spec => []RateInv
BY InitInv, NextInv, PTL DEF Spec

\* Every field of the limiter stays in its type; no bucket overflows or is
\* overdrawn.
THEOREM LimiterTyped == Spec => []TypeOK
<1>1. RateInv => TypeOK
  BY DEF RateInv
<1> QED
  BY <1>1, Invariance, PTL

\* RateLimit: in any window a client gets at most a burst and what the rate
\* allows, provided an idle bucket has time to refill before it is forgotten.
THEOREM LimitHolds == Spec => []RateBounded
<1>1. RateInv => RateBounded
  <2> SUFFICES ASSUME RateInv, NEW i \in IPs PROVE spent[i] <= Burst + earned
    BY Zenon DEF RateBounded
  <2>1. Level(i) \in Nat /\ spent[i] \in Nat /\ earned \in Nat
    BY RateAssumption DEF RateInv, TypeOK, Level
  <2>2. spent[i] + Level(i) <= Burst + earned
    BY DEF RateInv
  <2> QED
    BY <2>1, <2>2, RateAssumption
<1> QED
  BY <1>1, Invariance, PTL

\* janitor: no entry outlives the idle limit by more than the janitor's period.
THEOREM MemoryReclaimed == Spec => []IdleEvicted
<1>1. RateInv => IdleEvicted
  <2> SUFFICES ASSUME RateInv, NEW i \in known PROVE idle[i] <= IdleLimit + Period
    BY DEF IdleEvicted
  <2>1. idle[i] \in Nat /\ phase \in 0..Period /\ idle[i] <= IdleLimit + phase
    BY SMTT(20) DEF RateInv, TypeOK
  <2> QED
    BY <2>1, RateAssumption
<1> QED
  BY <1>1, Invariance, PTL

-----------------------------------------------------------------------------
(* The pipeline: Gateway *)

\* Inductive, for a request q while the sessions of s are live: what the chain
\* has established by the stage q is in.
Sound(q, s) ==
  /\ q \in Contexts
  /\ q.stage = "auth" => /\ q.route = "protected" /\ q.user = NoOne
                         /\ q.bearer \in s => q.seen
  /\ q.stage \in {"proxy", "upstream", "body", "session"} =>
       IF q.route = "protected" THEN q.user = q.bearer /\ q.seen
                                ELSE q.user = NoOne
  /\ q.stage \in {"upstream", "body", "session"} => q.header = q.user
  /\ q.stage \notin {"idle", "done", "aborted"} =>
       q.route \in {"public", "protected", "ws"}
  /\ q.stage = "body" => q.status \in {200, 400, 500}

\* What Metrics and Logger have written when a request is done.
Accounted(q) ==
  q.stage = "done" =>
    IF Excluded(q.route)
    THEN /\ q.written \subseteq {"log"}
         /\ q.cause = "server" => q.written = {"log"}
    ELSE /\ {"requests", "log"} \subseteq q.written
         /\ "errors" \in q.written <=> q.cause = "server" \/ q.status = 503

GatewayInv ==
  /\ live \subseteq Players
  /\ request \in [Slots -> Contexts]
  /\ \A r \in Slots : Sound(request[r], live) /\ Accounted(request[r])

\* Every step of the gateway is a step of the limiter, or leaves it alone.
LEMMA LimiterSteps == [GatewayNext]_gatewayVars => [Next]_vars
BY Zenon DEF GatewayNext, gatewayVars, Preflight, Probe, Limited, Enter, Unauthorized,
       CheckFails, Authenticated, Forward, Reply, Upgrade, BadGateway,
       ClientClosed, Copied, CopyAborts, SessionEnds, GiveUp, Reuse, LogIn,
       LogOut, LimiterStep, Next

\* The slot of a request is idle to begin with and after Reuse.
LEMMA IdleSound == ASSUME NEW s PROVE Sound(Idle, s) /\ Accounted(Idle)
BY DEF Idle, Sound, Accounted, Contexts, Routes, Bearers, Statuses, Causes, Telemetry

\* An idle context is of its type.
LEMMA IdleTyped == Idle \in Contexts
BY DEF Idle, Contexts, Routes, Bearers, Statuses, Causes, Telemetry

\* Finished: a request that ends in an answer is accounted for, if what it is
\* blamed for is what the status says.
LEMMA FinishedSound ==
  ASSUME NEW s, NEW q \in Contexts, NEW status \in Statuses, NEW cause \in Causes,
         status >= 500 <=> cause = "server" \/ status = 503
  PROVE  /\ Sound(Finished(q, status, cause), s)
         /\ Accounted(Finished(q, status, cause))
<1> DEFINE f == Finished(q, status, cause)
           w == Written(q.route, status)
<1>1. w \in SUBSET Telemetry /\ q.route \in Routes
  BY DEF Written, Telemetry, Contexts
<1>2. PICK i \in Contexts :
        f = [i EXCEPT !.stage = "done", !.route = q.route, !.status = status,
                      !.cause = cause, !.written = w]
  BY IdleTyped, Zenon DEF Finished
<1> HIDE DEF f, w
<1>3. f \in Contexts
  BY <1>1, <1>2, Zenon DEF Contexts
<1>4. /\ f.stage = "done" /\ f.route = q.route /\ f.status = status
      /\ f.cause = cause /\ f.written = w
  BY <1>2 DEF Contexts
<1>5. Accounted(f)
  <2>1. status \in Nat
    BY DEF Statuses
  <2> QED
    BY <1>4, <2>1 DEF Accounted, w, Written
<1>6. Sound(f, s)
  BY <1>3, <1>4 DEF Sound
<1> QED
  BY <1>5, <1>6 DEF f

\* A change of one request to a sound context keeps the invariant.
LEMMA ChangeInv ==
  ASSUME NEW r \in Slots, NEW n, GatewayInv, live' = live,
         Sound(n, live), Accounted(n), request' = [request EXCEPT ![r] = n]
  PROVE  GatewayInv'
<1>1. n \in Contexts
  BY DEF Sound
<1> QED
  BY <1>1 DEF GatewayInv

\* A request as it comes in: nobody is authenticated yet.
LEMMA IncomingTyped ==
  ASSUME NEW route \in Routes, NEW bearer \in Bearers,
         NEW header \in Players \cup {NoOne}
  PROVE  LET q == Incoming(route, bearer, header) IN
         /\ q \in Contexts /\ q.route = route /\ q.bearer = bearer
         /\ q.user = NoOne /\ (q.bearer \in live => q.seen)
<1> DEFINE b == bearer \in live
           q == Incoming(route, bearer, header)
<1>1. b \in BOOLEAN
  OBVIOUS
<1>2. Idle.user = NoOne
  BY DEF Idle
<1>3. PICK i \in Contexts :
        /\ q = [i EXCEPT !.route = route, !.bearer = bearer, !.header = header,
                         !.seen = b]
        /\ i.user = NoOne
  BY <1>2, IdleTyped, Zenon DEF Incoming
<1>4. /\ q \in Contexts /\ q.route = route /\ q.bearer = bearer
      /\ q.seen = b /\ q.user = NoOne
  <2> HIDE DEF b, q
  <2> QED
    BY <1>1, <1>3, Zenon DEF Contexts
<1> HIDE DEF q
<1>5. /\ q \in Contexts /\ q.route = route /\ q.bearer = bearer
      /\ q.user = NoOne /\ (q.bearer \in live => q.seen)
  BY <1>4, Zenon
<1> QED
  BY <1>5 DEF q

\* The gateway starts with idle slots.
LEMMA GatewayInitInv == GatewayInit => GatewayInv
BY IdleSound, IdleTyped DEF GatewayInit, GatewayInv

\* The steps of one request keep the invariant.
LEMMA RequestInv ==
  ASSUME GatewayInv, NEW r \in Slots,
         \/ Preflight(r) \/ Probe(r) \/ Limited(r) \/ Enter(r)
         \/ Unauthorized(r) \/ CheckFails(r) \/ Authenticated(r)
         \/ Forward(r) \/ Reply(r) \/ Upgrade(r) \/ BadGateway(r)
         \/ ClientClosed(r) \/ Copied(r) \/ CopyAborts(r) \/ SessionEnds(r)
         \/ GiveUp(r) \/ Reuse(r)
  PROVE  GatewayInv'
<1> DEFINE q == request[r]
<1>1. /\ q \in Contexts /\ Sound(q, live) /\ live \subseteq Players
      /\ request \in [Slots -> Contexts]
  BY DEF GatewayInv
<1>2. {0, 101, 200, 204, 400, 401, 404, 429, 499, 500, 502, 503} \subseteq Statuses
  BY DEF Statuses
<1>3. {"none", "client", "server"} \subseteq Causes
  BY DEF Causes
<1>4. {"none", "bad"} \subseteq Bearers /\ NoOne \in Players \cup {NoOne}
  BY DEF Bearers
<1>5. CASE Preflight(r)
  <2>1. PICK route \in Routes :
          request' = [request EXCEPT
            ![r] = Finished(Incoming(route, "none", NoOne), 204, "none")]
    BY <1>5, Zenon DEF Preflight
  <2> DEFINE i == Incoming(route, "none", NoOne)
             n == Finished(i, 204, "none")
  <2>2. i \in Contexts
    BY <1>4, IncomingTyped
  <2>3. live' = live
    BY <1>5 DEF Preflight
  <2> HIDE DEF i
  <2>4. Sound(n, live) /\ Accounted(n)
    BY <1>2, <1>3, <2>2, FinishedSound
  <2>5. request' = [request EXCEPT ![r] = n]
    BY <2>1 DEF i
  <2> HIDE DEF n
  <2> QED
    BY <2>3, <2>4, <2>5, ChangeInv, Zenon
<1>6. CASE Probe(r)
  <2>1. PICK status \in {200, 503} :
          request' = [request EXCEPT
            ![r] = Finished(Incoming("probe", "none", NoOne), status,
                            IF status = 503 THEN "server" ELSE "none")]
    BY <1>6, Zenon DEF Probe
  <2> DEFINE i == Incoming("probe", "none", NoOne)
             c == IF status = 503 THEN "server" ELSE "none"
             n == Finished(i, status, c)
  <2>2. i \in Contexts
    BY <1>4, IncomingTyped DEF Routes
  <2>3. live' = live
    BY <1>6 DEF Probe
  <2>4. c \in Causes /\ (status >= 500 <=> c = "server" \/ status = 503)
    BY <1>3, <2>1
  <2>5. request' = [request EXCEPT ![r] = n]
    BY <2>1
  <2>6. status \in Statuses
    BY <1>2, <2>1
  <2> HIDE DEF i, c
  <2>7. Sound(n, live) /\ Accounted(n)
    BY <2>2, <2>4, <2>6, FinishedSound
  <2> HIDE DEF n
  <2> QED
    BY <2>3, <2>5, <2>7, ChangeInv, Zenon
<1>7. CASE Limited(r)
  <2>1. PICK route \in Routes :
          request' = [request EXCEPT
            ![r] = Finished(Incoming(route, "none", NoOne), 429, "client")]
    BY <1>7, Zenon DEF Limited
  <2> DEFINE i == Incoming(route, "none", NoOne)
             n == Finished(i, 429, "client")
  <2>2. i \in Contexts
    BY <1>4, IncomingTyped
  <2>3. live' = live
    BY <1>7 DEF Limited
  <2> HIDE DEF i
  <2>4. Sound(n, live) /\ Accounted(n)
    BY <1>2, <1>3, <2>2, FinishedSound
  <2>5. request' = [request EXCEPT ![r] = n]
    BY <2>1 DEF i
  <2> HIDE DEF n
  <2> QED
    BY <2>3, <2>4, <2>5, ChangeInv, Zenon
<1>8. CASE Enter(r)
  <2>1. PICK route \in Routes \ {"probe"}, bearer \in Bearers,
             header \in Players \cup {NoOne} :
          request' = [request EXCEPT ![r] =
            CASE route = "health" ->
                   Finished(Incoming(route, bearer, header), 200, "none")
              [] route = "unmatched" ->
                   Finished(Incoming(route, bearer, header), 404, "client")
              [] route = "protected" ->
                   [Incoming(route, bearer, header) EXCEPT !.stage = "auth"]
              [] OTHER ->
                   [Incoming(route, bearer, header) EXCEPT !.stage = "proxy"]]
    BY <1>8, Zenon DEF Enter
  <2>2. live' = live
    BY <1>8 DEF Enter
  <2> DEFINE i == Incoming(route, bearer, header)
  <2>3. /\ i \in Contexts /\ i.route = route /\ i.bearer = bearer
        /\ i.user = NoOne /\ (i.bearer \in live => i.seen)
    BY <2>1, IncomingTyped
  <2> HIDE DEF i
  <2>4. CASE route = "health"
    <3> DEFINE n == Finished(i, 200, "none")
    <3>1. request' = [request EXCEPT ![r] = n]
      BY <2>1, <2>4 DEF i
    <3>2. Sound(n, live) /\ Accounted(n)
      BY <1>2, <1>3, <2>3, FinishedSound
    <3> HIDE DEF n
    <3> QED
      BY <2>2, <3>1, <3>2, ChangeInv, Zenon
  <2>5. CASE route = "unmatched"
    <3> DEFINE n == Finished(i, 404, "client")
    <3>1. request' = [request EXCEPT ![r] = n]
      BY <2>1, <2>5 DEF i
    <3>2. Sound(n, live) /\ Accounted(n)
      BY <1>2, <1>3, <2>3, FinishedSound
    <3> HIDE DEF n
    <3> QED
      BY <2>2, <3>1, <3>2, ChangeInv, Zenon
  <2>6. CASE route = "protected"
    <3> DEFINE n == [i EXCEPT !.stage = "auth"]
    <3>1. request' = [request EXCEPT ![r] = n]
      BY <2>1, <2>6 DEF i
    <3>2. Sound(n, live) /\ Accounted(n)
      BY <2>3, <2>6 DEF Sound, Accounted, Contexts
    <3> HIDE DEF n
    <3> QED
      BY <2>2, <3>1, <3>2, ChangeInv, Zenon
  <2>7. CASE route \in {"public", "ws"}
    <3> DEFINE n == [i EXCEPT !.stage = "proxy"]
    <3>1. request' = [request EXCEPT ![r] = n]
      BY <2>1, <2>7, Zenon DEF i
    <3>2. Sound(n, live) /\ Accounted(n)
      BY <2>3, <2>7 DEF Sound, Accounted, Contexts
    <3> HIDE DEF n
    <3> QED
      BY <2>2, <3>1, <3>2, ChangeInv, Zenon
  <2> QED
    BY <2>1, <2>4, <2>5, <2>6, <2>7 DEF Routes
<1>9. CASE Unauthorized(r)
  <2> DEFINE n == Finished(q, 401, "client")
  <2>1. request' = [request EXCEPT ![r] = n] /\ live' = live
    BY <1>1, <1>9 DEF Unauthorized, Answer
  <2>2. Sound(n, live) /\ Accounted(n)
    BY <1>1, <1>2, <1>3, FinishedSound
  <2> HIDE DEF n
  <2> QED
    BY <2>1, <2>2, ChangeInv, Zenon
<1>10. CASE CheckFails(r)
  <2> DEFINE c == IF q.gone THEN "client" ELSE "server"
             n == Finished(q, 503, c)
  <2>1. request' = [request EXCEPT ![r] = n] /\ live' = live
    BY <1>1, <1>10 DEF CheckFails, Answer
  <2>2. c \in Causes
    BY <1>3
  <2> HIDE DEF c
  <2>3. Sound(n, live) /\ Accounted(n)
    BY <1>1, <1>2, <2>2, FinishedSound
  <2> HIDE DEF n
  <2> QED
    BY <2>1, <2>3, ChangeInv, Zenon
<1>11. CASE Authenticated(r)
  <2> DEFINE n == [[q EXCEPT !.user = q.bearer] EXCEPT !.stage = "proxy"]
  <2>1. request' = [request EXCEPT ![r] = n] /\ live' = live
    BY <1>1, <1>11, Zenon DEF Authenticated
  <2>2. Sound(n, live) /\ Accounted(n)
    BY <1>1, <1>11 DEF Authenticated, Sound, Accounted, Contexts
  <2> HIDE DEF n
  <2> QED
    BY <2>1, <2>2, ChangeInv, Zenon
<1>12. CASE Forward(r)
  <2> DEFINE n == [[q EXCEPT !.stage = "upstream"] EXCEPT !.header = q.user]
  <2>1. request' = [request EXCEPT ![r] = n] /\ live' = live
    BY <1>1, <1>12, Zenon DEF Forward
  <2>2. Sound(n, live) /\ Accounted(n)
    <3>1. n \in Contexts
      BY <1>1, Zenon DEF Contexts
    <3>2. /\ n.stage = "upstream" /\ n.header = q.user /\ n.user = q.user
          /\ n.route = q.route /\ n.bearer = q.bearer /\ n.seen = q.seen
      BY <1>1 DEF Contexts
    <3> HIDE DEF n
    <3> QED
      BY <1>1, <1>12, <3>1, <3>2 DEF Forward, Sound, Accounted
  <2> HIDE DEF n
  <2> QED
    BY <2>1, <2>2, ChangeInv, Zenon
<1>13. CASE Reply(r)
  <2>1. PICK status \in {200, 400, 500} :
          request' = [request EXCEPT
            ![r] = [request[r] EXCEPT !.stage = "body", !.status = status]]
    BY <1>13, Zenon DEF Reply
  <2> DEFINE n == [q EXCEPT !.stage = "body", !.status = status]
  <2>2. request' = [request EXCEPT ![r] = n]
    BY <2>1
  <2>3. status \in Statuses
    BY <1>2
  <2>4. Sound(n, live) /\ Accounted(n)
    <3>1. n \in Contexts
      BY <1>1, <2>3, Zenon DEF Contexts
    <3>2. /\ n.stage = "body" /\ n.status = status /\ n.header = q.header
          /\ n.user = q.user /\ n.route = q.route /\ n.bearer = q.bearer
          /\ n.seen = q.seen
      BY <1>1 DEF Contexts
    <3> HIDE DEF n
    <3> QED
      BY <1>1, <1>13, <2>1, <3>1, <3>2 DEF Reply, Sound, Accounted
  <2>5. live' = live
    BY <1>13 DEF Reply
  <2> HIDE DEF n
  <2> QED
    BY <2>2, <2>4, <2>5, ChangeInv, Zenon
<1>14. CASE Upgrade(r)
  <2> DEFINE n == [q EXCEPT !.stage = "session"]
  <2>1. request' = [request EXCEPT ![r] = n] /\ live' = live
    BY <1>1, <1>14 DEF Upgrade
  <2>2. Sound(n, live) /\ Accounted(n)
    BY <1>1, <1>14 DEF Upgrade, Sound, Accounted, Contexts
  <2> HIDE DEF n
  <2> QED
    BY <2>1, <2>2, ChangeInv, Zenon
<1>15. CASE BadGateway(r)
  <2> DEFINE n == Finished(q, 502, "server")
  <2>1. request' = [request EXCEPT ![r] = n] /\ live' = live
    BY <1>1, <1>15 DEF BadGateway, Answer
  <2>2. Sound(n, live) /\ Accounted(n)
    BY <1>1, <1>2, <1>3, FinishedSound
  <2> HIDE DEF n
  <2> QED
    BY <2>1, <2>2, ChangeInv, Zenon
<1>16. CASE ClientClosed(r)
  <2> DEFINE n == Finished(q, 499, "client")
  <2>1. request' = [request EXCEPT ![r] = n] /\ live' = live
    BY <1>1, <1>16 DEF ClientClosed, Answer
  <2>2. Sound(n, live) /\ Accounted(n)
    BY <1>1, <1>2, <1>3, FinishedSound
  <2> HIDE DEF n
  <2> QED
    BY <2>1, <2>2, ChangeInv, Zenon
<1>17. CASE Copied(r)
  <2> DEFINE c == CASE q.status = 500 -> "server"
                    [] q.status = 400 -> "client"
                    [] OTHER -> "none"
             n == Finished(q, q.status, c)
  <2>1. request' = [request EXCEPT ![r] = n] /\ live' = live
    BY <1>1, <1>17 DEF Copied, Answer
  <2>2. q.status \in {200, 400, 500}
    BY <1>1, <1>17 DEF Copied, Sound
  <2>3. c \in Causes /\ (q.status >= 500 <=> c = "server" \/ q.status = 503)
    BY <1>3, <2>2
  <2>4. q.status \in Statuses
    BY <1>2, <2>2
  <2> HIDE DEF c
  <2>5. Sound(n, live) /\ Accounted(n)
    BY <1>1, <2>3, <2>4, FinishedSound
  <2> HIDE DEF n
  <2> QED
    BY <2>1, <2>5, ChangeInv, Zenon
<1>18. CASE CopyAborts(r)
  <2> DEFINE n == [Idle EXCEPT !.stage = "aborted", !.route = q.route,
                     !.cause = IF q.gone THEN "client" ELSE "server"]
  <2>1. request' = [request EXCEPT ![r] = n] /\ live' = live
    BY <1>18 DEF CopyAborts
  <2>2. Sound(n, live) /\ Accounted(n)
    <3>1. PICK i \in Contexts, cause \in Causes :
            n = [i EXCEPT !.stage = "aborted", !.route = q.route, !.cause = cause]
      BY <1>3, IdleTyped, Zenon
    <3> HIDE DEF n
    <3>2. q.route \in Routes
      BY <1>1 DEF Contexts
    <3>3. n \in Contexts /\ n.stage = "aborted"
      BY <3>1, <3>2, Zenon DEF Contexts
    <3> QED
      BY <3>3 DEF Sound, Accounted
  <2> HIDE DEF n
  <2> QED
    BY <2>1, <2>2, ChangeInv, Zenon
<1>19. CASE SessionEnds(r)
  <2> DEFINE n == Finished(q, 101, "none")
  <2>1. request' = [request EXCEPT ![r] = n] /\ live' = live
    BY <1>1, <1>19 DEF SessionEnds, Answer
  <2>2. Sound(n, live) /\ Accounted(n)
    BY <1>1, <1>2, <1>3, FinishedSound
  <2> HIDE DEF n
  <2> QED
    BY <2>1, <2>2, ChangeInv, Zenon
<1>20. CASE GiveUp(r)
  <2> DEFINE n == [q EXCEPT !.gone = TRUE]
  <2>1. request' = [request EXCEPT ![r] = n] /\ live' = live
    BY <1>1, <1>20 DEF GiveUp
  <2>2. Sound(n, live) /\ Accounted(n)
    <3>1. n \in Contexts
      BY <1>1, Zenon DEF Contexts
    <3>2. /\ n.stage = q.stage /\ n.status = q.status /\ n.header = q.header
          /\ n.user = q.user /\ n.route = q.route /\ n.bearer = q.bearer
          /\ n.seen = q.seen
      BY <1>1 DEF Contexts
    <3> HIDE DEF n
    <3> QED
      BY <1>1, <1>20, <3>1, <3>2 DEF GiveUp, Sound, Accounted
  <2> HIDE DEF n
  <2> QED
    BY <2>1, <2>2, ChangeInv, Zenon
<1>21. CASE Reuse(r)
  BY <1>21, IdleSound, ChangeInv, Zenon DEF Reuse, Idle
<1> QED
  BY <1>5, <1>6, <1>7, <1>8, <1>9, <1>10, <1>11, <1>12, <1>13, <1>14, <1>15,
     <1>16, <1>17, <1>18, <1>19, <1>20, <1>21

\* A session that begins or ends changes no request, but for having seen it.
LEMMA SessionInv ==
  ASSUME GatewayInv, NEW p \in Players, LogIn(p) \/ LogOut(p)
  PROVE  GatewayInv'
<1>1. CASE LogOut(p)
  <2> SUFFICES ASSUME NEW r \in Slots PROVE Sound(request[r], live')
    BY <1>1 DEF LogOut, GatewayInv
  <2>1. Sound(request[r], live)
    BY DEF GatewayInv
  <2> QED
    BY <1>1, <2>1 DEF LogOut, Sound
<1>2. CASE LogIn(p)
  <2>1. live' \subseteq Players
    BY <1>2 DEF LogIn, GatewayInv
  <2>2. \A r \in Slots : /\ request'[r] \in Contexts
                         /\ Sound(request'[r], live') /\ Accounted(request'[r])
    <3> SUFFICES ASSUME NEW r \in Slots
                 PROVE  /\ request'[r] \in Contexts
                        /\ Sound(request'[r], live') /\ Accounted(request'[r])
      OBVIOUS
    <3> DEFINE q == request[r]
               b == q.seen \/ q.bearer = p
               n == [q EXCEPT !.seen = b]
    <3>1. q \in Contexts /\ Sound(q, live) /\ Accounted(q)
      BY DEF GatewayInv
    <3>2. request'[r] = n
      BY <1>2 DEF LogIn
    <3>3. b \in BOOLEAN
      OBVIOUS
    <3> HIDE DEF b
    <3>4. n \in Contexts
      BY <3>1, <3>3 DEF Contexts
    <3>5. /\ n.stage = q.stage /\ n.status = q.status /\ n.header = q.header
          /\ n.user = q.user /\ n.route = q.route /\ n.bearer = q.bearer
          /\ n.cause = q.cause /\ n.written = q.written /\ n.seen = b
      BY <3>1 DEF Contexts
    <3>6. (q.seen => b) /\ (q.bearer = p => b)
      BY DEF b
    <3> HIDE DEF n, q
    <3>7. Sound(n, live')
      BY <1>2, <3>1, <3>4, <3>5, <3>6 DEF LogIn, Sound
    <3>8. Accounted(n)
      BY <3>1, <3>5 DEF Accounted
    <3> QED
      BY <3>2, <3>4, <3>7, <3>8
  <2>3. request' \in [Slots -> Contexts]
    BY <1>2, <2>2 DEF LogIn
  <2> QED
    BY <2>1, <2>2, <2>3 DEF GatewayInv
<1> QED
  BY <1>1, <1>2

\* Every step keeps the invariant.
LEMMA GatewayNextInv == GatewayInv /\ [GatewayNext]_gatewayVars => GatewayInv'
<1> SUFFICES ASSUME GatewayInv, [GatewayNext]_gatewayVars PROVE GatewayInv'
  OBVIOUS
<1>1. CASE UNCHANGED <<request, live>>
  BY <1>1 DEF GatewayInv
<1>2. CASE LimiterStep
  BY <1>1, <1>2 DEF LimiterStep
<1>3. CASE UNCHANGED gatewayVars
  BY <1>1, <1>3 DEF gatewayVars
<1> QED
  BY <1>2, <1>3, RequestInv, SessionInv DEF GatewayNext

-----------------------------------------------------------------------------
(* The theorems *)

\* The request pipeline drives the limiter as RateLimit describes it.
THEOREM PipelineLimited == GatewaySpec => Spec
BY LimiterSteps, PTL DEF GatewaySpec, GatewayInit, Spec

\* RateLimit within the gateway: whatever the requests do, in any window a
\* client gets at most a burst and what the rate allows.
THEOREM GatewayLimit == GatewaySpec => []RateBounded
BY PipelineLimited, LimitHolds, PTL

\* Auth and newProxy: an upstream sees no identity but the one of a token whose
\* session was active while the request was here.
THEOREM GatewayIdentity == GatewaySpec => []IdentityVerified
<1>1. GatewayInv /\ TypeOK => IdentityVerified
  <2> SUFFICES ASSUME GatewayInv, NEW r \in Slots,
                      request[r].stage \in {"upstream", "body", "session"}
               PROVE  IF request[r].route = "protected"
                      THEN request[r].header = request[r].bearer /\ request[r].seen
                      ELSE request[r].header = NoOne
    BY DEF GatewayInv, IdentityVerified, GatewayTypeOK
  <2>1. Sound(request[r], live)
    BY DEF GatewayInv
  <2> QED
    BY <2>1 DEF Sound
<1>2. GatewaySpec => []GatewayInv
  BY GatewayInitInv, GatewayNextInv, PTL DEF GatewaySpec
<1> QED
  BY <1>1, <1>2, PipelineLimited, LimiterTyped, PTL

\* Metrics and Logger: the error counter has the server's failures, and of the
\* clients' only those who gave up during the session check.
THEOREM GatewayErrors == GatewaySpec => []ErrorsAreTheServers
<1>1. GatewayInv => ErrorsAreTheServers
  BY DEF GatewayInv, ErrorsAreTheServers, Accounted
<1>2. GatewaySpec => []GatewayInv
  BY GatewayInitInv, GatewayNextInv, PTL DEF GatewaySpec
<1> QED
  BY <1>1, <1>2, PTL
=============================================================================
