----------------------------- MODULE Lifecycle ------------------------------
(***************************************************************************)
(* The life of a service container (pkg/server Run, Workers and            *)
(* ShutdownContext, and the run functions under cmd): it connects to its   *)
(* dependencies (Startup), serves while its loop beats (Heartbeat), is told *)
(* to stop, has its preStop hook waited out, gets SIGTERM, which cancels   *)
(* the background workers and starts the HTTP shutdown and the hooks; then *)
(* the workers are waited for, the traces flushed, and the process exits.  *)
(* The kubelet kills it when the grace period is over, and starts it again *)
(* unless its pod was deleted.  A tick is a second; the first backoff is   *)
(* rounded up to one.  Requests and workers may take any time; a hook      *)
(* returns when its context is done.                                       *)
(***************************************************************************)
EXTENDS Heartbeat, Startup

CONSTANTS
  Requests,    \* requests, each served once
  HooksOf,     \* HooksOf[b]: shutdown hooks b gives to Run
  WorkersOf,   \* WorkersOf[b]: background workers of b
  Looped,      \* binaries with a liveness check on their loop
  Bridged,     \* binaries with an event bridge
  Early,       \* binaries that call ShutdownContext before they connect
  PreStop,     \* ticks of the pod's preStop hook
  HTTP,        \* shutdownTimeout of pkg/server
  Work,        \* WorkerShutdownTimeout
  Flush,       \* shutdownTimeout of pkg/tracing
  Grace        \* the pod's terminationGracePeriodSeconds

ASSUME LifecycleAssumption ==
  /\ PreStop \in Nat /\ HTTP \in Nat /\ Work \in Nat /\ Flush \in Nat /\ Grace \in Nat
  /\ PreStop + HTTP + Work + Flush < Grace

VARIABLES
  phase,       \* what run is at
  timer,       \* ticks since it got there, once it shuts down
  stopping,    \* the kubelet stops the container
  deleted,     \* for good: its pod is deleted
  age,         \* ticks since it began to
  signal,      \* where SIGTERM went: "none" yet, to "run", or too "early" for Run
  request,     \* request[r]: its state
  hooks,       \* hooks running
  workers,     \* workers running
  cancelled,   \* the workers' context is cancelled
  code         \* exit code decided on

podVars == <<stopping, deleted, age, signal>>
serverVars == <<request, hooks, workers, cancelled, code>>
vars == <<phase, timer, podVars, serverVars, beatVars, envVars, bootVars>>

\* A flush that lasts as long as its exporter tries.
Limit_NoFlushTimeout(p) ==
  CASE p = "shutdown" -> HTTP
    [] p = "wait" -> Work
    [] p = "flush" -> Grace
    [] OTHER -> 0

\* Ticks a phase of the shutdown may last.
Limit(p) ==
  CASE p = "shutdown" -> HTTP
    [] p = "wait" -> Work
    [] p = "flush" -> Flush
    [] OTHER -> 0

TypeOK ==
  /\ BeatTypeOK /\ BootTypeOK
  /\ phase \in {"connect", "serve", "shutdown", "wait", "flush", "exited"}
  /\ timer \in 0..Limit(phase)
  /\ stopping \in BOOLEAN /\ deleted \in BOOLEAN /\ cancelled \in BOOLEAN
  /\ age \in 0..Grace
  /\ signal \in {"none", "run", "early"}
  /\ request \in [Requests -> {"none", "served", "done"}]
  /\ hooks \subseteq HooksOf[binary] /\ workers \subseteq WorkersOf[binary]
  /\ code \in {0, 1}

ServerInit ==
  /\ phase = "connect" /\ timer = 0 /\ age = 0
  /\ stopping = FALSE /\ deleted = FALSE /\ signal = "none"
  /\ request = [r \in Requests |-> "none"]
  /\ hooks = {} /\ workers = WorkersOf[binary]
  /\ cancelled = FALSE /\ code = 0

Init == BeatInit /\ BootInit /\ ServerInit

InFlight == {r \in Requests : request[r] = "served"}

Enter(p) == phase' = p /\ timer' = 0

\* A container that stops is not probed; its loop is of no more interest.
NotProbed ==
  loop' = "waiting" /\ spell' = 0 /\ beat' = 0 /\ probe' = 0 /\ failures' = 0

-----------------------------------------------------------------------------
(* The process starts and serves *)

\* run connects to one dependency after the other.
Starting ==
  /\ phase = "connect"
  /\ Connect \/ Retry \/ Wake
  /\ UNCHANGED <<phase, timer, podVars, serverVars, beatVars>>

\* A process that waits for every dependency of the system.
Started_AllUp ==
  /\ phase = "connect" /\ needs = <<>> /\ ~Refused
  /\ up = DOMAIN Timeout
  /\ Enter("serve") /\ BootDone
  /\ UNCHANGED <<podVars, serverVars, beatVars>>

\* Everything is connected: Run listens for SIGTERM and for requests.
Started ==
  /\ phase = "connect" /\ needs = <<>> /\ ~Refused
  /\ Enter("serve") /\ BootDone
  /\ UNCHANGED <<podVars, serverVars, beatVars>>

\* log.Fatal while the process starts.
NotStarted ==
  /\ phase = "connect" /\ Fatal
  /\ Enter("exited") /\ code' = 1 /\ BootDone
  /\ UNCHANGED <<podVars, request, hooks, workers, cancelled, beatVars>>

\* A dependency comes up.
DependencyUp ==
  /\ phase \in {"connect", "exited"}
  /\ \E d \in DOMAIN Timeout : Reach(d)
  /\ UNCHANGED <<phase, timer, podVars, serverVars, beatVars>>

\* The loop turns and is probed while the process serves.
Beating ==
  /\ phase = "serve" /\ binary \in Looped /\ ~stopping
  /\ Begin \/ Finish \/ Overrun \/ Probe
  /\ UNCHANGED <<phase, timer, podVars, serverVars, envVars, bootVars>>

\* The server accepts a request until Shutdown is called.
Accept(r) ==
  /\ phase = "serve"
  /\ request[r] = "none"
  /\ request' = [request EXCEPT ![r] = "served"]
  /\ UNCHANGED <<phase, timer, podVars, hooks, workers, cancelled, code, beatVars, envVars, bootVars>>

Serve(r) ==
  /\ phase # "exited"
  /\ request[r] = "served"
  /\ request' = [request EXCEPT ![r] = "done"]
  /\ UNCHANGED <<phase, timer, podVars, hooks, workers, cancelled, code, beatVars, envVars, bootVars>>

\* ListenAndServe fails: Run returns, stop() cancels the workers.
ListenError ==
  /\ phase = "serve"
  /\ Enter("wait") /\ NotProbed
  /\ cancelled' = TRUE /\ code' = 1
  /\ UNCHANGED <<podVars, request, hooks, workers, envVars, bootVars>>

\* The event bridge cannot subscribe: log.Fatal in its worker.
BridgeFails ==
  /\ phase = "serve" /\ binary \in Bridged /\ workers # {}
  /\ Enter("exited") /\ code' = 1 /\ NotProbed
  /\ UNCHANGED <<podVars, request, hooks, workers, cancelled, envVars, bootVars>>

-----------------------------------------------------------------------------
(* The kubelet stops the container *)

\* The pod is deleted.
Delete ==
  /\ ~deleted /\ ~stopping
  /\ deleted' = TRUE /\ stopping' = (phase # "exited") /\ NotProbed
  /\ UNCHANGED <<phase, timer, age, signal, serverVars, envVars, bootVars>>

\* The startup or the liveness probe has failed its last time.
Unhealthy ==
  /\ ~stopping
  /\ \/ phase = "connect" /\ boot = Window
     \/ phase = "serve" /\ failures = Threshold
  /\ stopping' = TRUE /\ NotProbed
  /\ UNCHANGED <<phase, timer, deleted, age, signal, serverVars, envVars, bootVars>>

SignalDue == stopping /\ age = PreStop /\ signal = "none"

\* SIGTERM with nobody listening: before ShutdownContext, or after stop().
SignalKills ==
  /\ SignalDue
  /\ \/ phase = "connect" /\ binary \notin Early
     \/ phase \in {"wait", "flush"}
  /\ Enter("exited") /\ BootDone
  /\ UNCHANGED <<podVars, serverVars, beatVars>>

\* SIGTERM between ShutdownContext and Run's own NotifyContext: it cancels the
\* workers, and Run does not learn of it.
SignalEarly ==
  /\ SignalDue /\ phase = "connect"
  /\ binary \in Early \/ (needs = <<>> /\ WorkersOf[binary] # {})
  /\ signal' = "early" /\ cancelled' = TRUE
  /\ UNCHANGED <<phase, timer, stopping, deleted, age, request, hooks, workers, code, beatVars, envVars, bootVars>>

\* SIGTERM while Run serves: workers cancelled, hooks and Shutdown started.
Signal ==
  /\ SignalDue /\ phase = "serve"
  /\ Enter("shutdown")
  /\ signal' = "run" /\ cancelled' = TRUE /\ hooks' = HooksOf[binary]
  /\ UNCHANGED <<stopping, deleted, age, request, workers, code, beatVars, envVars, bootVars>>

HookReturns(h) ==
  /\ h \in hooks /\ phase # "exited"
  /\ hooks' = hooks \ {h}
  /\ UNCHANGED <<phase, timer, podVars, request, workers, cancelled, code, beatVars, envVars, bootVars>>

\* Shutdown returns nil and the hooks are done.
ShutdownDone ==
  /\ phase = "shutdown"
  /\ InFlight = {} /\ hooks = {}
  /\ Enter("wait")
  /\ UNCHANGED <<podVars, serverVars, beatVars, envVars, bootVars>>

\* Shutdown returns the context's error; Run waits for the hooks and returns it.
ShutdownTimeout ==
  /\ phase = "shutdown" /\ timer = HTTP
  /\ InFlight # {} /\ hooks = {}
  /\ Enter("wait")
  /\ code' = 1
  /\ UNCHANGED <<podVars, request, hooks, workers, cancelled, beatVars, envVars, bootVars>>

\* A cancelled worker finishes its iteration and returns.
WorkerReturns(w) ==
  /\ cancelled /\ w \in workers
  /\ phase # "exited"
  /\ workers' = workers \ {w}
  /\ UNCHANGED <<phase, timer, podVars, request, hooks, cancelled, code, beatVars, envVars, bootVars>>

\* A main that waits for its workers as long as they need.
WaitReturns_NoTimeout ==
  /\ phase = "wait"
  /\ workers = {}
  /\ Enter("flush")
  /\ UNCHANGED <<podVars, serverVars, beatVars, envVars, bootVars>>

\* Workers.Wait: all done, or the timeout.
WaitReturns ==
  /\ phase = "wait"
  /\ workers = {} \/ timer = Work
  /\ Enter("flush")
  /\ UNCHANGED <<podVars, serverVars, beatVars, envVars, bootVars>>

\* The deferred calls: the bus is closed, the traces flushed.
Exit ==
  /\ phase = "flush"
  /\ Enter("exited")
  /\ UNCHANGED <<podVars, serverVars, beatVars, envVars, bootVars>>

\* SIGKILL at the end of the grace period.
Kill ==
  /\ stopping /\ age = Grace /\ phase # "exited"
  /\ Enter("exited") /\ BootDone
  /\ UNCHANGED <<podVars, serverVars, beatVars>>

\* The kubelet starts the container again (restartPolicy Always).
Restart ==
  /\ phase = "exited" /\ ~deleted
  /\ Enter("connect") /\ Boot
  /\ stopping' = FALSE /\ age' = 0 /\ signal' = "none"
  /\ request' = [r \in Requests |-> "none"]
  /\ hooks' = {} /\ workers' = WorkersOf[binary]
  /\ cancelled' = FALSE /\ code' = 0
  /\ UNCHANGED <<deleted, beatVars>>

\* The clock; whatever has used up its time ends before it goes on.
Tick ==
  /\ phase # "exited"
  /\ stopping => age < Grace /\ ~SignalDue
  /\ age' = IF stopping THEN age + 1 ELSE age
  /\ \/ /\ phase = "connect" /\ (stopping \/ boot < Window)
        /\ BootClock
        /\ UNCHANGED <<timer, beatVars>>
     \/ /\ phase = "serve" /\ ~stopping /\ binary \in Looped
        /\ Clock
        /\ UNCHANGED <<timer, envVars, bootVars>>
     \/ /\ phase = "serve" /\ stopping
        /\ UNCHANGED <<timer, beatVars, envVars, bootVars>>
     \/ /\ phase \in {"shutdown", "wait", "flush"} /\ timer < Limit(phase)
        /\ timer' = timer + 1
        /\ UNCHANGED <<beatVars, envVars, bootVars>>
  /\ UNCHANGED <<phase, stopping, deleted, signal, serverVars>>

Next ==
  \/ Starting \/ Started \/ NotStarted \/ DependencyUp \/ Beating
  \/ \E r \in Requests : Accept(r) \/ Serve(r)
  \/ ListenError \/ BridgeFails \/ Delete \/ Unhealthy \/ SignalKills \/ SignalEarly \/ Signal
  \/ \E h \in hooks : HookReturns(h)
  \/ ShutdownDone \/ ShutdownTimeout
  \/ \E w \in workers : WorkerReturns(w)
  \/ WaitReturns \/ Exit \/ Kill \/ Restart \/ Tick

Spec == Init /\ [][Next]_vars

\* Time passes, main goes on when it can, hooks honour their context, the
\* kubelet does its part, and what the binary needs comes up in the end;
\* requests, workers and iterations may hang.
Fairness ==
  /\ WF_vars(Tick) /\ WF_vars(DependencyUp)
  /\ WF_vars(Starting \/ Started \/ NotStarted)
  /\ WF_vars(Unhealthy \/ SignalKills \/ SignalEarly \/ Signal \/ Kill \/ Restart)
  /\ WF_vars(timer = HTTP /\ \E h \in hooks : HookReturns(h))
  /\ WF_vars(ShutdownDone \/ ShutdownTimeout \/ WaitReturns \/ Exit)

FairSpec == Spec /\ Fairness

-----------------------------------------------------------------------------
(* What a container promises *)

\* server.go, deployments/k8s: preStop, HTTP shutdown, worker wait and flush
\* together fit into the grace period, whatever hangs, so that no SIGKILL comes,
\* except to a process whose SIGTERM came between ShutdownContext and Run.
\* Every variable keeps its type; no timer outruns its limit.
NeverKilled ==
  TypeOK /\ (phase # "exited" /\ age = Grace => signal = "early")

\* Run, Workers.Wait: a container told to stop exits by itself, though requests
\* or workers never finish, except after a SIGTERM that came too early for Run.
ExitsByItself ==
  stopping ~> (phase = "exited" /\ (age < Grace \/ signal = "early"))

\* Validate, database.Open, connectWithRetry: once what it needs is up, a
\* container serves, after restarts if need be, unless a secret of its own is
\* weak; one that it does not use keeps nobody from serving.
ServesInTheEnd == <>(phase = "serve" \/ deleted \/ Refused)

-----------------------------------------------------------------------------
(* Sentences of the code that do not hold *)

\* Run: "serves the engine until SIGINT/SIGTERM, then shuts down gracefully".
\* A SIGTERM before Run asks for signals reaches the workers only.
EverySignalHeard == phase # "exited" => age < Grace

\* defaultConnectWait: "It stays inside the startup probe's 60 s window".  The
\* relay waits for PostgreSQL first, and for the streams afterwards.
WaitsFitWindow == boot < Window
=============================================================================
