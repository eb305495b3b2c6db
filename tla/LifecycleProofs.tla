-------------------------- MODULE LifecycleProofs ---------------------------
(***************************************************************************)
(* Theorems about Lifecycle, for every set of binaries and every timeout   *)
(* that satisfies the assumptions, and about one probe (Health), for every *)
(* set of checks.  Loop, startup and shutdown share no variable that       *)
(* another part assigns, so each has an invariant of its own and every     *)
(* step of the container is a step of each part.                           *)
(***************************************************************************)
EXTENDS Lifecycle, Health, SequenceTheorems, TLAPS

-----------------------------------------------------------------------------
(* The loop and its probe *)

\* A loop that is not stuck has beaten within its wait and its work, and every
\* probe period beyond the limit has been counted.
BeatInv ==
  /\ BeatTypeOK
  /\ loop = "waiting" => beat <= spell
  /\ loop = "working" => beat <= Interval + spell
  /\ beat <= StallAfter + failures * Period + probe
  /\ failures = Threshold => probe = 0

\* The steps of the container, seen from the loop.
BeatStep == BeatNext \/ NotProbed \/ UNCHANGED beatVars

\* StallAfter: the limit leaves room for the longest wait and work.
LEMMA LimitFits ==
  StallAfter \in Nat /\ Interval + Deadline <= StallAfter
  BY HeartbeatAssumption DEF StallAfter

\* One more period for one more failure.
LEMMA OneMore == \A f \in Nat : (f + 1) * Period = f * Period + Period
  BY HeartbeatAssumption

\* Heartbeat: every step of the loop, of its probe and of the clock keeps BeatInv.
LEMMA BeatInvStep == BeatInv /\ BeatStep => BeatInv'
<1> SUFFICES ASSUME BeatInv, BeatStep PROVE BeatInv'
  OBVIOUS
<1> USE HeartbeatAssumption, LimitFits, OneMore
<1>t. failures \in Nat /\ failures * Period \in Nat /\ (failures + 1) * Period \in Nat
  BY DEF BeatInv, BeatTypeOK
<1>1. CASE Begin
  BY <1>1, <1>t DEF Begin, BeatInv, BeatTypeOK, StallAfter
<1>2. CASE Finish
  BY <1>2, <1>t DEF Finish, BeatInv, BeatTypeOK
<1>3. CASE Overrun
  BY <1>3, <1>t DEF Overrun, BeatInv, BeatTypeOK
<1>4. CASE Probe
  <2>1. BeatTypeOK'
    BY <1>4 DEF Probe, BeatInv, BeatTypeOK
  <2>2. beat' <= StallAfter + failures' * Period + probe'
    <3>1. CASE beat > StallAfter
      BY <1>4, <1>t, <3>1 DEF Probe, BeatInv, BeatTypeOK
    <3>2. CASE ~(beat > StallAfter)
      <4>1. failures' = 0 /\ probe' = 0 /\ beat' = beat /\ failures' * Period = 0
        BY <1>4, <3>2 DEF Probe
      <4> QED
        BY <4>1, <3>2 DEF BeatInv, BeatTypeOK
    <3> QED
      BY <3>1, <3>2
  <2> QED
    BY <1>4, <2>1, <2>2 DEF Probe, BeatInv
<1>5. CASE Clock
  BY <1>5, <1>t DEF Clock, BeatInv, BeatTypeOK
<1>6. CASE NotProbed
  BY <1>6 DEF NotProbed, BeatInv, BeatTypeOK
<1>7. CASE UNCHANGED beatVars
  BY <1>7 DEF beatVars, BeatInv, BeatTypeOK, StallAfter
<1> QED
  BY <1>1, <1>2, <1>3, <1>4, <1>5, <1>6, <1>7 DEF BeatStep, BeatNext

\* The invariant says what StallsNoticed promises.
LEMMA BeatInvSuffices == BeatInv => StallsNoticed
<1> SUFFICES ASSUME BeatInv PROVE StallsNoticed
  OBVIOUS
<1> USE HeartbeatAssumption, LimitFits
<1>1. beat > StallAfter => loop = "stuck"
  BY DEF BeatInv, BeatTypeOK
<1>2. beat <= StallAfter + Threshold * Period
  <2>1. CASE failures = Threshold
    BY <2>1 DEF BeatInv, BeatTypeOK
  <2>2. CASE failures # Threshold
    <3>1. failures + 1 \in Nat /\ failures + 1 <= Threshold
      BY <2>2 DEF BeatInv, BeatTypeOK
    <3>2. (failures + 1) * Period <= Threshold * Period
      BY <3>1
    <3>3. failures * Period \in Nat /\ Threshold * Period \in Nat
      BY DEF BeatInv, BeatTypeOK
    <3>4. (failures + 1) * Period = failures * Period + Period
      BY OneMore DEF BeatInv, BeatTypeOK
    <3> QED
      BY <3>2, <3>3, <3>4 DEF BeatInv, BeatTypeOK
  <2> QED
    BY <2>1, <2>2
<1> QED
  BY <1>1, <1>2 DEF StallsNoticed

-----------------------------------------------------------------------------
(* The startup *)

\* database.Open, connectWithRetry: how long a dependency has been waited for.
BootInv ==
  /\ BootTypeOK
  /\ needs # <<>> /\ step = "try" =>
       attempt <= Timeout[Head(needs)] /\ waited <= MaxWait + attempt
  /\ needs # <<>> /\ step = "sleep" =>
       attempt <= backoff /\ waited + backoff <= MaxWait + attempt
  /\ needs # <<>> /\ Head(needs) = "streams" => step = "try" /\ waited = attempt

\* How much of the window is gone at each point of a startup with one server.
WindowInv ==
  \A d \in DOMAIN Timeout : OneServer(binary, d) =>
    \/ needs = <<>> /\ boot <= MaxWait + Timeout[d] + Timeout["streams"]
    \/ needs \in {<<d>>, <<d, "streams">>} /\ boot <= waited
    \/ needs = <<"streams">> /\ boot <= MaxWait + Timeout[d] + waited

\* The steps of the container, seen from the startup.
BootStep ==
  \/ Connect \/ Retry \/ Wake \/ BootClock \/ Boot \/ BootDone
  \/ \E d \in DOMAIN Timeout : Reach(d)
  \/ UNCHANGED <<envVars, bootVars>>

\* The first and the following dependencies of a binary are dependencies.
LEMMA HeadTail ==
  ASSUME NEW s \in Seq(DOMAIN Timeout), s # <<>>
  PROVE  Head(s) \in DOMAIN Timeout /\ Tail(s) \in Seq(DOMAIN Timeout) /\ Timeout[Head(s)] \in Nat
<1>1. Head(s) \in DOMAIN Timeout /\ Tail(s) \in Seq(DOMAIN Timeout)
  BY HeadTailProperties
<1> QED
  BY <1>1, StartupAssumption

\* Startup: every attempt, sleep and tick keeps BootInv.
LEMMA BootInvStep == BootInv /\ BootStep => BootInv'
<1> SUFFICES ASSUME BootInv, BootStep PROVE BootInv'
  OBVIOUS
<1> USE StartupAssumption
<1>e. Needs[binary] \in Seq(DOMAIN Timeout) /\ <<>> \in Seq(DOMAIN Timeout)
  BY EmptySeq DEF BootInv, BootTypeOK, Binaries
<1>1. CASE Connect
  <2>1. needs' \in Seq(DOMAIN Timeout)
    BY <1>1, HeadTail DEF Connect, BootInv, BootTypeOK
  <2>2. needs' # <<>> => Timeout[Head(needs')] \in Nat
    BY <2>1, HeadTail
  <2> QED
    BY <1>1, <2>1, <2>2 DEF Connect, envVars, BootInv, BootTypeOK
<1>2. CASE Retry
  BY <1>2, HeadTail DEF Retry, AttemptFails, GivesUp, envVars, BootInv, BootTypeOK
<1>3. CASE Wake
  BY <1>3, HeadTail DEF Wake, envVars, BootInv, BootTypeOK
<1>4. CASE BootClock
  <2>1. CASE step = "try"
    BY <1>4, <2>1, HeadTail DEF BootClock, envVars, BootInv, BootTypeOK
  <2>2. CASE step = "sleep"
    BY <1>4, <2>2, HeadTail DEF BootClock, envVars, BootInv, BootTypeOK
  <2> QED
    BY <2>1, <2>2 DEF BootInv, BootTypeOK
<1>5. CASE Boot
  <2>1. needs' # <<>> => Timeout[Head(needs')] \in Nat
    BY <1>5, <1>e, HeadTail DEF Boot
  <2> QED
    BY <1>5, <1>e, <2>1 DEF Boot, envVars, BootInv, BootTypeOK
<1>6. CASE BootDone
  BY <1>6, <1>e DEF BootDone, envVars, BootInv, BootTypeOK
<1>7. ASSUME NEW d \in DOMAIN Timeout, Reach(d) PROVE BootInv'
  BY <1>7 DEF Reach, bootVars, BootInv, BootTypeOK
<1>8. CASE UNCHANGED <<envVars, bootVars>>
  BY <1>8 DEF envVars, bootVars, BootInv, BootTypeOK
<1> QED
  BY <1>1, <1>2, <1>3, <1>4, <1>5, <1>6, <1>7, <1>8 DEF BootStep

\* cmd: every step uses up no more of the window than WindowInv allows for.
LEMMA WindowInvStep == BootInv /\ WindowInv /\ BootStep => WindowInv'
<1> SUFFICES ASSUME BootInv, WindowInv, BootStep, NEW d \in DOMAIN Timeout, OneServer(binary', d)
             PROVE  \/ needs' = <<>> /\ boot' <= MaxWait + Timeout[d] + Timeout["streams"]
                    \/ needs' \in {<<d>>, <<d, "streams">>} /\ boot' <= waited'
                    \/ needs' = <<"streams">> /\ boot' <= MaxWait + Timeout[d] + waited'
  BY DEF WindowInv
<1>1. /\ MaxWait \in Nat /\ Timeout[d] \in Nat /\ Timeout["streams"] \in Nat /\ Window \in Nat
      /\ boot \in Nat /\ waited \in Nat /\ attempt \in Nat
  BY StartupAssumption, WindowAssumption DEF BootInv, BootTypeOK
<1>2. binary' = binary /\ OneServer(binary, d)
  BY DEF BootStep, Connect, Retry, Wake, BootClock, Boot, BootDone, Reach, envVars
<1>3. \/ needs = <<>> /\ boot <= MaxWait + Timeout[d] + Timeout["streams"]
      \/ needs \in {<<d>>, <<d, "streams">>} /\ boot <= waited
      \/ needs = <<"streams">> /\ boot <= MaxWait + Timeout[d] + waited
  BY <1>2 DEF WindowInv
<1>4. CASE Connect
  <2>1. needs # <<>> /\ needs' = Tail(needs) /\ waited' = 0 /\ boot' = boot /\ step = "try"
    BY <1>4 DEF Connect
  <2>2. attempt <= Timeout[Head(needs)] /\ waited <= MaxWait + attempt
    BY <2>1 DEF BootInv
  <2>3. CASE needs = <<d>> /\ boot <= waited
    BY <1>1, <2>1, <2>2, <2>3
  <2>4. CASE needs = <<d, "streams">> /\ boot <= waited
    BY <1>1, <2>1, <2>2, <2>4
  <2>5. CASE needs = <<"streams">> /\ boot <= MaxWait + Timeout[d] + waited
    <3>1. Head(needs) = "streams" /\ needs' = <<>>
      BY <2>1, <2>5
    <3>2. waited = attempt
      BY <2>1, <3>1 DEF BootInv
    <3> QED
      BY <1>1, <2>1, <2>2, <2>5, <3>1, <3>2
  <2> QED
    BY <1>3, <2>1, <2>3, <2>4, <2>5
<1>5. CASE BootClock
  BY <1>1, <1>3, <1>5 DEF BootClock
<1>6. CASE Boot
  BY <1>1, <1>2, <1>6 DEF Boot, OneServer
<1>7. CASE BootDone
  BY <1>1, <1>7 DEF BootDone
<1>8. CASE Retry \/ Wake \/ (\E e \in DOMAIN Timeout : Reach(e)) \/ UNCHANGED <<envVars, bootVars>>
  BY <1>3, <1>8 DEF Retry, Wake, Reach, bootVars
<1> QED
  BY <1>4, <1>5, <1>6, <1>7, <1>8 DEF BootStep

\* The invariants bound the wait and the startup.
LEMMA BootInvSuffices == BootInv /\ WindowInv => StartsInWindow
<1> SUFFICES ASSUME BootInv, WindowInv PROVE StartsInWindow
  OBVIOUS
<1>1. needs # <<>> => waited <= MaxWait + Timeout[Head(needs)]
  BY StartupAssumption, HeadTail DEF BootInv, BootTypeOK
<1>2. ASSUME ~({"postgres", "nats"} \subseteq Needed) PROVE boot < Window
  <2>1. PICK d \in DOMAIN Timeout : OneServer(binary, d)
    BY <1>2, WindowAssumption DEF Needed, BootInv, BootTypeOK
  <2>2. /\ MaxWait \in Nat /\ Timeout[d] \in Nat /\ Timeout["streams"] \in Nat
        /\ boot \in Nat /\ waited \in Nat /\ attempt \in Nat /\ Window \in Nat
    BY StartupAssumption, WindowAssumption DEF BootInv, BootTypeOK
  <2>3. MaxWait + Timeout[d] + Timeout["streams"] < Window
    BY <2>1 DEF OneServer
  <2>4. CASE needs = <<>> /\ boot <= MaxWait + Timeout[d] + Timeout["streams"]
    BY <2>2, <2>3, <2>4
  <2>5. CASE needs \in {<<d>>, <<d, "streams">>} /\ boot <= waited
    <3>1. needs # <<>> /\ Head(needs) = d
      BY <2>5
    <3> QED
      BY <1>1, <2>2, <2>3, <2>5, <3>1
  <2>6. CASE needs = <<"streams">> /\ boot <= MaxWait + Timeout[d] + waited
    <3>1. needs # <<>> /\ Head(needs) = "streams"
      BY <2>6
    <3>2. waited <= Timeout["streams"]
      BY <2>2, <3>1 DEF BootInv
    <3> QED
      BY <2>2, <2>3, <2>6, <3>2
  <2> QED
    BY <2>1, <2>4, <2>5, <2>6 DEF WindowInv
<1> QED
  BY <1>1, <1>2 DEF StartsInWindow

-----------------------------------------------------------------------------
(* The shutdown *)

\* Run, Workers.Wait: when each phase of the shutdown begins at the latest.
PodInv ==
  /\ phase \in {"connect", "serve", "shutdown", "wait", "flush", "exited"}
  /\ timer \in 0..Limit(phase)
  /\ stopping \in BOOLEAN /\ deleted \in BOOLEAN /\ cancelled \in BOOLEAN
  /\ age \in 0..Grace
  /\ signal \in {"none", "run", "early"}
  /\ request \in [Requests -> {"none", "served", "done"}]
  /\ hooks \subseteq HooksOf[binary] /\ workers \subseteq WorkersOf[binary]
  /\ code \in {0, 1}
  /\ ~stopping => age = 0
  /\ signal = "none" => age <= PreStop
  /\ phase = "shutdown" => signal = "run"
  /\ signal = "run" =>
       /\ phase = "shutdown" => age <= PreStop + timer
       /\ phase = "wait" => age <= PreStop + HTTP + timer
       /\ phase = "flush" => age <= PreStop + HTTP + Work + timer
       /\ phase \notin {"connect", "serve"}

\* The limits of the phases as numbers.
LEMMA Limits ==
  /\ Limit("connect") = 0 /\ Limit("serve") = 0 /\ Limit("exited") = 0
  /\ Limit("shutdown") = HTTP /\ Limit("wait") = Work /\ Limit("flush") = Flush
  BY SMTT(20) DEF Limit

\* server.go and the kubelet: every step keeps the schedule of the shutdown.
LEMMA PodInvStep == PodInv /\ [Next]_vars => PodInv'
<1> SUFFICES ASSUME PodInv, [Next]_vars PROVE PodInv'
  OBVIOUS
<1> USE LifecycleAssumption, Limits DEF PodInv, podVars, serverVars, envVars, Enter
<1>1. CASE Starting
  BY <1>1 DEF Starting, Connect, Retry, Wake
<1>2. CASE Started
  BY <1>2 DEF Started, BootDone
<1>3. CASE NotStarted
  BY <1>3 DEF NotStarted, BootDone
<1>4. CASE DependencyUp
  BY <1>4 DEF DependencyUp, Reach
<1>5. CASE Beating
  BY <1>5 DEF Beating
<1>6. CASE ListenError
  BY <1>6 DEF ListenError
<1>24. CASE BridgeFails
  BY <1>24 DEF BridgeFails
<1>7. CASE Delete
  BY <1>7 DEF Delete
<1>8. CASE Unhealthy
  BY <1>8 DEF Unhealthy
<1>9. CASE SignalKills
  BY <1>9 DEF SignalKills, SignalDue, BootDone
<1>10. CASE SignalEarly
  BY <1>10 DEF SignalEarly, SignalDue
<1>11. CASE Signal
  BY <1>11 DEF Signal, SignalDue
<1>12. CASE ShutdownDone
  BY <1>12 DEF ShutdownDone
<1>13. CASE ShutdownTimeout
  BY <1>13 DEF ShutdownTimeout
<1>14. CASE WaitReturns
  BY <1>14 DEF WaitReturns
<1>15. CASE Exit
  BY <1>15 DEF Exit
<1>16. CASE Kill
  BY <1>16 DEF Kill, BootDone
<1>17. CASE Restart
  <2>1. phase' = "connect" /\ timer' = 0 /\ age' = 0 /\ signal' = "none"
    BY <1>17 DEF Restart
  <2>2. /\ stopping' = FALSE /\ deleted' = deleted /\ cancelled' = FALSE
        /\ hooks' = {} /\ workers' = WorkersOf[binary'] /\ code' = 0
    BY <1>17 DEF Restart, Boot
  <2>3. request' \in [Requests -> {"none", "served", "done"}]
    BY <1>17 DEF Restart
  <2>4. timer' \in 0..Limit(phase') /\ age' \in 0..Grace /\ age' <= PreStop
    BY <2>1
  <2> QED
    BY <2>1, <2>2, <2>3, <2>4, Zenon
<1>18. ASSUME NEW r \in Requests, Accept(r) PROVE PodInv'
  BY <1>18 DEF Accept
<1>19. ASSUME NEW r \in Requests, Serve(r) PROVE PodInv'
  BY <1>19 DEF Serve
<1>20. ASSUME NEW h \in hooks, HookReturns(h) PROVE PodInv'
  BY <1>20 DEF HookReturns
<1>21. ASSUME NEW w \in workers, WorkerReturns(w) PROVE PodInv'
  BY <1>21 DEF WorkerReturns
<1>22. CASE Tick
  <2>1. /\ stopping => age < Grace /\ ~SignalDue
        /\ age' = IF stopping THEN age + 1 ELSE age
        /\ UNCHANGED <<phase, stopping, deleted, signal, request, hooks, workers, cancelled, code, binary>>
    BY <1>22 DEF Tick, BootClock
  <2>2. \/ phase \in {"connect", "serve"} /\ timer' = timer
        \/ phase \in {"shutdown", "wait", "flush"} /\ timer < Limit(phase) /\ timer' = timer + 1
    BY <1>22 DEF Tick
  <2>3. timer' \in 0..Limit(phase') /\ age' \in 0..Grace
    BY <2>1, <2>2
  <2>4. signal' = "none" => age' <= PreStop
    BY <2>1 DEF SignalDue
  <2>5. ~stopping' => age' = 0
    BY <2>1
  <2>6. CASE phase \in {"connect", "serve"} /\ timer' = timer
    BY <2>1, <2>3, <2>4, <2>5, <2>6
  <2>7. CASE phase \in {"shutdown", "wait", "flush"} /\ timer < Limit(phase) /\ timer' = timer + 1
    <3>1. signal' = "run" =>
            /\ phase' = "shutdown" => age' <= PreStop + timer'
            /\ phase' = "wait" => age' <= PreStop + HTTP + timer'
            /\ phase' = "flush" => age' <= PreStop + HTTP + Work + timer'
      BY <2>1, <2>7
    <3> QED
      BY <2>1, <2>3, <2>4, <2>5, <2>7, <3>1
  <2> QED
    BY <2>2, <2>6, <2>7
<1>23. CASE UNCHANGED vars
  BY <1>23 DEF vars
<1> QED
  BY <1>1, <1>2, <1>3, <1>4, <1>5, <1>6, <1>7, <1>8, <1>9, <1>10, <1>11, <1>12, <1>13, <1>14, <1>15, <1>16, <1>17, <1>18, <1>19, <1>20, <1>21, <1>22, <1>23, <1>24, Zenon DEF Next

\* The invariant leaves no time at which the container is killed.
LEMMA PodInvSuffices ==
  PodInv /\ BeatTypeOK /\ BootTypeOK => NeverKilled
<1> SUFFICES ASSUME PodInv, BeatTypeOK, BootTypeOK PROVE NeverKilled
  OBVIOUS
<1>1. TypeOK
  BY DEF PodInv, TypeOK
<1>2. ASSUME phase # "exited", age = Grace PROVE signal = "early"
  BY <1>2, LifecycleAssumption, Limits DEF PodInv
<1> QED
  BY <1>1, <1>2 DEF NeverKilled

-----------------------------------------------------------------------------
(* The container *)

\* Every step of the container is a step of its loop and a step of its startup.
LEMMA Parts == [Next]_vars => BeatStep /\ BootStep
<1> SUFFICES ASSUME [Next]_vars PROVE BeatStep /\ BootStep
  OBVIOUS
<1> USE DEF BeatStep, BootStep, BeatNext
<1>1. CASE Starting \/ Started \/ NotStarted \/ DependencyUp \/ SignalKills \/ Kill \/ Restart
  BY <1>1 DEF Starting, Started, NotStarted, DependencyUp, SignalKills, Kill, Restart
<1>2. CASE Beating \/ ListenError \/ BridgeFails \/ Delete \/ Unhealthy
  BY <1>2 DEF Beating, ListenError, BridgeFails, Delete, Unhealthy
<1>3. CASE \/ SignalEarly \/ Signal \/ ShutdownDone \/ ShutdownTimeout \/ WaitReturns \/ Exit
           \/ \E r \in Requests : Accept(r) \/ Serve(r)
           \/ \E h \in hooks : HookReturns(h)
           \/ \E w \in workers : WorkerReturns(w)
  BY <1>3 DEF SignalEarly, Signal, ShutdownDone, ShutdownTimeout, WaitReturns, Exit,
              Accept, Serve, HookReturns, WorkerReturns
<1>4. CASE Tick
  BY <1>4 DEF Tick
<1>5. CASE UNCHANGED vars
  BY <1>5 DEF vars
<1> QED
  BY <1>1, <1>2, <1>3, <1>4, <1>5 DEF Next

\* The three parts start in their invariants.
LEMMA InitInvs == Init => BeatInv /\ BootInv /\ WindowInv /\ PodInv
<1> SUFFICES ASSUME Init PROVE BeatInv /\ BootInv /\ WindowInv /\ PodInv
  OBVIOUS
<1>1. BeatInv
  <2>1. failures * Period = 0
    BY HeartbeatAssumption DEF Init, BeatInit
  <2> QED
    BY <2>1, HeartbeatAssumption, LimitFits DEF Init, BeatInit, BeatInv, BeatTypeOK
<1>2. BootInv
  <2>1. needs \in Seq(DOMAIN Timeout)
    BY StartupAssumption DEF Init, BootInit, Binaries
  <2> QED
    BY <2>1, HeadTail, StartupAssumption DEF Init, BootInit, BootInv, BootTypeOK
<1>4. WindowInv
  <2>1. \A d \in DOMAIN Timeout : Timeout[d] \in Nat /\ MaxWait \in Nat
    BY StartupAssumption
  <2> QED
    BY <2>1, WindowAssumption DEF Init, BootInit, WindowInv, OneServer
<1>3. PodInv
  <2>1. timer \in 0..Limit(phase) /\ age \in 0..Grace /\ age <= PreStop
    BY LifecycleAssumption, Limits DEF Init, ServerInit
  <2>2. request \in [Requests -> {"none", "served", "done"}]
    BY DEF Init, ServerInit
  <2>3. hooks \subseteq HooksOf[binary] /\ workers \subseteq WorkersOf[binary] /\ code \in {0, 1}
    BY DEF Init, ServerInit
  <2> QED
    BY <2>1, <2>2, <2>3, Zenon DEF Init, ServerInit, PodInv
<1> QED
  BY <1>1, <1>2, <1>3, <1>4

\* pkg/server, deployments/k8s: whatever requests, hooks, workers and the loop do,
\* a container whose budget fits its grace period is killed only after a SIGTERM
\* that came between ShutdownContext and Run.
THEOREM NoKill == Spec => []NeverKilled
<1>1. BeatInv /\ BootInv /\ PodInv /\ [Next]_vars => (BeatInv /\ BootInv /\ PodInv)'
  BY Parts, BeatInvStep, BootInvStep, PodInvStep
<1>2. BeatInv /\ BootInv /\ PodInv => NeverKilled
  BY PodInvSuffices DEF BeatInv, BootInv
<1> QED
  BY InitInvs, <1>1, <1>2, PTL DEF Spec

\* pkg/health: for every interval a turning loop is never restarted, and a stuck
\* one is given up within Threshold probes of the time it counts as stalled.
THEOREM StallNoticed == Spec => []StallsNoticed
<1>1. BeatInv /\ [Next]_vars => BeatInv'
  BY Parts, BeatInvStep
<1> QED
  BY InitInvs, <1>1, BeatInvSuffices, PTL DEF Spec

\* postgres.go, nats.go, the run functions: whatever the backoff, no dependency is
\* waited for longer than maxWait and one more attempt, and a binary that waits for
\* at most one server connects or gives up inside the startup probe's window.
THEOREM StartInWindow == Spec => []StartsInWindow
<1>1. BootInv /\ WindowInv /\ [Next]_vars => (BootInv /\ WindowInv)'
  BY Parts, BootInvStep, WindowInvStep
<1> QED
  BY InitInvs, <1>1, BootInvSuffices, PTL DEF Spec

-----------------------------------------------------------------------------
(* One probe *)

\* A check that was not heard of counts as timed out, the verdict is open until
\* every check was heard of or the handler gave up, and a check is heard of once.
ProbeInv ==
  /\ ProbeTypeOK
  /\ ok <=> \A c \in Checks \ left : results[c] = "ok"
  /\ \A c \in left : results[c] = "timed out"
  /\ done \subseteq left
  /\ \A c \in Checks : task[c] # "ended" => c \in left
  /\ verdict = "none" => left # {}
  /\ verdict = "ok" => left = {} /\ ok
  /\ verdict = "unavailable" => left # {} \/ ~ok

\* An answer counts against its check alone, and the last one decides.
LEMMA ReceiveInv ==
  ASSUME ProbeInv, NEW c \in Checks, Receive(c)
  PROVE  ProbeInv'
<1>1. /\ c \in left /\ c \in done /\ verdict = "none" /\ left \subseteq Checks
      /\ found[c] \in {"ok", "error"} /\ results \in [Checks -> {"timed out", "ok", "error"}]
      /\ ok \in BOOLEAN
  BY Zenon DEF ProbeInv, ProbeTypeOK, Receive
<1>2. /\ left' = left \ {c} /\ done' = done \ {c} /\ UNCHANGED <<task, found, expired>>
      /\ results' = [results EXCEPT ![c] = found[c]] /\ ok' = (ok /\ found[c] = "ok")
      /\ verdict' = IF left' # {} THEN "none" ELSE IF ok' THEN "ok" ELSE "unavailable"
  BY DEF Receive
<1>3. ok' \in BOOLEAN
  BY <1>2
<1>4. ProbeTypeOK'
  BY <1>1, <1>2, <1>3, Zenon DEF ProbeInv, ProbeTypeOK
<1>5. results'[c] = found[c] /\ \A d \in Checks : d # c => results'[d] = results[d]
  BY <1>1, <1>2, Zenon
<1>6. ok' <=> \A d \in Checks \ left' : results'[d] = "ok"
  <2>1. \A d \in Checks \ left' : d = c \/ d \in Checks \ left
    BY <1>2
  <2>2. (ok /\ found[c] = "ok") <=> \A d \in Checks \ left' : results'[d] = "ok"
    BY <1>1, <1>2, <1>5, <2>1, Zenon DEF ProbeInv
  <2> QED BY <1>2, <2>2, Zenon
<1>7. /\ \A d \in left' : results'[d] = "timed out"
      /\ done' \subseteq left'
      /\ \A d \in Checks : task'[d] # "ended" => d \in left'
  BY <1>1, <1>2, <1>5, Zenon DEF ProbeInv, ProbeTypeOK
<1>8. /\ verdict' = "none" => left' # {}
      /\ verdict' = "ok" => left' = {} /\ ok'
      /\ verdict' = "unavailable" => left' # {} \/ ~ok'
  <2>1. CASE left' # {}
    BY <1>2, <2>1
  <2>2. CASE left' = {} /\ ok'
    BY <1>2, <2>2
  <2>3. CASE left' = {} /\ ~ok'
    BY <1>2, <2>3
  <2> QED BY <2>1, <2>2, <2>3
<1> QED BY <1>4, <1>6, <1>7, <1>8, Zenon DEF ProbeInv

\* A probe starts with every check out and nothing heard.
LEMMA ProbeStart == ProbeInit => ProbeInv
BY Zenon DEF ProbeInit, ProbeInv, ProbeTypeOK

\* healthHandler and its goroutines: every step keeps ProbeInv.
LEMMA ProbeStep == ProbeInv /\ [ProbeNext]_probeVars => ProbeInv'
<1> SUFFICES ASSUME ProbeInv, [ProbeNext]_probeVars PROVE ProbeInv'
  OBVIOUS
<1>1. CASE UNCHANGED probeVars
  BY <1>1, Zenon DEF probeVars, ProbeInv, ProbeTypeOK
<1>2. ASSUME NEW c \in Checks, NEW r \in {"ok", "error"}, Return(c, r) PROVE ProbeInv'
  BY <1>2, Zenon DEF Return, ProbeInv, ProbeTypeOK
<1>3. ASSUME NEW c \in Checks, Send(c) PROVE ProbeInv'
  BY <1>3, Zenon DEF Send, ProbeInv, ProbeTypeOK
<1>4. CASE ContextDone
  BY <1>4, Zenon DEF ContextDone, ProbeInv, ProbeTypeOK
<1>5. CASE GiveUp
  BY <1>5, Zenon DEF GiveUp, ProbeInv, ProbeTypeOK
<1> QED BY <1>1, <1>2, <1>3, <1>4, <1>5, ReceiveInv DEF ProbeNext

\* healthHandler answers 200 exactly when every check it reports is ok, for any
\* number of checks, returned, late or stuck.
THEOREM ProbeStatus == ProbeSpec => []StatusMatchesResults
<1>1. ProbeInv => StatusMatchesResults
  <2> SUFFICES ASSUME ProbeInv, verdict # "none"
               PROVE  (verdict = "ok") <=> \A c \in Checks : results[c] = "ok"
    BY Zenon DEF ProbeInv, StatusMatchesResults
  <2>1. CASE verdict = "ok"
    BY <2>1, Zenon DEF ProbeInv, ProbeTypeOK
  <2>2. CASE verdict = "unavailable"
    BY <2>2, Zenon DEF ProbeInv, ProbeTypeOK
  <2> QED BY <2>1, <2>2, Zenon DEF ProbeInv, ProbeTypeOK
<1> QED BY <1>1, ProbeStart, ProbeStep, PTL DEF ProbeSpec
=============================================================================
