------------------------------ MODULE Consumer ------------------------------
(***************************************************************************)
(* A consumer of one topic (pkg/events, Bridge.Run) over either transport. *)
(* JetStream: the server's explicit-ack bookkeeping (AckWait, MaxDeliver), *)
(* and the instance that pulls messages, hands them from the Consume       *)
(* callback to a bounded worker pool over the channel work, acks after the *)
(* handler, and winds all of this down when its context ends.  Subscribe   *)
(* puts a second channel, out, behind the pool and acks what it put there. *)
(* Redis Pub/Sub: one goroutine moves what the client received to out.     *)
(* Both servers are modelled from how the code uses them.                  *)
(***************************************************************************)
EXTENDS Naturals, Sequences, Functions, FiniteSets

CONSTANTS
  Msgs,          \* messages, each published at most once
  Malformed,     \* those that do not decode
  Workers,       \* the worker pool
  PullMax,       \* PullMaxMessages, or the Redis client's buffer
  Buffer,        \* capacity of out
  MaxDeliver,    \* deliveries before the server gives up
  MaxFaults,     \* bound on handler errors, lost acks and slow handlers
  MaxShutdowns   \* bound on shutdowns

None == "none"

ASSUME ConsumerAssumption ==
  /\ Malformed \subseteq Msgs
  /\ None \notin Msgs
  /\ IsFiniteSet(Workers) /\ Workers # {}
  /\ PullMax \in Nat \ {0} /\ Buffer \in Nat \ {0} /\ MaxDeliver \in Nat \ {0}
  /\ MaxFaults \in Nat /\ MaxShutdowns \in Nat

VARIABLES
  mode,       \* how the instance subscribes; never changes
  srv,        \* srv[m]: the server's view of m for this consumer
  tries,      \* tries[m]: deliveries of m
  handled,    \* handled[m]: handler calls that returned nil
  proc,       \* the instance; "stopping" once its context is done
  returned,   \* SubscribeAck has returned
  consuming,  \* the Consume context is not stopped
  inbox,      \* pulled, waiting for the callback
  cb,         \* the message in the callback
  work,       \* channel work
  closed,     \* work is closed
  busy,       \* busy[w]: the message worker w processes, and how far
  out,        \* channel out of Subscribe
  outClosed,  \* out is closed
  faults,     \* faults so far
  shutdowns   \* shutdowns so far

srvVars == <<srv, tries>>
poolVars == <<inbox, cb, work, busy, out>>
lifeVars == <<mode, proc, returned, consuming, closed, outClosed, shutdowns>>
vars == <<srvVars, handled, poolVars, lifeVars, faults>>

Idle == [msg |-> None, at |-> "idle"]
Job(m, at) == [msg |-> m, at |-> at]

\* What the server has done with: "sent" is all that Pub/Sub knows of a message.
Settled == {"acked", "termed", "dead", "missed", "sent"}

\* SubscribeAck on a durable consumer, or on an ephemeral one per instance
\* (WithBroadcast); NATSBus.Subscribe; RedisBus.Subscribe.
Modes == {"durable", "broadcast", "channel", "redis"}
Acking == mode \in {"durable", "broadcast"}

TypeOK ==
  /\ srv \in [Msgs -> {"unpublished", "ready", "out"} \cup Settled]
  /\ tries \in [Msgs -> 0..MaxDeliver]
  /\ handled \in [Msgs -> Nat]
  /\ proc \in {"up", "stopping", "down"}
  /\ mode \in Modes
  /\ {returned, consuming, closed, outClosed} \subseteq BOOLEAN
  /\ inbox \in Seq(Msgs) /\ Len(inbox) <= PullMax
  /\ cb \in Msgs \cup {None}
  /\ work \in Seq(Msgs) /\ Len(work) <= Cardinality(Workers)
  /\ busy \in [Workers -> {Idle} \cup [msg : Msgs, at : {"handler", "ack"}]]
  /\ out \in Seq(Msgs) /\ Len(out) <= Buffer
  /\ faults \in 0..MaxFaults /\ shutdowns \in 0..MaxShutdowns

Init ==
  /\ mode \in Modes
  /\ srv = [m \in Msgs |-> "unpublished"] /\ tries = [m \in Msgs |-> 0]
  /\ handled = [m \in Msgs |-> 0]
  /\ proc = "up" /\ returned = FALSE /\ consuming = TRUE /\ closed = FALSE
  /\ inbox = <<>> /\ cb = None /\ work = <<>>
  /\ busy = [w \in Workers |-> Idle]
  /\ out = <<>> /\ outClosed = FALSE
  /\ faults = 0 /\ shutdowns = 0

Fault == faults < MaxFaults /\ faults' = faults + 1

\* A copy of m is somewhere in the instance.
Held(m) == m \in Range(inbox) \cup Range(work) \cup {cb} \cup {busy[w].msg : w \in Workers}

\* The server's answers to an ack, a term and a nak of a copy of m.
Acked(m) == [srv EXCEPT ![m] = IF @ = "missed" THEN @ ELSE "acked"]
Termed(m) == [srv EXCEPT ![m] = IF @ = "missed" THEN @ ELSE "termed"]
Naked(m) ==
  [srv EXCEPT ![m] = IF @ # "out" THEN @ ELSE IF tries[m] < MaxDeliver THEN "ready" ELSE "dead"]

-----------------------------------------------------------------------------
(* The servers *)

Publish(m) ==
  /\ mode # "redis" /\ srv[m] = "unpublished"
  /\ srv' = [srv EXCEPT ![m] = IF mode = "broadcast" /\ proc = "down" THEN "missed" ELSE "ready"]
  /\ UNCHANGED <<tries, handled, poolVars, lifeVars, faults>>

\* Pub/Sub: to whoever listens; the client drops what finds its buffer full.
PubSub(m) ==
  /\ mode = "redis" /\ srv[m] = "unpublished"
  /\ IF proc = "down"
       THEN srv' = [srv EXCEPT ![m] = "missed"] /\ UNCHANGED <<inbox, faults>>
       ELSE IF Len(inbox) < PullMax
         THEN srv' = [srv EXCEPT ![m] = "sent"] /\ inbox' = Append(inbox, m) /\ UNCHANGED faults
         ELSE srv' = [srv EXCEPT ![m] = "missed"] /\ Fault /\ UNCHANGED inbox
  /\ UNCHANGED <<tries, handled, cb, work, busy, out, lifeVars>>

Deliver(m) ==
  /\ srv[m] = "ready" /\ consuming /\ Len(inbox) < PullMax
  /\ srv' = [srv EXCEPT ![m] = "out"]
  /\ tries' = [tries EXCEPT ![m] = @ + 1]
  /\ inbox' = Append(inbox, m)
  /\ UNCHANGED <<handled, cb, work, busy, out, lifeVars, faults>>

\* AckWait expires; while a copy is still held, the instance was too slow.
AckWaitExpires(m) ==
  /\ srv[m] = "out"
  /\ IF Held(m) THEN Fault ELSE UNCHANGED faults
  /\ srv' = Naked(m)
  /\ UNCHANGED <<tries, handled, poolVars, lifeVars>>

-----------------------------------------------------------------------------
(* The Consume callback *)

Callback ==
  /\ consuming /\ ~(mode = "redis" /\ outClosed) /\ cb = None /\ inbox # <<>>
  /\ cb' = Head(inbox) /\ inbox' = Tail(inbox)
  /\ UNCHANGED <<srvVars, handled, work, busy, out, lifeVars, faults>>

\* case work <- msg
Enqueue ==
  /\ mode # "redis" /\ cb # None /\ ~closed /\ Len(work) < Cardinality(Workers)
  /\ work' = Append(work, cb) /\ cb' = None
  /\ UNCHANGED <<srvVars, handled, inbox, busy, out, lifeVars, faults>>

\* case <-ctx.Done()
NakAtShutdown ==
  /\ mode # "redis" /\ cb # None /\ proc = "stopping"
  /\ srv' = Naked(cb) /\ cb' = None
  /\ UNCHANGED <<tries, handled, inbox, work, busy, out, lifeVars, faults>>

-----------------------------------------------------------------------------
(* The worker pool: process *)

Take(w) ==
  /\ busy[w] = Idle /\ work # <<>>
  /\ busy' = [busy EXCEPT ![w] = Job(Head(work), "handler")]
  /\ work' = Tail(work)
  /\ UNCHANGED <<srvVars, handled, inbox, cb, out, lifeVars, faults>>

\* A malformed message that takes its worker with it.
Terminate_KillsWorker(w) ==
  LET m == busy[w].msg IN
  /\ busy[w].at = "handler" /\ m \in Malformed
  /\ srv' = Termed(m)
  /\ UNCHANGED <<tries, handled, poolVars, lifeVars, faults>>

Terminate(w) ==
  LET m == busy[w].msg IN
  /\ busy[w].at = "handler" /\ m \in Malformed
  /\ srv' = Termed(m)
  /\ busy' = [busy EXCEPT ![w] = Idle]
  /\ UNCHANGED <<tries, handled, inbox, cb, work, out, lifeVars, faults>>

\* The handler given to SubscribeAck returns nil.
Handle(w) ==
  LET m == busy[w].msg IN
  /\ Acking /\ busy[w].at = "handler" /\ m \notin Malformed
  /\ handled' = [handled EXCEPT ![m] = @ + 1]
  /\ busy' = [busy EXCEPT ![w] = Job(m, "ack")]
  /\ UNCHANGED <<srvVars, inbox, cb, work, out, lifeVars, faults>>

\* A failed handler whose message is acked all the same.
HandlerError_Acks(w) ==
  LET m == busy[w].msg IN
  /\ Acking /\ busy[w].at = "handler" /\ m \notin Malformed
  /\ Fault
  /\ srv' = Acked(m)
  /\ busy' = [busy EXCEPT ![w] = Idle]
  /\ UNCHANGED <<tries, handled, inbox, cb, work, out, lifeVars>>

HandlerError(w) ==
  LET m == busy[w].msg IN
  /\ Acking /\ busy[w].at = "handler" /\ m \notin Malformed
  /\ Fault
  /\ srv' = Naked(m)
  /\ busy' = [busy EXCEPT ![w] = Idle]
  /\ UNCHANGED <<tries, handled, inbox, cb, work, out, lifeVars>>

\* Subscribe's handler: case out <- e
HandOver(w) ==
  LET m == busy[w].msg IN
  /\ mode = "channel" /\ busy[w].at = "handler" /\ m \notin Malformed
  /\ ~outClosed /\ Len(out) < Buffer
  /\ out' = Append(out, m)
  /\ busy' = [busy EXCEPT ![w] = Job(m, "ack")]
  /\ UNCHANGED <<srvVars, handled, inbox, cb, work, lifeVars, faults>>

\* Subscribe's handler: case <-ctx.Done()
HandOverEnds(w) ==
  LET m == busy[w].msg IN
  /\ mode = "channel" /\ busy[w].at = "handler" /\ m \notin Malformed
  /\ proc = "stopping"
  /\ srv' = Naked(m)
  /\ busy' = [busy EXCEPT ![w] = Idle]
  /\ UNCHANGED <<tries, handled, inbox, cb, work, out, lifeVars, faults>>

\* A handled message that is not acked.
Ack_Forgotten(w) ==
  /\ busy[w].at = "ack"
  /\ busy' = [busy EXCEPT ![w] = Idle]
  /\ UNCHANGED <<srvVars, handled, inbox, cb, work, out, lifeVars, faults>>

Ack(w) ==
  LET m == busy[w].msg IN
  /\ busy[w].at = "ack"
  /\ srv' = Acked(m)
  /\ busy' = [busy EXCEPT ![w] = Idle]
  /\ UNCHANGED <<tries, handled, inbox, cb, work, out, lifeVars, faults>>

AckLost(w) ==
  /\ busy[w].at = "ack"
  /\ Fault
  /\ busy' = [busy EXCEPT ![w] = Idle]
  /\ UNCHANGED <<srvVars, handled, inbox, cb, work, out, lifeVars>>

-----------------------------------------------------------------------------
(* The Redis goroutine, and the bridge that reads out *)

\* It drops what does not decode and forwards the rest.
Pump ==
  /\ mode = "redis" /\ cb # None
  /\ IF cb \in Malformed
       THEN UNCHANGED out
       ELSE Len(out) < Buffer /\ out' = Append(out, cb)
  /\ cb' = None
  /\ UNCHANGED <<srvVars, handled, inbox, work, busy, lifeVars, faults>>

\* case <-ctx.Done(): it returns, and closes out itself.
PumpEnds ==
  /\ mode = "redis" /\ cb \in Msgs \ Malformed /\ proc = "stopping"
  /\ cb' = None /\ outClosed' = TRUE
  /\ UNCHANGED <<srvVars, handled, inbox, work, busy, out, mode, proc, returned, consuming, closed,
                 shutdowns, faults>>

\* Bridge.Run dispatches the next event of out.
Dispatch ==
  /\ out # <<>> /\ ~returned
  /\ handled' = [handled EXCEPT ![Head(out)] = @ + 1]
  /\ out' = Tail(out)
  /\ UNCHANGED <<srvVars, inbox, cb, work, busy, lifeVars, faults>>

-----------------------------------------------------------------------------
(* Shutdown and restart *)

\* The subscription's context ends.
Cancel ==
  /\ proc = "up" /\ shutdowns < MaxShutdowns
  /\ proc' = "stopping" /\ shutdowns' = shutdowns + 1
  /\ UNCHANGED <<srvVars, handled, mode, returned, consuming, closed, outClosed, poolVars, faults>>

\* SubscribeAck, or the bridge, returns once its context is done.
Return ==
  /\ proc = "stopping" /\ ~returned
  /\ returned' = TRUE
  /\ UNCHANGED <<srvVars, handled, mode, proc, consuming, closed, outClosed, shutdowns, poolVars, faults>>

\* consume.Stop() discards what the callback has not seen and waits for nobody.
StopConsume ==
  /\ mode # "redis" /\ proc = "stopping" /\ consuming
  /\ consuming' = FALSE /\ inbox' = <<>>
  /\ UNCHANGED <<srvVars, handled, mode, proc, returned, closed, outClosed, shutdowns, cb, work, busy, out, faults>>

\* close(work)
CloseWork ==
  /\ proc = "stopping" /\ ~consuming /\ ~closed
  /\ closed' = TRUE
  /\ UNCHANGED <<srvVars, handled, mode, proc, returned, consuming, outClosed, shutdowns, poolVars, faults>>

\* Subscribe's second goroutine: close(out)
CloseOut ==
  /\ mode = "channel" /\ proc = "stopping" /\ ~outClosed
  /\ outClosed' = TRUE
  /\ UNCHANGED <<srvVars, handled, mode, proc, returned, consuming, closed, shutdowns, poolVars, faults>>

\* A goroutine chooses to send on a channel that is closed.
Panic ==
  \/ cb # None /\ closed
  \/ mode = "channel" /\ outClosed
     /\ \E w \in Workers : busy[w].at = "handler" /\ busy[w].msg \notin Malformed

\* The process ends after its subscriptions have returned, or by a panic.
Exit ==
  /\ proc = "stopping" /\ (returned \/ Panic)
  /\ proc' = "down" /\ returned' = FALSE /\ consuming' = FALSE
  /\ closed' = FALSE /\ outClosed' = FALSE
  /\ inbox' = <<>> /\ cb' = None /\ work' = <<>> /\ busy' = [w \in Workers |-> Idle] /\ out' = <<>>
  /\ UNCHANGED <<srvVars, handled, mode, shutdowns, faults>>

\* A durable consumer goes on where it was; an ephemeral one is new.
Start ==
  /\ proc = "down"
  /\ proc' = "up" /\ consuming' = TRUE
  /\ srv' = [m \in Msgs |-> IF mode = "broadcast" /\ srv[m] \in {"ready", "out"} THEN "missed" ELSE srv[m]]
  /\ UNCHANGED <<tries, handled, mode, returned, closed, outClosed, shutdowns, poolVars, faults>>

-----------------------------------------------------------------------------
Process(w) == Take(w) \/ Terminate(w) \/ Handle(w) \/ HandOver(w) \/ HandOverEnds(w) \/ Ack(w)

Next ==
  \/ \E m \in Msgs : Publish(m) \/ PubSub(m) \/ Deliver(m) \/ AckWaitExpires(m)
  \/ Callback \/ Enqueue \/ NakAtShutdown
  \/ \E w \in Workers : Process(w) \/ HandlerError(w) \/ AckLost(w)
  \/ Pump \/ PumpEnds \/ Dispatch
  \/ Cancel \/ Return \/ StopConsume \/ CloseWork \/ CloseOut \/ Exit \/ Start

Spec == Init /\ [][Next]_vars

\* The server delivers and times out, the instance's goroutines run, handlers
\* return, and a stopped instance is started again.
Fairness ==
  /\ \A m \in Msgs : WF_vars(Deliver(m)) /\ WF_vars(~Held(m) /\ AckWaitExpires(m))
  /\ WF_vars(Callback) /\ WF_vars(Enqueue) /\ WF_vars(NakAtShutdown)
  /\ \A w \in Workers : WF_vars(Process(w))
  /\ WF_vars(Pump \/ PumpEnds) /\ WF_vars(Dispatch)
  /\ WF_vars(Return) /\ WF_vars(StopConsume) /\ WF_vars(CloseWork) /\ WF_vars(CloseOut)
  /\ WF_vars(Exit) /\ WF_vars(Start)

FairSpec == Spec /\ Fairness

-----------------------------------------------------------------------------
(* What the consumer promises *)

\* process: a message leaves the pending set by an ack only after its handler
\* returned nil; behind Subscribe, only after it is in the channel, from where
\* nothing but a shutdown takes it before it is dispatched.
\* Every variable keeps its type; the buffers keep their bounds.
AckAfterHandling ==
  /\ TypeOK
  /\ \A m \in Msgs : srv[m] = "acked" =>
       \/ handled[m] > 0
       \/ mode = "channel" /\ (m \in Range(out) \/ shutdowns > 0)

\* The handler sees a message again only for a fault or a shutdown, and never over
\* Pub/Sub.
DuplicatesNeedFaults ==
  \A m \in Msgs : handled[m] <= IF mode = "redis" THEN 1 ELSE 1 + faults + shutdowns

\* At least once: while fewer things go wrong than a message has deliveries, every
\* published event that decodes reaches its handler, unless a shutdown used up
\* deliveries (GivenUpWasTried below) or ended the subscription; over Pub/Sub,
\* while nothing goes wrong.
AtLeastOnce ==
  \A m \in Msgs \ Malformed :
    (srv[m] # "unpublished") ~>
      (handled[m] > 0 \/ shutdowns > 0 \/ (mode = "redis" /\ faults > 0))

\* No message stays pending for ever, across any number of shutdowns: it is
\* acked, terminated, given up or, by a broadcast consumer, missed.
Settles == \A m \in Msgs : (srv[m] # "unpublished") ~> (srv[m] \in Settled)

-----------------------------------------------------------------------------
(* Sentences of the documentation that the code does not keep *)

\* SubscribeAck's comment: "then drains in-flight work and stops the consumers".
DrainedAtReturn ==
  returned => ~consuming /\ cb = None /\ work = <<>> /\ \A w \in Workers : busy[w] = Idle

\* The callback's comment: "shutting down - let it redeliver later".  A message is
\* not given up by shutting down, before any handler has seen it.
GivenUpWasTried ==
  [][\A m \in Msgs : srv'[m] = "dead" /\ srv[m] # "dead" => ~NakAtShutdown]_vars

\* close(work)'s comment: "let workers drain remaining buffered messages".  Nothing
\* sends on work after it is closed.
NoSendOnClosed == closed => cb = None

\* Subscribe's comment: "Close the channel when ctx ends so range-based consumers
\* terminate".  No worker is left that may send on it.
NoPanic == ~Panic
=============================================================================
