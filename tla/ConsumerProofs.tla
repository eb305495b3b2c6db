--------------------------- MODULE ConsumerProofs ---------------------------
(***************************************************************************)
(* That nothing is acked before it was handled, that every buffer keeps    *)
(* its bound, and that a handler sees a message again only for a fault or  *)
(* a shutdown, for any messages, workers, buffer sizes, delivery limits    *)
(* and numbers of faults and shutdowns.                                    *)
(*                                                                         *)
(* An ack is sent in a step of its own after the handler, so what has to   *)
(* be kept is that every message a worker is about to ack is vouched for   *)
(* (Vouched), whatever became of it in the meantime: behind Subscribe it   *)
(* may have been taken from out, which dispatches it, or lost with the     *)
(* process, which takes a shutdown (StopCounted).  The delivery count      *)
(* stays within MaxDeliver because what is to be delivered has deliveries  *)
(* left (Deliverable).                                                     *)
(*                                                                         *)
(* That handler calls are bounded is shown by an account (CopiesInv): what *)
(* a message was handled, the copies of it in the instance that may still  *)
(* be, and one delivery if the server has yet to deliver it or nobody      *)
(* holds what it delivered, cost no more than the faults and the shutdowns *)
(* so far allow.  Moving a message changes neither side.                   *)
(***************************************************************************)
EXTENDS Consumer, FiniteSetTheorems, TLAPS

States == {"unpublished", "ready", "out"} \cup Settled

SrvTyped ==
  /\ srv \in [Msgs -> States]
  /\ tries \in [Msgs -> 0..MaxDeliver]
  /\ handled \in [Msgs -> Nat]

Deliverable ==
  \A m \in Msgs : /\ srv[m] = "unpublished" => tries[m] = 0
                  /\ srv[m] = "ready" => tries[m] < MaxDeliver

PoolTyped ==
  /\ inbox \in Seq(Msgs) /\ Len(inbox) <= PullMax
  /\ cb \in Msgs \cup {None}
  /\ work \in Seq(Msgs) /\ Len(work) <= Cardinality(Workers)
  /\ busy \in [Workers -> {Idle} \cup [msg : Msgs, at : {"handler", "ack"}]]
  /\ out \in Seq(Msgs) /\ Len(out) <= Buffer

Flags == {returned, consuming, closed, outClosed} \subseteq BOOLEAN

CountsTyped ==
  /\ proc \in {"up", "stopping", "down"} /\ mode \in Modes
  /\ faults \in 0..MaxFaults /\ shutdowns \in 0..MaxShutdowns

StopCounted == proc = "stopping" => shutdowns > 0

\* What entitles the server to an ack of m.
Done(m) ==
  \/ handled[m] > 0
  \/ mode = "channel" /\ (m \in Range(out) \/ shutdowns > 0)

Vouched ==
  /\ \A m \in Msgs : srv[m] = "acked" => Done(m)
  /\ \A w \in Workers : busy[w].at = "ack" => Done(busy[w].msg)

ConsumerInv ==
  SrvTyped /\ Deliverable /\ PoolTyped /\ Flags /\ CountsTyped /\ StopCounted /\ Vouched

-----------------------------------------------------------------------------
(* Lemmas on sequences and on the server's answers *)

LEMMA RangeAppend ==
  ASSUME NEW S, NEW s \in Seq(S), NEW e \in S
  PROVE  Append(s, e) \in Seq(S) /\ Len(Append(s, e)) = Len(s) + 1
         /\ e \in Range(Append(s, e)) /\ Range(s) \subseteq Range(Append(s, e))
  BY SMTT(20) DEF Range

LEMMA RangeTail ==
  ASSUME NEW S, NEW s \in Seq(S), s # <<>>
  PROVE  Head(s) \in S /\ Tail(s) \in Seq(S) /\ Len(Tail(s)) = Len(s) - 1
         /\ \A e \in Range(s) : e = Head(s) \/ e \in Range(Tail(s))
<1>1. Head(s) \in S /\ Tail(s) \in Seq(S) /\ Len(Tail(s)) = Len(s) - 1
  OBVIOUS
<1>2. ASSUME NEW i \in DOMAIN s PROVE s[i] = Head(s) \/ s[i] \in Range(Tail(s))
  <2>1. CASE i = 1
    BY <2>1
  <2>2. CASE i # 1
    <3>1. i - 1 \in 1..Len(Tail(s)) /\ Tail(s)[i - 1] = s[i]
      BY <2>2
    <3> QED
      BY <3>1, <1>1 DEF Range
  <2> QED
    BY <2>1, <2>2
<1> QED
  BY <1>1, <1>2 DEF Range

LEMMA PoolSize == Cardinality(Workers) \in Nat
  BY ConsumerAssumption, FS_CardinalityType

\* A nak takes nothing into the acked state and redelivers only within MaxDeliver.
LEMMA NakedSound ==
  ASSUME SrvTyped, Deliverable, NEW m \in Msgs
  PROVE  /\ Naked(m) \in [Msgs -> States]
         /\ \A n \in Msgs : /\ Naked(m)[n] = "acked" => srv[n] = "acked"
                            /\ Naked(m)[n] = "unpublished" => tries[n] = 0
                            /\ Naked(m)[n] = "ready" => tries[n] < MaxDeliver
  BY ConsumerAssumption DEF SrvTyped, Deliverable, Naked, States, Settled

LEMMA AckedSound ==
  ASSUME SrvTyped, Deliverable, NEW m \in Msgs
  PROVE  /\ Acked(m) \in [Msgs -> States]
         /\ \A n \in Msgs : /\ Acked(m)[n] = "acked" => n = m \/ srv[n] = "acked"
                            /\ Acked(m)[n] = "unpublished" => tries[n] = 0
                            /\ Acked(m)[n] = "ready" => tries[n] < MaxDeliver
  BY DEF SrvTyped, Deliverable, Acked, States, Settled

LEMMA TermedSound ==
  ASSUME SrvTyped, Deliverable, NEW m \in Msgs
  PROVE  /\ Termed(m) \in [Msgs -> States]
         /\ \A n \in Msgs : /\ Termed(m)[n] = "acked" => srv[n] = "acked"
                            /\ Termed(m)[n] = "unpublished" => tries[n] = 0
                            /\ Termed(m)[n] = "ready" => tries[n] < MaxDeliver
  BY DEF SrvTyped, Deliverable, Termed, States, Settled

-----------------------------------------------------------------------------
(* Parts of the invariant that few steps touch *)

\* The steps that leave the instance's life alone.
Running ==
  \/ \E m \in Msgs : Publish(m) \/ PubSub(m) \/ Deliver(m) \/ AckWaitExpires(m)
  \/ Callback \/ Enqueue \/ NakAtShutdown
  \/ \E w \in Workers : Process(w) \/ HandlerError(w) \/ AckLost(w)
  \/ Pump \/ Dispatch

LEMMA RunningKeepsLife == Running => UNCHANGED lifeVars
  BY DEF Running, Publish, PubSub, Deliver, AckWaitExpires, Callback, Enqueue, NakAtShutdown,
         Process, Take, Terminate, Handle, HandOver, HandOverEnds, Ack, HandlerError, AckLost,
         Pump, Dispatch

LEMMA NextSplit ==
  Next => \/ Running
          \/ PumpEnds \/ Cancel \/ Return \/ StopConsume \/ CloseWork \/ CloseOut \/ Exit \/ Start
  BY DEF Next, Running

LEMMA FlagsInv == ASSUME Flags, Next PROVE Flags'
<1>1. CASE Running
  <2>1. /\ returned' = returned /\ consuming' = consuming
        /\ closed' = closed /\ outClosed' = outClosed
    BY <1>1, RunningKeepsLife DEF lifeVars
  <2> QED
    BY <2>1, Zenon DEF Flags
<1>2. CASE PumpEnds
  BY <1>2, Zenon DEF PumpEnds, Flags
<1>3. CASE Cancel
  BY <1>3, Zenon DEF Cancel, Flags
<1>4. CASE Return
  BY <1>4, Zenon DEF Return, Flags
<1>5. CASE StopConsume
  BY <1>5, Zenon DEF StopConsume, Flags
<1>6. CASE CloseWork
  BY <1>6, Zenon DEF CloseWork, Flags
<1>7. CASE CloseOut
  BY <1>7, Zenon DEF CloseOut, Flags
<1>8. CASE Exit
  BY <1>8, Zenon DEF Exit, Flags
<1>9. CASE Start
  BY <1>9, Zenon DEF Start, Flags
<1> QED
  BY <1>1, <1>2, <1>3, <1>4, <1>5, <1>6, <1>7, <1>8, <1>9, NextSplit

\* At most one fault a step.
LEMMA FaultsInv == ASSUME CountsTyped, Next PROVE faults' \in 0..MaxFaults
<1>1. faults' = faults \/ Fault
  BY DEF Next, Publish, PubSub, Deliver, AckWaitExpires, Callback, Enqueue, NakAtShutdown,
         Process, Take, Terminate, Handle, HandOver, HandOverEnds, Ack, HandlerError, AckLost,
         Pump, Dispatch, PumpEnds, Cancel, Return, StopConsume, CloseWork, CloseOut, Exit, Start
<1> QED
  BY <1>1, ConsumerAssumption DEF CountsTyped, Fault

LEMMA CountsInv ==
  ASSUME CountsTyped, StopCounted, Next
  PROVE  CountsTyped' /\ StopCounted'
<1>1. CASE Running
  BY <1>1, RunningKeepsLife, FaultsInv DEF lifeVars, CountsTyped, StopCounted
<1>2. CASE PumpEnds \/ Cancel \/ Return \/ StopConsume \/ CloseWork \/ CloseOut \/ Exit \/ Start
  BY <1>2, FaultsInv, ConsumerAssumption
  DEF CountsTyped, StopCounted, PumpEnds, Cancel, Return, StopConsume, CloseWork, CloseOut,
      Exit, Start
<1> QED
  BY <1>1, <1>2, NextSplit

-----------------------------------------------------------------------------
(* One lemma per group of steps *)

\* What a step owes: types, no entitlement lost, and one for every new ack.
LEMMA StepInv ==
  ASSUME ConsumerInv, Next, SrvTyped', Deliverable', PoolTyped',
         \A m \in Msgs : Done(m) => Done(m)',
         \A m \in Msgs : srv'[m] = "acked" => srv[m] = "acked" \/ Done(m)',
         \A w \in Workers : busy'[w].at = "ack" =>
           busy'[w] = busy[w] \/ \E m \in Msgs : busy'[w].msg = m /\ Done(m)'
  PROVE  ConsumerInv'
<1>1. Flags' /\ CountsTyped' /\ StopCounted'
  BY FlagsInv, CountsInv DEF ConsumerInv
<1>2. \A m \in Msgs : srv'[m] = "acked" => Done(m)'
  BY DEF ConsumerInv, Vouched
<1>3. ASSUME NEW w \in Workers, busy'[w].at = "ack"
      PROVE  \E m \in Msgs : busy'[w].msg = m /\ Done(m)'
  <2>1. CASE busy'[w] = busy[w]
    <3>1. busy[w].msg \in Msgs /\ Done(busy[w].msg)
      BY <1>3, <2>1 DEF ConsumerInv, Vouched, PoolTyped, Idle
    <3> QED
      BY <2>1, <3>1
  <2> QED
    BY <1>3, <2>1
<1>4. ASSUME NEW w \in Workers, busy'[w].at = "ack"
      PROVE  Done(busy[w].msg)'
  BY <1>3, <1>4 DEF Done
<1> QED
  BY <1>1, <1>2, <1>4 DEF ConsumerInv, Vouched

\* A step that neither handles nor moves anything behind the handler.
LEMMA BeforeInv ==
  ASSUME ConsumerInv, Next, SrvTyped', Deliverable', PoolTyped',
         UNCHANGED <<handled, mode, out>>, shutdowns' >= shutdowns,
         \A m \in Msgs : srv'[m] = "acked" => srv[m] = "acked" \/ Done(m),
         \A w \in Workers : busy'[w].at = "ack" => busy'[w] = busy[w]
  PROVE  ConsumerInv'
<1>1. \A m \in Msgs : Done(m) => Done(m)'
  <2>1. shutdowns \in Nat /\ shutdowns' \in Nat
    BY CountsInv, ConsumerAssumption DEF ConsumerInv, CountsTyped
  <2>2. shutdowns > 0 => shutdowns' > 0
    BY <2>1
  <2> QED
    BY <2>2 DEF Done
<1> QED
  BY <1>1, StepInv

LEMMA ServersInv ==
  ASSUME ConsumerInv, Next, NEW m \in Msgs,
         Publish(m) \/ PubSub(m) \/ Deliver(m) \/ AckWaitExpires(m)
  PROVE  ConsumerInv'
<1> USE ConsumerAssumption DEF ConsumerInv
<1>1. UNCHANGED <<handled, mode, shutdowns, cb, work, busy, out>>
  BY DEF Publish, PubSub, Deliver, AckWaitExpires, lifeVars, poolVars
<1>2. PoolTyped'
  <2>1. inbox' = inbox \/ (Len(inbox) < PullMax /\ inbox' = Append(inbox, m))
    BY DEF Publish, PubSub, Deliver, AckWaitExpires, poolVars
  <2>2. inbox' \in Seq(Msgs) /\ Len(inbox') <= PullMax
    <3>1. Len(Append(inbox, m)) = Len(inbox) + 1 /\ Append(inbox, m) \in Seq(Msgs)
      BY RangeAppend DEF PoolTyped
    <3> QED
      BY <2>1, <3>1, SMTT(20) DEF PoolTyped
  <2> QED
    BY <1>1, <2>2 DEF PoolTyped
<1>3. SrvTyped' /\ Deliverable' /\ \A n \in Msgs : srv'[n] = "acked" => srv[n] = "acked"
  <2>1. CASE Publish(m)
    BY <2>1, <1>1 DEF Publish, SrvTyped, Deliverable, States, Settled
  <2>2. CASE PubSub(m)
    BY <2>2, <1>1, SMTT(20) DEF PubSub, SrvTyped, Deliverable, States, Settled
  <2>3. CASE Deliver(m)
    BY <2>3, <1>1 DEF Deliver, SrvTyped, Deliverable, States, Settled
  <2>4. CASE AckWaitExpires(m)
    BY <2>4, <1>1, NakedSound DEF AckWaitExpires, SrvTyped, Deliverable
  <2> QED
    BY <2>1, <2>2, <2>3, <2>4
<1> QED
  BY <1>1, <1>2, <1>3, BeforeInv DEF CountsTyped

LEMMA CallbackInv ==
  ASSUME ConsumerInv, Next, Callback \/ Enqueue \/ NakAtShutdown
  PROVE  ConsumerInv'
<1> USE ConsumerAssumption DEF ConsumerInv
<1>1. UNCHANGED <<handled, mode, shutdowns, tries, busy, out>>
  BY DEF Callback, Enqueue, NakAtShutdown, lifeVars, srvVars
<1>2. PoolTyped'
  <2>1. CASE Callback
    BY <2>1, <1>1, RangeTail DEF Callback, PoolTyped
  <2>2. CASE Enqueue
    BY <2>2, <1>1, RangeAppend, PoolSize DEF Enqueue, PoolTyped
  <2>3. CASE NakAtShutdown
    BY <2>3, <1>1 DEF NakAtShutdown, PoolTyped
  <2> QED
    BY <2>1, <2>2, <2>3
<1>3. SrvTyped' /\ Deliverable' /\ \A n \in Msgs : srv'[n] = "acked" => srv[n] = "acked"
  <2>1. CASE Callback \/ Enqueue
    BY <2>1, <1>1 DEF Callback, Enqueue, srvVars, SrvTyped, Deliverable
  <2>2. CASE NakAtShutdown
    <3>1. cb \in Msgs
      BY <2>2 DEF NakAtShutdown, PoolTyped
    <3> QED
      BY <2>2, <3>1, <1>1, NakedSound DEF NakAtShutdown, SrvTyped, Deliverable
  <2> QED
    BY <2>1, <2>2
<1> QED
  BY <1>1, <1>2, <1>3, BeforeInv DEF CountsTyped

\* What a worker at work holds is a message.
LEMMA WorkerHolds ==
  ASSUME PoolTyped, NEW w \in Workers, busy[w].at \in {"handler", "ack"}
  PROVE  busy[w].msg \in Msgs
  BY DEF PoolTyped, Idle

LEMMA TakeInv == ASSUME ConsumerInv, Next, NEW w \in Workers, Take(w) PROVE ConsumerInv'
<1> USE DEF ConsumerInv, Take, srvVars, lifeVars
<1>1. /\ Head(work) \in Msgs /\ Tail(work) \in Seq(Msgs) /\ Len(Tail(work)) = Len(work) - 1
  BY RangeTail DEF PoolTyped
<1>2. PoolTyped' /\ \A v \in Workers : busy'[v].at = "ack" => busy'[v] = busy[v]
  BY <1>1, PoolSize DEF PoolTyped, Job
<1>3. SrvTyped' /\ Deliverable' /\ srv' = srv
  BY DEF SrvTyped, Deliverable
<1> QED
  BY <1>2, <1>3, BeforeInv DEF CountsTyped

\* A worker is done with its message, by a term, a nak or an ack.
LEMMA SettleInv ==
  ASSUME ConsumerInv, Next, NEW w \in Workers,
         \/ Terminate(w) \/ HandlerError(w) \/ HandOverEnds(w) \/ Ack(w) \/ AckLost(w)
  PROVE  ConsumerInv'
<1> DEFINE m == busy[w].msg
<1>1. m \in Msgs
  BY WorkerHolds
  DEF ConsumerInv, Terminate, HandlerError, HandOverEnds, Ack, AckLost
<1>2. /\ UNCHANGED <<tries, handled, mode, shutdowns, inbox, cb, work, out>>
      /\ busy' = [busy EXCEPT ![w] = Idle]
  BY DEF Terminate, HandlerError, HandOverEnds, Ack, AckLost, lifeVars, srvVars
<1>3. PoolTyped' /\ \A v \in Workers : busy'[v].at = "ack" => busy'[v] = busy[v]
  BY <1>2 DEF ConsumerInv, PoolTyped, Idle
<1>4. srv' = srv \/ srv' = Termed(m) \/ srv' = Naked(m) \/ (srv' = Acked(m) /\ Done(m))
  BY DEF ConsumerInv, Vouched, Terminate, HandlerError, HandOverEnds, Ack, AckLost, srvVars
<1> HIDE DEF m
<1>5. /\ SrvTyped' /\ Deliverable'
      /\ \A n \in Msgs : srv'[n] = "acked" => srv[n] = "acked" \/ Done(n)
  BY <1>1, <1>2, <1>4, TermedSound, NakedSound, AckedSound
  DEF ConsumerInv, SrvTyped, Deliverable
<1> QED
  BY <1>2, <1>3, <1>5, BeforeInv DEF ConsumerInv, CountsTyped

\* The handler returns nil: the message counts as handled before it is acked.
LEMMA HandleInv == ASSUME ConsumerInv, Next, NEW w \in Workers, Handle(w) PROVE ConsumerInv'
<1>1. PICK m \in Msgs : m = busy[w].msg
  BY WorkerHolds DEF ConsumerInv, Handle
<1>2. /\ UNCHANGED <<srv, tries, mode, shutdowns, inbox, cb, work, out>>
      /\ handled' = [handled EXCEPT ![m] = @ + 1]
      /\ busy' = [busy EXCEPT ![w] = Job(m, "ack")]
  BY <1>1 DEF Handle, srvVars, lifeVars
<1>3. PoolTyped' /\ \A v \in Workers : busy'[v] = busy[v] \/ busy'[v].msg = m
  BY <1>1, <1>2 DEF ConsumerInv, PoolTyped, Job
<1>4. /\ SrvTyped' /\ Deliverable' /\ handled'[m] > 0
      /\ \A n \in Msgs : handled[n] > 0 => handled'[n] > 0
  BY <1>1, <1>2 DEF ConsumerInv, SrvTyped, Deliverable
<1>5. Done(m)' /\ \A n \in Msgs : Done(n) => Done(n)'
  BY <1>2, <1>4 DEF Done
<1> QED
  BY <1>1, <1>2, <1>3, <1>4, <1>5, StepInv

\* Subscribe's handler: the message is in out before it is acked.
LEMMA HandOverInv == ASSUME ConsumerInv, Next, NEW w \in Workers, HandOver(w) PROVE ConsumerInv'
<1>1. PICK m \in Msgs : m = busy[w].msg
  BY WorkerHolds DEF ConsumerInv, HandOver
<1>2. /\ UNCHANGED <<srv, tries, handled, mode, shutdowns, inbox, cb, work>>
      /\ mode = "channel" /\ Len(out) < Buffer /\ out' = Append(out, m)
      /\ busy' = [busy EXCEPT ![w] = Job(m, "ack")]
  BY <1>1 DEF HandOver, srvVars, lifeVars
<1>3. /\ out' \in Seq(Msgs) /\ Len(out') = Len(out) + 1
      /\ m \in Range(out') /\ Range(out) \subseteq Range(out')
  BY <1>1, <1>2, RangeAppend DEF ConsumerInv, PoolTyped
<1>4. PoolTyped' /\ \A v \in Workers : busy'[v] = busy[v] \/ busy'[v].msg = m
  BY <1>1, <1>2, <1>3, ConsumerAssumption DEF ConsumerInv, PoolTyped, Job
<1>5. SrvTyped' /\ Deliverable'
  BY <1>2 DEF ConsumerInv, SrvTyped, Deliverable
<1>6. Done(m)' /\ \A n \in Msgs : Done(n) => Done(n)'
  BY <1>2, <1>3 DEF Done
<1> QED
  BY <1>1, <1>2, <1>4, <1>5, <1>6, StepInv

\* The Redis goroutine; it acks nothing.
LEMMA PumpInv == ASSUME ConsumerInv, Next, Pump \/ PumpEnds PROVE ConsumerInv'
<1>1. /\ UNCHANGED <<srv, tries, handled, mode, shutdowns, inbox, work, busy>> /\ cb' = None
      /\ mode = "redis"
  BY DEF Pump, PumpEnds, srvVars, lifeVars
<1>2. out' = out \/ (cb \in Msgs /\ Len(out) < Buffer /\ out' = Append(out, cb))
  BY DEF Pump, PumpEnds, ConsumerInv, PoolTyped
<1>3. out' \in Seq(Msgs) /\ Len(out') <= Buffer
  <2>1. CASE out' = out
    BY <2>1 DEF ConsumerInv, PoolTyped
  <2>2. CASE cb \in Msgs /\ Len(out) < Buffer /\ out' = Append(out, cb)
    BY <2>2, RangeAppend, ConsumerAssumption DEF ConsumerInv, PoolTyped
  <2> QED
    BY <1>2, <2>1, <2>2
<1>4. PoolTyped' /\ SrvTyped' /\ Deliverable'
  BY <1>1, <1>3 DEF ConsumerInv, PoolTyped, SrvTyped, Deliverable
<1>5. \A n \in Msgs : Done(n) => Done(n)'
  BY <1>1 DEF Done
<1> QED
  BY <1>1, <1>4, <1>5, StepInv

\* The bridge: what leaves out is handled.
LEMMA DispatchInv == ASSUME ConsumerInv, Next, Dispatch PROVE ConsumerInv'
<1>1. PICK m \in Msgs : m = Head(out)
  BY RangeTail DEF ConsumerInv, PoolTyped, Dispatch
<1>2. /\ UNCHANGED <<srv, tries, mode, shutdowns, inbox, cb, work, busy>>
      /\ handled' = [handled EXCEPT ![m] = @ + 1] /\ out' = Tail(out)
  BY <1>1 DEF Dispatch, srvVars, lifeVars
<1>3. /\ out' \in Seq(Msgs) /\ Len(out') = Len(out) - 1
      /\ \A n \in Range(out) : n = m \/ n \in Range(out')
  BY <1>1, <1>2, RangeTail DEF ConsumerInv, PoolTyped, Dispatch
<1>4. PoolTyped'
  BY <1>2, <1>3, ConsumerAssumption DEF ConsumerInv, PoolTyped
<1>5. /\ SrvTyped' /\ Deliverable' /\ handled'[m] > 0
      /\ \A n \in Msgs : handled[n] > 0 => handled'[n] > 0
  BY <1>1, <1>2 DEF ConsumerInv, SrvTyped, Deliverable
<1>6. \A n \in Msgs : Done(n) => Done(n)'
  BY <1>2, <1>3, <1>5 DEF Done
<1> QED
  BY <1>2, <1>4, <1>5, <1>6, StepInv

\* Shutdown up to the exit, and the start.
LEMMA ShutdownInv ==
  ASSUME ConsumerInv, Next, Cancel \/ Return \/ StopConsume \/ CloseWork \/ CloseOut \/ Start
  PROVE  ConsumerInv'
<1> USE DEF Cancel, Return, StopConsume, CloseWork, CloseOut, Start
<1>1. /\ UNCHANGED <<tries, handled, mode, cb, work, busy, out>>
      /\ inbox' = inbox \/ inbox' = <<>>
      /\ shutdowns' = shutdowns \/ shutdowns' = shutdowns + 1
  BY DEF srvVars, poolVars
<1>2. PoolTyped'
  <2>1. inbox' \in Seq(Msgs) /\ Len(inbox') <= PullMax
    <3>1. CASE inbox' = inbox
      BY <3>1 DEF ConsumerInv, PoolTyped
    <3>2. CASE inbox' = <<>>
      BY <3>2, ConsumerAssumption
    <3> QED
      BY <1>1, <3>1, <3>2
  <2> QED
    BY <1>1, <2>1 DEF ConsumerInv, PoolTyped
<1>3. SrvTyped' /\ Deliverable' /\ \A n \in Msgs : srv'[n] = "acked" => srv[n] = "acked"
  <2>1. CASE Start
    BY <2>1, <1>1 DEF ConsumerInv, SrvTyped, Deliverable, States, Settled
  <2>2. CASE srv' = srv
    BY <2>2, <1>1, SMTT(20) DEF ConsumerInv, SrvTyped, Deliverable
  <2> QED
    BY <2>1, <2>2, Zenon DEF srvVars
<1> QED
  BY <1>1, <1>2, <1>3, BeforeInv DEF ConsumerInv, CountsTyped

\* What the process held is gone, and a shutdown has been counted.
LEMMA ExitInv == ASSUME ConsumerInv, Next, Exit PROVE ConsumerInv'
<1>1. /\ UNCHANGED <<srv, tries, handled, mode, shutdowns>>
      /\ inbox' = <<>> /\ cb' = None /\ work' = <<>> /\ out' = <<>>
      /\ busy' = [w \in Workers |-> Idle]
  BY DEF Exit, srvVars
<1>2. PoolTyped' /\ \A w \in Workers : busy'[w].at # "ack"
  BY <1>1, PoolSize, ConsumerAssumption DEF ConsumerInv, PoolTyped, Idle
<1>3. SrvTyped' /\ Deliverable'
  BY <1>1 DEF ConsumerInv, SrvTyped, Deliverable
<1>4. \A n \in Msgs : Done(n) => Done(n)'
  BY <1>1 DEF Done, ConsumerInv, StopCounted, Exit
<1> QED
  BY <1>1, <1>2, <1>3, <1>4, StepInv

-----------------------------------------------------------------------------
LEMMA ConsumerInitInv == Init => ConsumerInv
<1> SUFFICES ASSUME Init PROVE ConsumerInv
  OBVIOUS
<1>1. Flags
  BY Zenon DEF Init, Flags
<1>2. SrvTyped /\ Deliverable /\ CountsTyped /\ StopCounted
  BY ConsumerAssumption
  DEF Init, SrvTyped, Deliverable, CountsTyped, StopCounted, States, Settled
<1>3. PoolTyped /\ Vouched
  BY PoolSize, ConsumerAssumption DEF Init, PoolTyped, Vouched, Idle
<1> QED
  BY <1>1, <1>2, <1>3 DEF ConsumerInv

LEMMA ConsumerNextInv == ConsumerInv /\ [Next]_vars => ConsumerInv'
<1> SUFFICES ASSUME ConsumerInv, [Next]_vars PROVE ConsumerInv'
  OBVIOUS
<1>1. CASE UNCHANGED vars
  <2>1. Flags'
    BY <1>1, Zenon DEF vars, lifeVars, ConsumerInv, Flags
  <2>2. SrvTyped' /\ Deliverable' /\ PoolTyped' /\ CountsTyped' /\ StopCounted' /\ Vouched'
    BY <1>1
    DEF vars, lifeVars, srvVars, poolVars, ConsumerInv, SrvTyped, Deliverable, PoolTyped,
        CountsTyped, StopCounted, Vouched, Done
  <2> QED
    BY <2>1, <2>2 DEF ConsumerInv
<1>2. CASE Next
  <2>1. ASSUME NEW w \in Workers, Process(w) \/ HandlerError(w) \/ AckLost(w)
        PROVE  ConsumerInv'
    BY <1>2, <2>1, TakeInv, SettleInv, HandleInv, HandOverInv DEF Process
  <2> QED
    BY <1>2, <2>1, ServersInv, CallbackInv, PumpInv, DispatchInv, ShutdownInv, ExitInv DEF Next
<1> QED
  BY <1>1, <1>2

\* Both transports, for any pool, buffers, delivery limit and faults: an ack follows
\* the handler's nil (behind Subscribe, the channel), and inbox, work, out and the
\* delivery count keep their bounds.
THEOREM AckedWasHandled == Spec => []AckAfterHandling
<1>1. ConsumerInv => AckAfterHandling
  <2> SUFFICES ASSUME ConsumerInv PROVE AckAfterHandling
    OBVIOUS
  <2>1. TypeOK
    BY DEF ConsumerInv, TypeOK, SrvTyped, PoolTyped, Flags, CountsTyped, States
  <2> QED
    BY <2>1 DEF ConsumerInv, Vouched, Done, AckAfterHandling
<1> QED
  BY <1>1, ConsumerInitInv, ConsumerNextInv, PTL DEF Spec

-----------------------------------------------------------------------------
(* Repeated deliveries *)

\* How often m occurs in s.
Times(s, m) == Cardinality({i \in 1..Len(s) : s[i] = m})

\* The workers whose handler has m.
InHandler(m) == {w \in Workers : busy[w] = Job(m, "handler")}

\* Copies of m that may still reach a handler or the bridge.
Copies(m) ==
  Times(inbox, m) + (IF cb = m THEN 1 ELSE 0) + Times(work, m)
    + Cardinality(InHandler(m)) + Times(out, m)

\* The server has yet to deliver m, or no one holds what it delivered.
Due(m) == srv[m] \in {"unpublished", "ready"} \/ (srv[m] = "out" /\ ~Held(m))

\* Handler calls the faults and the shutdowns so far account for; what a shutdown
\* may cost is lost with its exit.
Allowed ==
  IF mode = "redis" THEN 1
  ELSE 1 + faults + shutdowns - (IF proc = "stopping" THEN 1 ELSE 0)

\* What m has cost and may still cost.
Cost(m) == handled[m] + Copies(m) + (IF Due(m) THEN 1 ELSE 0)

\* Pub/Sub neither keeps nor redelivers.
SentOnce == mode = "redis" => \A m \in Msgs : srv[m] \notin {"ready", "out"}

\* Inductive with ConsumerInv: no message costs more than is allowed.
CopiesInv == SentOnce /\ \A m \in Msgs : Cost(m) <= Allowed

\* Occurrences are finitely many, and there is one exactly where m occurs.
LEMMA TimesTyped ==
  ASSUME NEW s \in Seq(Msgs), NEW m
  PROVE  /\ IsFiniteSet({i \in 1..Len(s) : s[i] = m})
         /\ Times(s, m) \in Nat
         /\ m \in Range(s) => Times(s, m) >= 1
<1> DEFINE P == {i \in 1..Len(s) : s[i] = m}
<1>1. Len(s) \in Nat /\ 1 \in Int
  OBVIOUS
<1>2. IsFiniteSet(1..Len(s))
  BY <1>1, FS_Interval
<1>3. IsFiniteSet(P)
  BY <1>2, FS_Subset
<1>4. Cardinality(P) \in Nat
  BY <1>3, FS_CardinalityType
<1>5. ASSUME m \in Range(s) PROVE P # {}
  <2>1. PICK i \in DOMAIN s : s[i] = m
    BY <1>5 DEF Range
  <2> QED
    BY <2>1
<1>6. m \in Range(s) => Cardinality(P) # 0
  BY <1>3, <1>5, FS_EmptySet, Zenon
<1> QED
  BY <1>3, <1>4, <1>6 DEF Times

\* An empty channel holds nothing.
LEMMA TimesEmpty == \A m : Times(<<>>, m) = 0
<1>1. \A m : {i \in 1..Len(<<>>) : <<>>[i] = m} = {}
  OBVIOUS
<1> QED
  BY <1>1, FS_EmptySet DEF Times

\* A send adds one occurrence of what is sent.
LEMMA TimesAppend ==
  ASSUME NEW s \in Seq(Msgs), NEW e \in Msgs, NEW m
  PROVE  Times(Append(s, e), m) = Times(s, m) + (IF e = m THEN 1 ELSE 0)
<1> DEFINE P == {i \in 1..Len(s) : s[i] = m}
           t == Append(s, e)
           Q == {i \in 1..Len(t) : t[i] = m}
<1>1. /\ Len(s) \in Nat /\ Len(t) = Len(s) + 1 /\ t[Len(s) + 1] = e
      /\ \A i \in 1..Len(s) : t[i] = s[i]
  OBVIOUS
<1>2. IsFiniteSet(P) /\ Cardinality(P) \in Nat
  BY TimesTyped, FS_CardinalityType, Zenon
<1> HIDE DEF t
<1>3. ASSUME e = m PROVE Cardinality(Q) = Cardinality(P) + 1
  <2>1. Q = P \cup {Len(s) + 1} /\ Len(s) + 1 \notin P
    BY <1>1, <1>3
  <2>2. Cardinality(Q) = Cardinality(P) + 1
    BY <1>2, <2>1, FS_AddElement, Zenon
  <2> QED
    BY <2>2
<1>4. ASSUME e # m PROVE Cardinality(Q) = Cardinality(P)
  <2>1. Q = P
    BY <1>1, <1>4
  <2> QED
    BY <2>1, Zenon
<1>5. Times(s, m) = Cardinality(P) /\ Times(Append(s, e), m) = Cardinality(Q)
  BY DEF Times, t
<1> HIDE DEF P, Q
<1> QED
  BY <1>2, <1>3, <1>4, <1>5

\* A receive takes one occurrence of what is received.
LEMMA TimesTail ==
  ASSUME NEW s \in Seq(Msgs), s # <<>>, NEW m
  PROVE  Times(s, m) = Times(Tail(s), m) + (IF Head(s) = m THEN 1 ELSE 0)
<1> DEFINE P == {i \in 1..Len(s) : s[i] = m}
           t == Tail(s)
           Q == {i \in 1..Len(t) : t[i] = m}
           f == [i \in Q |-> i + 1]
<1>1. /\ Len(s) \in Nat /\ Len(s) > 0 /\ t \in Seq(Msgs) /\ Len(t) = Len(s) - 1
      /\ Head(s) = s[1] /\ \A i \in 1..Len(t) : t[i] = s[i + 1]
  OBVIOUS
<1>2. IsFiniteSet(P) /\ Cardinality(P) \in Nat
  BY TimesTyped, FS_CardinalityType, Zenon
<1>3. IsFiniteSet(Q) /\ Cardinality(Q) \in Nat
  BY <1>1, TimesTyped, FS_CardinalityType, Zenon
<1> HIDE DEF t
<1>4. \A i \in Q : i \in Nat /\ i + 1 \in P \ {1}
  BY <1>1
<1>5. \A j \in P \ {1} : j - 1 \in Q /\ (j - 1) + 1 = j
  BY <1>1
<1>6. f \in Injection(Q, P \ {1})
  BY <1>4 DEF Injection, IsInjective
<1>7. f \in Surjection(Q, P \ {1})
  <2>1. ASSUME NEW j \in P \ {1} PROVE \E i \in Q : f[i] = j
    BY <1>5
  <2> QED
    BY <1>4, <2>1 DEF Surjection
<1>8. ExistsBijection(Q, P \ {1})
  BY <1>6, <1>7 DEF ExistsBijection, Bijection
<1>9. Cardinality(P \ {1}) = Cardinality(Q)
  BY <1>3, <1>8, FS_Bijection
<1>10. Cardinality(P \ {1}) = IF 1 \in P THEN Cardinality(P) - 1 ELSE Cardinality(P)
  BY <1>2, FS_RemoveElement, Zenon
<1>11. 1 \in P <=> Head(s) = m
  BY <1>1
<1>12. Times(s, m) = Cardinality(P) /\ Times(Tail(s), m) = Cardinality(Q)
  BY DEF Times, t
<1> HIDE DEF P, Q
<1> QED
  BY <1>2, <1>3, <1>9, <1>10, <1>11, <1>12

\* A worker's handler holds one message.
LEMMA HandlersTyped ==
  ASSUME NEW m
  PROVE  IsFiniteSet(InHandler(m)) /\ Cardinality(InHandler(m)) \in Nat
<1>1. IsFiniteSet(Workers) /\ InHandler(m) \subseteq Workers
  BY ConsumerAssumption DEF InHandler
<1>2. IsFiniteSet(InHandler(m))
  BY <1>1, FS_Subset
<1> QED
  BY <1>2, FS_CardinalityType

\* An idle worker takes e: one handler more has it.
LEMMA HandlerTakes ==
  ASSUME PoolTyped, NEW w \in Workers, NEW e \in Msgs, busy[w] = Idle,
         busy' = [busy EXCEPT ![w] = Job(e, "handler")], NEW m \in Msgs
  PROVE  Cardinality(InHandler(m)') = Cardinality(InHandler(m)) + (IF e = m THEN 1 ELSE 0)
<1>1. /\ busy'[w] = Job(e, "handler") /\ \A v \in Workers \ {w} : busy'[v] = busy[v]
      /\ Job(e, "handler") = Job(m, "handler") <=> e = m
      /\ busy[w] # Job(m, "handler")
  BY DEF PoolTyped, Job, Idle
<1>2. CASE e = m
  <2>1. InHandler(m)' = InHandler(m) \cup {w} /\ w \notin InHandler(m)
    BY <1>1, <1>2 DEF InHandler
  <2> QED
    BY <1>2, <2>1, HandlersTyped, FS_AddElement, Zenon
<1>3. CASE e # m
  <2>1. InHandler(m)' = InHandler(m)
    BY <1>1, <1>3 DEF InHandler
  <2> QED
    BY <1>3, <2>1, HandlersTyped
<1> QED
  BY <1>2, <1>3

\* A handler is done with its message.
LEMMA HandlerDone ==
  ASSUME PoolTyped, NEW w \in Workers, busy[w].at = "handler", NEW j, j.at # "handler",
         busy' = [busy EXCEPT ![w] = j], NEW m \in Msgs
  PROVE  Cardinality(InHandler(m)) = Cardinality(InHandler(m)') + (IF busy[w].msg = m THEN 1 ELSE 0)
<1>1. /\ busy'[w] = j /\ \A v \in Workers \ {w} : busy'[v] = busy[v]
      /\ busy[w] = Job(m, "handler") <=> busy[w].msg = m
      /\ j # Job(m, "handler")
  BY DEF PoolTyped, Job, Idle
<1>2. CASE busy[w].msg = m
  <2>1. InHandler(m)' = InHandler(m) \ {w} /\ w \in InHandler(m)
    BY <1>1, <1>2 DEF InHandler
  <2>2. Cardinality(InHandler(m)') = Cardinality(InHandler(m)) - 1
    BY <2>1, HandlersTyped, FS_RemoveElement, Zenon
  <2> QED
    BY <1>2, <2>2, HandlersTyped
<1>3. CASE busy[w].msg # m
  <2>1. InHandler(m)' = InHandler(m)
    BY <1>1, <1>3 DEF InHandler
  <2> QED
    BY <1>3, <2>1, HandlersTyped
<1> QED
  BY <1>2, <1>3

\* A worker that was to ack is no handler, before or after.
LEMMA HandlersStay ==
  ASSUME PoolTyped, NEW w \in Workers, busy[w].at # "handler",
         busy' = [busy EXCEPT ![w] = Idle], NEW m \in Msgs
  PROVE  InHandler(m)' = InHandler(m)
  BY DEF PoolTyped, Job, Idle, InHandler

-----------------------------------------------------------------------------
(* What a step costs *)

\* The parts of the cost are numbers, and a message in the inbox counts.
LEMMA CostTyped ==
  ASSUME ConsumerInv, NEW m \in Msgs
  PROVE  /\ handled[m] \in Nat /\ Times(inbox, m) \in Nat /\ Times(work, m) \in Nat
         /\ Times(out, m) \in Nat /\ Cardinality(InHandler(m)) \in Nat
         /\ Copies(m) \in Nat /\ Allowed \in Int
         /\ m \in Range(inbox) => Times(inbox, m) >= 1
<1>1. /\ handled[m] \in Nat /\ Times(inbox, m) \in Nat /\ Times(work, m) \in Nat
      /\ Times(out, m) \in Nat /\ Cardinality(InHandler(m)) \in Nat
      /\ m \in Range(inbox) => Times(inbox, m) >= 1
  BY TimesTyped, HandlersTyped, Zenon DEF ConsumerInv, SrvTyped, PoolTyped
<1>2. Copies(m) \in Nat
  BY <1>1 DEF Copies
<1>3. faults \in Int /\ shutdowns \in Int
  BY ConsumerAssumption DEF ConsumerInv, CountsTyped
<1>4. Allowed \in Int
  BY <1>3 DEF Allowed
<1> QED
  BY <1>1, <1>2, <1>4

\* The same after a step.
LEMMA CostTypedNext ==
  ASSUME ConsumerInv', NEW m \in Msgs
  PROVE  handled'[m] \in Nat /\ Copies(m)' \in Nat /\ Allowed' \in Int
<1>1. IsFiniteSet(Workers) /\ InHandler(m)' \subseteq Workers
  BY ConsumerAssumption DEF InHandler
<1>2. Cardinality(InHandler(m)') \in Nat
  BY <1>1, FS_Subset, FS_CardinalityType
<1>3. /\ handled'[m] \in Nat /\ Times(inbox', m) \in Nat /\ Times(work', m) \in Nat
      /\ Times(out', m) \in Nat
  BY TimesTyped, Zenon DEF ConsumerInv, SrvTyped, PoolTyped
<1>4. Copies(m)' \in Nat
  BY <1>2, <1>3 DEF Copies
<1>5. faults' \in Int /\ shutdowns' \in Int
  BY ConsumerAssumption DEF ConsumerInv, CountsTyped
<1>6. Allowed' \in Int
  BY <1>5 DEF Allowed
<1> QED
  BY <1>3, <1>4, <1>6

\* A step that adds x to what m was handled and may be, and y to what is due, and
\* has both allowed for.
LEMMA Paid ==
  ASSUME ConsumerInv, ConsumerInv', CopiesInv, NEW m \in Msgs, NEW x \in Int, NEW y \in {-1, 0, 1},
         handled'[m] + Copies(m)' <= handled[m] + Copies(m) + x,
         y = 1 \/ (Due(m)' => Due(m)),
         y = -1 => Due(m) /\ ~Due(m)',
         Allowed' >= Allowed + x + y
  PROVE  Cost(m)' <= Allowed'
<1>1. handled[m] \in Nat /\ Copies(m) \in Nat /\ Allowed \in Int
  BY CostTyped
<1>2. handled'[m] \in Nat /\ Copies(m)' \in Nat /\ Allowed' \in Int
  BY CostTypedNext
<1>3. PICK a \in {0, 1} : a = IF Due(m) THEN 1 ELSE 0
  OBVIOUS
<1>4. PICK b \in {0, 1} : b = IF Due(m)' THEN 1 ELSE 0
  OBVIOUS
<1>5. b <= a + y
  BY <1>3, <1>4
<1>6. handled[m] + Copies(m) + a <= Allowed
  BY <1>3 DEF CopiesInv, Cost
<1>7. Cost(m)' = handled'[m] + Copies(m)' + b
  BY <1>4 DEF Cost
<1> QED
  BY <1>1, <1>2, <1>3, <1>4, <1>5, <1>6, <1>7

\* The commonest case.
LEMMA NoDearer ==
  ASSUME ConsumerInv, ConsumerInv', CopiesInv, NEW m \in Msgs,
         handled'[m] + Copies(m)' <= handled[m] + Copies(m),
         Due(m)' => Due(m), Allowed' = Allowed
  PROVE  Cost(m)' <= Allowed'
<1>1. handled[m] \in Nat /\ Copies(m) \in Nat /\ Allowed \in Int
  BY CostTyped
<1>2. handled'[m] + Copies(m)' <= handled[m] + Copies(m) + 0 /\ Allowed' >= Allowed + 0 + 0
  BY <1>1
<1> QED
  BY <1>2, Paid

\* Copies may have gone, and nothing else that counts has changed.
LEMMA Lighter ==
  ASSUME ConsumerInv, ConsumerInv', CopiesInv, NEW m \in Msgs,
         handled'[m] = handled[m], Copies(m)' <= Copies(m), Due(m)' => Due(m), Allowed' = Allowed
  PROVE  Cost(m)' <= Allowed'
<1>1. handled[m] \in Nat /\ Copies(m) \in Nat
  BY CostTyped, Zenon
<1>2. Copies(m)' \in Nat
  BY CostTypedNext, Zenon
<1>3. handled'[m] + Copies(m)' <= handled[m] + Copies(m)
  BY <1>1, <1>2
<1> QED
  BY <1>3, NoDearer, Zenon

\* Nothing that counts has changed.
LEMMA Unmoved ==
  ASSUME ConsumerInv, ConsumerInv', CopiesInv, NEW m \in Msgs,
         handled'[m] = handled[m], Copies(m)' = Copies(m), Due(m)' => Due(m), Allowed' = Allowed
  PROVE  Cost(m)' <= Allowed'
<1>1. handled[m] \in Nat /\ Copies(m) \in Nat
  BY CostTyped, Zenon
<1>2. handled'[m] + Copies(m)' <= handled[m] + Copies(m)
  BY <1>1
<1> QED
  BY <1>2, NoDearer, Zenon

\* A fault, or the end of a shutdown, pays for what has become due.
LEMMA Excused ==
  ASSUME ConsumerInv, ConsumerInv', CopiesInv, NEW m \in Msgs,
         handled'[m] = handled[m], Copies(m)' <= Copies(m), Allowed' >= Allowed + 1
  PROVE  Cost(m)' <= Allowed'
<1>1. handled[m] \in Nat /\ Copies(m) \in Nat /\ Allowed \in Int
  BY CostTyped, Zenon
<1>2. Copies(m)' \in Nat /\ Allowed' \in Int
  BY CostTypedNext, Zenon
<1>3. handled'[m] + Copies(m)' <= handled[m] + Copies(m) + 0 /\ Allowed' >= Allowed + 0 + 1
  BY <1>1, <1>2
<1> QED
  BY <1>3, Paid

\* A copy is given up, and its message may have become due.
LEMMA GivenUp ==
  ASSUME ConsumerInv, ConsumerInv', CopiesInv, NEW m \in Msgs,
         handled'[m] = handled[m], Copies(m)' <= Copies(m) - 1, Allowed' = Allowed
  PROVE  Cost(m)' <= Allowed'
<1>1. handled[m] \in Nat /\ Copies(m) \in Nat /\ Allowed \in Int
  BY CostTyped, Zenon
<1>2. Copies(m)' \in Nat
  BY CostTypedNext, Zenon
<1>3. handled'[m] + Copies(m)' <= handled[m] + Copies(m) + (-1) /\ Allowed' >= Allowed + (-1) + 1
  BY <1>1, <1>2
<1> QED
  BY <1>3, Paid

\* What was due has become a copy.
LEMMA Delivered ==
  ASSUME ConsumerInv, ConsumerInv', CopiesInv, NEW m \in Msgs,
         handled'[m] = handled[m], Copies(m)' = Copies(m) + 1, Due(m), ~Due(m)', Allowed' = Allowed
  PROVE  Cost(m)' <= Allowed'
<1>1. handled[m] \in Nat /\ Copies(m) \in Nat /\ Allowed \in Int
  BY CostTyped, Zenon
<1>2. handled'[m] + Copies(m)' <= handled[m] + Copies(m) + 1 /\ Allowed' >= Allowed + 1 + (-1)
  BY <1>1
<1> QED
  BY <1>2, Paid

\* Off Redis a fault allows one call more.
LEMMA FaultAllows ==
  ASSUME ConsumerInv, mode # "redis", UNCHANGED <<mode, proc, shutdowns>>, faults' = faults + 1
  PROVE  Allowed' >= Allowed + 1
<1>1. faults \in Int /\ shutdowns \in Int
  BY ConsumerAssumption DEF ConsumerInv, CountsTyped
<1>2. PICK b \in {0, 1} : b = IF proc = "stopping" THEN 1 ELSE 0
  OBVIOUS
<1>3. Allowed = 1 + faults + shutdowns - b /\ Allowed' = 1 + (faults + 1) + shutdowns - b
  BY <1>2, Zenon DEF Allowed
<1> QED
  BY <1>1, <1>3

\* The servers: a publication or a delivery turns what was due into a copy, and a
\* redelivery while a copy is held takes a fault.
LEMMA ServersCost ==
  ASSUME ConsumerInv, ConsumerInv', CopiesInv, NEW m \in Msgs, NEW n \in Msgs,
         Publish(m) \/ PubSub(m) \/ Deliver(m) \/ AckWaitExpires(m)
  PROVE  Cost(n)' <= Allowed'
<1>0. /\ srv \in [Msgs -> States] /\ inbox \in Seq(Msgs)
      /\ handled[n] \in Nat /\ Copies(n) \in Nat /\ Times(inbox, n) \in Nat /\ Allowed \in Int
      /\ Times(work, n) \in Nat /\ Times(out, n) \in Nat /\ Cardinality(InHandler(n)) \in Nat
  BY CostTyped, Zenon DEF ConsumerInv, SrvTyped, PoolTyped
<1>1. UNCHANGED <<handled, mode, proc, shutdowns, cb, work, busy, out>>
  BY DEF Publish, PubSub, Deliver, AckWaitExpires, lifeVars, poolVars
<1>2. InHandler(n)' = InHandler(n) /\ handled'[n] = handled[n]
  BY <1>1 DEF InHandler
<1>3. CASE Publish(m)
  <2>1. inbox' = inbox /\ faults' = faults
    BY <1>3 DEF Publish, poolVars
  <2>2. Copies(n)' = Copies(n) /\ Allowed' = Allowed
    BY <1>1, <1>2, <2>1, Zenon DEF Copies, Allowed
  <2>3. Due(n)' => Due(n)
    BY <1>0, <1>1, <1>3, <2>1 DEF Publish, Due, Held
  <2> QED
    BY <1>2, <2>2, <2>3, Unmoved, Zenon
<1>4. CASE PubSub(m)
  <2>0. Allowed' = Allowed
    BY <1>1, <1>4 DEF PubSub, Allowed
  <2>1. CASE inbox' = inbox
    <3>1. Copies(n)' = Copies(n)
      BY <1>1, <1>2, <2>1, Zenon DEF Copies
    <3>2. Due(n)' => Due(n)
      BY <1>0, <1>1, <1>4, <2>1 DEF PubSub, Due, Held
    <3> QED
      BY <1>2, <2>0, <3>1, <3>2, Unmoved, Zenon
  <2>2. CASE inbox' = Append(inbox, m) /\ srv' = [srv EXCEPT ![m] = "sent"]
    <3>1. Times(inbox', n) = Times(inbox, n) + (IF m = n THEN 1 ELSE 0)
      BY <1>0, <2>2, TimesAppend
    <3>2. Copies(n)' = Copies(n) + (IF m = n THEN 1 ELSE 0)
      BY <1>0, <1>1, <1>2, <3>1 DEF Copies
    <3>3. /\ m = n => Due(n) /\ ~Due(n)'
          /\ m # n => (Due(n)' => Due(n))
      BY <1>0, <1>4, <2>2 DEF PubSub, Due, CopiesInv, SentOnce
    <3>4. CASE m = n
      <4>1. Copies(n)' = Copies(n) + 1
        BY <3>2, <3>4
      <4> QED
        BY <1>2, <2>0, <3>3, <3>4, <4>1, Delivered, Zenon
    <3>5. CASE m # n
      <4>1. Copies(n)' = Copies(n)
        BY <1>0, <3>2, <3>5
      <4> QED
        BY <1>2, <2>0, <3>3, <3>5, <4>1, Unmoved, Zenon
    <3> QED
      BY <3>4, <3>5
  <2> QED
    BY <1>4, <2>1, <2>2 DEF PubSub
<1>5. CASE Deliver(m)
  <2>1. inbox' = Append(inbox, m) /\ srv' = [srv EXCEPT ![m] = "out"] /\ srv[m] = "ready" /\ faults' = faults
    BY <1>5 DEF Deliver
  <2>2. Times(inbox', n) = Times(inbox, n) + (IF m = n THEN 1 ELSE 0)
    BY <1>0, <2>1, TimesAppend
  <2>3. Copies(n)' = Copies(n) + (IF m = n THEN 1 ELSE 0)
    BY <1>0, <1>1, <1>2, <2>2 DEF Copies
  <2>4. m \in Range(inbox') /\ Range(inbox) \subseteq Range(inbox')
    BY <1>0, <2>1, RangeAppend, Zenon
  <2>5. Held(m)' /\ (Held(n) => Held(n)')
    BY <1>1, <2>4 DEF Held
  <2>6. /\ m = n => Due(n) /\ ~Due(n)'
        /\ m # n => (Due(n)' => Due(n))
    BY <1>0, <2>1, <2>5 DEF Due
  <2>7. Allowed' = Allowed
    BY <1>1, <2>1 DEF Allowed
  <2>8. CASE m = n
    <3>1. Copies(n)' = Copies(n) + 1
      BY <2>3, <2>8
    <3> QED
      BY <1>2, <2>6, <2>7, <2>8, <3>1, Delivered, Zenon
  <2>9. CASE m # n
    <3>1. Copies(n)' = Copies(n)
      BY <1>0, <2>3, <2>9
    <3> QED
      BY <1>2, <2>6, <2>7, <2>9, <3>1, Unmoved, Zenon
  <2> QED
    BY <2>8, <2>9
<1>6. CASE AckWaitExpires(m)
  <2>1. inbox' = inbox /\ srv' = Naked(m) /\ srv[m] = "out"
    BY <1>6, Zenon DEF AckWaitExpires, poolVars
  <2>2. Copies(n)' = Copies(n) /\ (Held(n)' <=> Held(n)) /\ mode # "redis"
    BY <1>1, <1>2, <2>1, Zenon DEF Copies, Held, CopiesInv, SentOnce
  <2>3. srv'[n] # srv[n] => n = m
    BY <1>0, <2>1 DEF Naked
  <2>4. CASE Held(m)
    <3>1. faults' = faults + 1
      BY <1>6, <2>4 DEF AckWaitExpires, Fault
    <3>2. Allowed' >= Allowed + 1
      BY <1>1, <2>2, <3>1, FaultAllows, Zenon
    <3>3. Copies(n)' <= Copies(n)
      BY <1>0, <2>2
    <3> QED
      BY <1>2, <3>2, <3>3, Excused, Zenon
  <2>5. CASE ~Held(m)
    <3>1. faults' = faults
      BY <1>6, <2>5 DEF AckWaitExpires
    <3>2. Due(n)' => Due(n)
      BY <2>1, <2>2, <2>3, <2>5 DEF Due
    <3>3. Allowed' = Allowed
      BY <1>1, <3>1 DEF Allowed
    <3> QED
      BY <1>2, <2>2, <3>2, <3>3, Unmoved, Zenon
  <2> QED
    BY <2>4, <2>5
<1> QED
  BY <1>3, <1>4, <1>5, <1>6

\* The callback moves a message, or hands it back.
LEMMA CallbackCost ==
  ASSUME ConsumerInv, ConsumerInv', CopiesInv, Callback \/ Enqueue \/ NakAtShutdown, NEW n \in Msgs
  PROVE  Cost(n)' <= Allowed'
<1>0. /\ srv \in [Msgs -> States] /\ inbox \in Seq(Msgs) /\ work \in Seq(Msgs)
      /\ handled[n] \in Nat /\ Copies(n) \in Nat /\ Times(inbox, n) \in Nat /\ Allowed \in Int
      /\ Times(work, n) \in Nat /\ Times(out, n) \in Nat /\ Cardinality(InHandler(n)) \in Nat
      /\ None \notin Msgs /\ cb \in Msgs \cup {None}
  BY CostTyped, ConsumerAssumption, Zenon DEF ConsumerInv, SrvTyped, PoolTyped
<1>1. UNCHANGED <<handled, mode, proc, shutdowns, faults, busy, out>>
  BY DEF Callback, Enqueue, NakAtShutdown, lifeVars
<1>2. InHandler(n)' = InHandler(n) /\ handled'[n] = handled[n] /\ Allowed' = Allowed
  BY <1>1 DEF InHandler, Allowed
<1>3. CASE Callback
  <2>1. /\ inbox # <<>> /\ cb = None /\ cb' = Head(inbox) /\ inbox' = Tail(inbox)
        /\ work' = work /\ srv' = srv
    BY <1>3 DEF Callback, srvVars
  <2>2. Times(inbox, n) = Times(Tail(inbox), n) + (IF Head(inbox) = n THEN 1 ELSE 0)
    BY <1>0, <2>1, TimesTail
  <2>3. Copies(n)' = Copies(n)
    <3>1. Tail(inbox) \in Seq(Msgs)
      BY <1>0, <2>1
    <3>2. Times(inbox', n) \in Nat /\ n # None
      BY <1>0, <2>1, <3>1, TimesTyped, Zenon
    <3>3. Times(inbox, n) + (IF cb = n THEN 1 ELSE 0) = Times(inbox', n) + (IF cb' = n THEN 1 ELSE 0)
      <4>1. PICK a \in Nat, b \in Nat : a = Times(inbox, n) /\ b = Times(inbox', n)
        BY <1>0, <3>2
      <4>2. a = b + (IF cb' = n THEN 1 ELSE 0) /\ cb # n
        BY <2>1, <2>2, <3>2, <4>1
      <4> QED
        BY <4>1, <4>2
    <3> QED
      BY <1>0, <1>1, <1>2, <2>1, <3>2, <3>3 DEF Copies
  <2>4. Held(n) => Held(n)'
    BY <1>0, <1>1, <2>1, RangeTail, Zenon DEF Held
  <2>5. Due(n)' => Due(n)
    BY <2>1, <2>4 DEF Due
  <2> QED
    BY <1>2, <2>3, <2>5, Unmoved, Zenon
<1>4. CASE Enqueue
  <2>1. cb \in Msgs /\ cb' = None /\ work' = Append(work, cb) /\ inbox' = inbox /\ srv' = srv
    BY <1>0, <1>4, Zenon DEF Enqueue, srvVars
  <2>2. Times(work', n) = Times(work, n) + (IF cb = n THEN 1 ELSE 0)
    BY <1>0, <2>1, TimesAppend
  <2>3. Copies(n)' = Copies(n)
    <3>1. Times(work', n) + (IF cb' = n THEN 1 ELSE 0) = Times(work, n) + (IF cb = n THEN 1 ELSE 0)
      BY <1>0, <2>1, <2>2
    <3>2. Times(work', n) \in Nat
      BY <1>0, <2>2
    <3> QED
      BY <1>0, <1>1, <1>2, <2>1, <3>1, <3>2 DEF Copies
  <2>4. Held(n) => Held(n)'
    BY <1>0, <1>1, <2>1, RangeAppend DEF Held
  <2>5. Due(n)' => Due(n)
    BY <2>1, <2>4 DEF Due
  <2> QED
    BY <1>2, <2>3, <2>5, Unmoved, Zenon
<1>5. CASE NakAtShutdown
  <2>1. cb \in Msgs /\ cb' = None /\ srv' = Naked(cb) /\ inbox' = inbox /\ work' = work
    BY <1>0, <1>5 DEF NakAtShutdown
  <2>2. CASE cb = n
    <3>1. Copies(n)' = Copies(n) - 1
      BY <1>0, <1>1, <1>2, <2>1, <2>2 DEF Copies
    <3>2. Copies(n)' <= Copies(n) - 1
      BY <1>0, <3>1
    <3> QED
      BY <1>2, <3>2, GivenUp, Zenon
  <2>3. CASE cb # n
    <3>1. Copies(n)' = Copies(n)
      BY <1>0, <1>1, <1>2, <2>1, <2>3 DEF Copies
    <3>2. (Held(n) => Held(n)') /\ srv'[n] = srv[n]
      BY <1>0, <1>1, <2>1, <2>3 DEF Held, Naked
    <3>3. Due(n)' => Due(n)
      BY <3>2 DEF Due
    <3> QED
      BY <1>2, <3>1, <3>3, Unmoved, Zenon
  <2> QED
    BY <2>2, <2>3
<1> QED
  BY <1>3, <1>4, <1>5

\* A worker's message stays held while the worker keeps it.
LEMMA TakeCost ==
  ASSUME ConsumerInv, ConsumerInv', CopiesInv, NEW w \in Workers, Take(w), NEW n \in Msgs
  PROVE  Cost(n)' <= Allowed'
<1>0. /\ busy \in [Workers -> {Idle} \cup [msg : Msgs, at : {"handler", "ack"}]] /\ work \in Seq(Msgs)
      /\ handled[n] \in Nat /\ Copies(n) \in Nat /\ Times(inbox, n) \in Nat /\ Allowed \in Int
      /\ Times(work, n) \in Nat /\ Times(out, n) \in Nat /\ Cardinality(InHandler(n)) \in Nat
      /\ None \notin Msgs
  BY CostTyped, ConsumerAssumption, Zenon DEF ConsumerInv, PoolTyped
<1>1. /\ UNCHANGED <<srv, handled, mode, proc, shutdowns, faults, inbox, cb, out>>
      /\ busy[w] = Idle /\ work # <<>> /\ work' = Tail(work)
      /\ busy' = [busy EXCEPT ![w] = Job(Head(work), "handler")]
  BY DEF Take, srvVars, lifeVars
<1>2. Head(work) \in Msgs /\ Tail(work) \in Seq(Msgs)
  BY <1>0, <1>1
<1>3. Cardinality(InHandler(n)') = Cardinality(InHandler(n)) + (IF Head(work) = n THEN 1 ELSE 0)
  BY <1>1, <1>2, HandlerTakes, Zenon DEF ConsumerInv
<1>4. Times(work, n) = Times(work', n) + (IF Head(work) = n THEN 1 ELSE 0)
  BY <1>0, <1>1, TimesTail
<1>5. Times(work', n) \in Nat
  BY <1>1, <1>2, TimesTyped, Zenon
<1>6. Copies(n)' = Copies(n)
  <2>1. PICK a \in Nat, b \in Nat, c \in Nat, d \in Nat :
          a = Times(work, n) /\ b = Times(work', n)
            /\ c = Cardinality(InHandler(n)) /\ d = Cardinality(InHandler(n)')
    BY <1>0, <1>3, <1>5
  <2>2. a + c = b + d
    BY <1>3, <1>4, <2>1
  <2>3. PICK e \in Nat : e = Times(inbox, n) + (IF cb = n THEN 1 ELSE 0)
    BY <1>0
  <2>4. PICK g \in Nat : g = Times(out, n)
    BY <1>0
  <2>5. Copies(n) = e + a + c + g /\ Copies(n)' = e + b + d + g
    BY <1>1, <2>1, <2>3, <2>4 DEF Copies
  <2> QED
    BY <2>2, <2>5
<1>7. Allowed' = Allowed
  BY <1>1 DEF Allowed
<1>8. Held(n) => Held(n)'
  <2>1. \A v \in Workers : v # w => busy'[v] = busy[v]
    BY <1>0, <1>1, Zenon
  <2>2. busy'[w].msg = Head(work) /\ busy[w].msg # n
    BY <1>0, <1>1 DEF Job, Idle
  <2>3. \A e \in Range(work) : e = Head(work) \/ e \in Range(work')
    BY <1>0, <1>1, RangeTail
  <2> QED
    BY <1>1, <2>1, <2>2, <2>3 DEF Held
<1>9. Due(n)' => Due(n)
  BY <1>1, <1>8 DEF Due
<1> QED
  BY <1>1, <1>6, <1>7, <1>9, Unmoved, Zenon

\* The handler returns nil, or hands the message to the bridge: the copy counts as
\* handled, or is one of out.
LEMMA HandleCost ==
  ASSUME ConsumerInv, ConsumerInv', CopiesInv, NEW w \in Workers, Handle(w) \/ HandOver(w),
         NEW n \in Msgs
  PROVE  Cost(n)' <= Allowed'
<1>0. /\ busy \in [Workers -> {Idle} \cup [msg : Msgs, at : {"handler", "ack"}]] /\ out \in Seq(Msgs)
      /\ handled \in [Msgs -> Nat] /\ Copies(n) \in Nat /\ Times(inbox, n) \in Nat /\ Allowed \in Int
      /\ Times(work, n) \in Nat /\ Times(out, n) \in Nat /\ Cardinality(InHandler(n)) \in Nat
  BY CostTyped, Zenon DEF ConsumerInv, PoolTyped, SrvTyped
<1>1. PICK m \in Msgs : m = busy[w].msg
  BY WorkerHolds, Zenon DEF ConsumerInv, Handle, HandOver
<1>2. /\ UNCHANGED <<srv, mode, proc, shutdowns, faults, inbox, cb, work>>
      /\ busy[w].at = "handler" /\ busy' = [busy EXCEPT ![w] = Job(m, "ack")]
  BY <1>1 DEF Handle, HandOver, srvVars, lifeVars
<1>3. Cardinality(InHandler(n)) = Cardinality(InHandler(n)') + (IF m = n THEN 1 ELSE 0)
  <2>1. Job(m, "ack").at # "handler"
    BY DEF Job
  <2> QED
    BY <1>1, <1>2, <2>1, HandlerDone, Zenon DEF ConsumerInv
<1>4. Cardinality(InHandler(n)') \in Nat
  <2>1. IsFiniteSet(Workers) /\ InHandler(n)' \subseteq Workers
    BY ConsumerAssumption DEF InHandler
  <2> QED
    BY <2>1, FS_Subset, FS_CardinalityType
<1>5. Held(n) => Held(n)'
  <2>1. \A v \in Workers : busy'[v].msg = busy[v].msg
    BY <1>0, <1>1, <1>2 DEF Job
  <2> QED
    BY <1>2, <2>1 DEF Held
<1>6. (Due(n)' => Due(n)) /\ Allowed' = Allowed
  BY <1>2, <1>5 DEF Due, Allowed
<1>7. handled'[n] + Copies(n)' <= handled[n] + Copies(n)
  <2>1. CASE Handle(w)
    <3>1. handled' = [handled EXCEPT ![m] = @ + 1] /\ out' = out
      BY <1>1, <2>1 DEF Handle
    <3>2. handled'[n] = handled[n] + (IF m = n THEN 1 ELSE 0)
      BY <1>0, <3>1
    <3>3. handled'[n] + Cardinality(InHandler(n)') = handled[n] + Cardinality(InHandler(n))
      BY <1>0, <1>3, <1>4, <3>2
    <3>4. handled[n] \in Nat /\ handled'[n] \in Nat
      BY <1>0, <3>2
    <3>5. PICK e \in Nat : e = Times(inbox, n) + (IF cb = n THEN 1 ELSE 0) + Times(work, n)
      BY <1>0
    <3>6. PICK g \in Nat : g = Times(out, n)
      BY <1>0
    <3>7. /\ Copies(n) = e + Cardinality(InHandler(n)) + g
          /\ Copies(n)' = e + Cardinality(InHandler(n)') + g
      BY <1>2, <3>1, <3>5, <3>6 DEF Copies
    <3>8. Cardinality(InHandler(n)) \in Nat
      BY <1>0
    <3> QED
      BY <1>4, <3>3, <3>4, <3>7, <3>8
  <2>2. CASE HandOver(w)
    <3>1. handled' = handled /\ out' = Append(out, m)
      BY <1>1, <2>2 DEF HandOver
    <3>2. Times(out', n) = Times(out, n) + (IF m = n THEN 1 ELSE 0)
      BY <1>0, <3>1, TimesAppend
    <3>3. Times(out', n) + Cardinality(InHandler(n)') = Times(out, n) + Cardinality(InHandler(n))
      BY <1>0, <1>3, <1>4, <3>2
    <3>4. handled[n] \in Nat /\ handled'[n] = handled[n] /\ Times(out', n) \in Nat
      BY <1>0, <3>1, <3>2
    <3>5. PICK e \in Nat : e = Times(inbox, n) + (IF cb = n THEN 1 ELSE 0) + Times(work, n)
      BY <1>0
    <3>6. /\ Copies(n) = e + Cardinality(InHandler(n)) + Times(out, n)
          /\ Copies(n)' = e + Cardinality(InHandler(n)') + Times(out', n)
      BY <1>2, <3>5 DEF Copies
    <3>7. Cardinality(InHandler(n)) \in Nat /\ Times(out, n) \in Nat
      BY <1>0
    <3> QED
      BY <1>4, <3>3, <3>4, <3>6, <3>7
  <2> QED
    BY <2>1, <2>2
<1> QED
  BY <1>6, <1>7, NoDearer, Zenon

\* What a worker that is done with its message changes.
LEMMA WorkerDone ==
  ASSUME NEW w \in Workers,
         \/ Terminate(w) \/ HandlerError(w) \/ HandOverEnds(w) \/ Ack(w) \/ AckLost(w)
  PROVE  /\ UNCHANGED <<handled, mode, proc, shutdowns, inbox, cb, work, out>>
         /\ busy' = [busy EXCEPT ![w] = Idle] /\ busy[w].at \in {"handler", "ack"}
         /\ faults' = faults \/ faults' = faults + 1
         /\ \/ srv' = srv
            \/ srv' = Termed(busy[w].msg)
            \/ srv' = Naked(busy[w].msg)
            \/ srv' = Acked(busy[w].msg)
<1>1. CASE Terminate(w)
  BY <1>1, Zenon DEF Terminate, lifeVars
<1>2. CASE HandlerError(w)
  BY <1>2, Zenon DEF HandlerError, lifeVars, Fault
<1>3. CASE HandOverEnds(w)
  BY <1>3, Zenon DEF HandOverEnds, lifeVars
<1>4. CASE Ack(w)
  BY <1>4, Zenon DEF Ack, lifeVars
<1>5. CASE AckLost(w)
  BY <1>5, Zenon DEF AckLost, lifeVars, srvVars, Fault
<1> QED
  BY <1>1, <1>2, <1>3, <1>4, <1>5, Zenon

\* A worker is done with its message: a term or an ack settles it, a nak trades the
\* copy for a delivery, and a lost ack takes a fault.
LEMMA SettleCost ==
  ASSUME ConsumerInv, ConsumerInv', CopiesInv, SentOnce', NEW w \in Workers, NEW n \in Msgs,
         \/ Terminate(w) \/ HandlerError(w) \/ HandOverEnds(w) \/ Ack(w) \/ AckLost(w)
  PROVE  Cost(n)' <= Allowed'
<1>0. /\ busy \in [Workers -> {Idle} \cup [msg : Msgs, at : {"handler", "ack"}]]
      /\ srv \in [Msgs -> States] /\ None \notin Msgs
      /\ handled[n] \in Nat /\ Copies(n) \in Nat /\ Times(inbox, n) \in Nat /\ Allowed \in Int
      /\ Times(work, n) \in Nat /\ Times(out, n) \in Nat /\ Cardinality(InHandler(n)) \in Nat
      /\ faults \in Int /\ shutdowns \in Int
  <2>1. faults \in Int /\ shutdowns \in Int
    BY ConsumerAssumption DEF ConsumerInv, CountsTyped
  <2> QED
    BY <2>1, CostTyped, ConsumerAssumption, Zenon DEF ConsumerInv, PoolTyped, SrvTyped
<1>1. PICK m \in Msgs : m = busy[w].msg
  BY WorkerHolds, WorkerDone DEF ConsumerInv
<1>2. /\ UNCHANGED <<handled, mode, proc, shutdowns, inbox, cb, work, out>>
      /\ busy' = [busy EXCEPT ![w] = Idle]
      /\ faults' = faults \/ faults' = faults + 1
  BY WorkerDone, Zenon
<1>3. Allowed' = Allowed \/ (mode # "redis" /\ Allowed' >= Allowed + 1)
  <2>1. faults' = faults \/ mode = "redis" => Allowed' = Allowed
    BY <1>2, Zenon DEF Allowed
  <2> QED
    BY <1>2, <2>1, FaultAllows, Zenon
<1>4. Cardinality(InHandler(n)') \in Nat
  <2>1. IsFiniteSet(Workers) /\ InHandler(n)' \subseteq Workers
    BY ConsumerAssumption DEF InHandler
  <2> QED
    BY <2>1, FS_Subset, FS_CardinalityType
<1>5. ASSUME busy[w].at = "handler"
      PROVE  Copies(n)' = Copies(n) - (IF m = n THEN 1 ELSE 0)
  <2>1. Idle.at # "handler"
    BY DEF Idle
  <2>2. Cardinality(InHandler(n)) = Cardinality(InHandler(n)') + (IF m = n THEN 1 ELSE 0)
    BY <1>1, <1>2, <1>5, <2>1, HandlerDone, Zenon DEF ConsumerInv
  <2> QED
    BY <1>0, <1>2, <1>4, <2>2 DEF Copies
<1>6. ASSUME busy[w].at # "handler"
      PROVE  Copies(n)' = Copies(n)
  <2>1. InHandler(n)' = InHandler(n)
    BY <1>2, <1>6, HandlersStay, Zenon DEF ConsumerInv
  <2> QED
    BY <1>2, <2>1 DEF Copies
<1>7. Copies(n)' <= Copies(n)
  <2>1. Copies(n) \in Nat
    BY <1>0, Zenon
  <2>2. Copies(n)' = Copies(n) \/ Copies(n)' = Copies(n) - (IF m = n THEN 1 ELSE 0)
    BY <1>5, <1>6, Zenon
  <2> QED
    BY <2>1, <2>2
<1>8. handled'[n] = handled[n] /\ Copies(n)' \in Nat /\ Allowed' \in Int
  BY <1>2, CostTypedNext, Zenon
<1>9. m # n => (Held(n) => Held(n)')
  <2>1. \A v \in Workers : v # w => busy'[v] = busy[v]
    BY <1>0, <1>2, Zenon
  <2> QED
    BY <1>1, <1>2, <2>1, Zenon DEF Held
<1>10. /\ m # n => srv'[n] = srv[n]
       /\ srv'[n] \in {srv[n], "termed", "acked", "ready", "dead"}
  <2>1. srv' = srv \/ srv' = Termed(m) \/ srv' = Naked(m) \/ srv' = Acked(m)
    BY <1>1, WorkerDone, Zenon
  <2> QED
    BY <1>0, <2>1, Zenon DEF Termed, Naked, Acked
<1>11. CASE Allowed' = Allowed /\ (Due(n)' => Due(n))
  BY <1>7, <1>8, <1>11, Lighter, Zenon
<1>12. CASE Allowed' = Allowed /\ ~(Due(n)' => Due(n))
  <2>1. m = n
    BY <1>9, <1>10, <1>12, Zenon DEF Due
  <2>2. mode # "redis"
    <3>1. srv'[n] # srv[n] => srv'[n] \notin {"unpublished", "out"}
      BY <1>10
    <3>2. SUFFICES ASSUME mode = "redis" PROVE FALSE
      OBVIOUS
    <3>3. srv'[n] \notin {"ready", "out"} /\ srv[n] \notin {"ready", "out"}
      BY <1>2, <3>2, Zenon DEF CopiesInv, SentOnce
    <3> QED
      BY <1>12, <3>1, <3>3, Zenon DEF Due
  <2>3. CASE Terminate(w) \/ Ack(w)
    <3>1. srv'[m] \in {"missed", "acked", "termed"}
      BY <1>0, <1>1, <2>3 DEF Terminate, Ack, Termed, Acked
    <3> QED
      BY <1>12, <2>1, <3>1, Zenon DEF Due
  <2>4. CASE HandlerError(w) \/ HandOverEnds(w)
    <3>1. Copies(n)' = Copies(n) - 1
      BY <1>0, <1>5, <2>1, <2>4, Zenon DEF HandlerError, HandOverEnds
    <3>2. PICK a \in Nat, b \in Nat : a = Copies(n) /\ b = Copies(n)'
      BY <1>0, <1>8, Zenon
    <3>3. b <= a - 1
      BY <3>1, <3>2, SMTT(20)
    <3> QED
      BY <1>8, <1>12, <3>2, <3>3, GivenUp, Zenon
  <2>5. CASE AckLost(w)
    <3>1. faults' = faults + 1
      BY <2>5 DEF AckLost, Fault
    <3>2. Allowed' >= Allowed + 1
      BY <1>2, <2>2, <3>1, FaultAllows, Zenon
    <3> QED
      BY <1>7, <1>8, <3>2, Excused, Zenon
  <2> QED
    BY <2>3, <2>4, <2>5, Zenon
<1>13. CASE Allowed' >= Allowed + 1
  BY <1>7, <1>8, <1>13, Excused, Zenon
<1> QED
  BY <1>3, <1>11, <1>12, <1>13

\* The Redis goroutine, and the bridge.
LEMMA BridgeCost ==
  ASSUME ConsumerInv, ConsumerInv', CopiesInv, Pump \/ PumpEnds \/ Dispatch, NEW n \in Msgs
  PROVE  Cost(n)' <= Allowed'
<1>0. /\ handled \in [Msgs -> Nat] /\ out \in Seq(Msgs) /\ cb \in Msgs \cup {None} /\ None \notin Msgs
  BY ConsumerAssumption DEF ConsumerInv, PoolTyped, SrvTyped
<1>1. /\ handled[n] \in Nat /\ Copies(n) \in Nat /\ Times(inbox, n) \in Nat /\ Allowed \in Int
      /\ Times(work, n) \in Nat /\ Times(out, n) \in Nat /\ Cardinality(InHandler(n)) \in Nat
  BY CostTyped
<1>2. UNCHANGED <<srv, mode, proc, shutdowns, faults, inbox, work, busy>>
  BY DEF Pump, PumpEnds, Dispatch, srvVars, lifeVars
<1>3. Allowed' = Allowed /\ InHandler(n)' = InHandler(n)
  BY <1>2 DEF Allowed, InHandler
<1>4. PICK e \in Nat : e = Times(inbox, n) + Times(work, n) + Cardinality(InHandler(n))
  BY <1>1
<1>5. /\ Copies(n) = e + (IF cb = n THEN 1 ELSE 0) + Times(out, n)
      /\ Copies(n)' = e + (IF cb' = n THEN 1 ELSE 0) + Times(out', n)
  BY <1>1, <1>2, <1>3, <1>4 DEF Copies
<1>6. CASE Pump \/ PumpEnds
  <2>1. mode = "redis" /\ handled' = handled /\ cb \in Msgs /\ cb' = None
    BY <1>0, <1>6 DEF Pump, PumpEnds
  <2>2. Due(n)' => Due(n)
    BY <1>2, <2>1 DEF Due, CopiesInv, SentOnce
  <2>3. Times(out', n) \in Nat /\ Times(out', n) <= Times(out, n) + (IF cb = n THEN 1 ELSE 0)
    <3>1. CASE out' = out
      BY <1>1, <3>1
    <3>2. CASE out' = Append(out, cb)
      <4>1. Times(out', n) = Times(out, n) + (IF cb = n THEN 1 ELSE 0)
        BY <1>0, <2>1, <3>2, TimesAppend
      <4> QED
        BY <1>1, <4>1
    <3> QED
      BY <1>6, <3>1, <3>2 DEF Pump, PumpEnds
  <2>4. (IF cb' = n THEN 1 ELSE 0) = 0
    BY <1>0, <2>1
  <2>5. PICK c \in {0, 1} : c = IF cb = n THEN 1 ELSE 0
    OBVIOUS
  <2>6. Copies(n)' <= Copies(n) /\ Copies(n)' \in Nat
    BY <1>1, <1>4, <1>5, <2>3, <2>4, <2>5
  <2>7. handled'[n] + Copies(n)' <= handled[n] + Copies(n)
    BY <1>1, <2>1, <2>6
  <2> QED
    BY <1>3, <2>2, <2>7, NoDearer, Zenon
<1>7. CASE Dispatch
  <2>1. /\ out # <<>> /\ handled' = [handled EXCEPT ![Head(out)] = @ + 1] /\ out' = Tail(out) /\ cb' = cb
    BY <1>7 DEF Dispatch
  <2>2. Head(out) \in Msgs /\ Tail(out) \in Seq(Msgs)
    BY <1>0, <2>1
  <2>3. Times(out, n) = Times(out', n) + (IF Head(out) = n THEN 1 ELSE 0)
    BY <1>0, <2>1, TimesTail
  <2>4. Times(out', n) \in Nat
    BY <2>1, <2>2, TimesTyped, Zenon
  <2>5. handled'[n] = handled[n] + (IF Head(out) = n THEN 1 ELSE 0)
    BY <1>0, <2>1, <2>2, SMTT(20)
  <2>6. handled'[n] + Times(out', n) = handled[n] + Times(out, n) /\ handled'[n] \in Nat
    BY <1>1, <2>3, <2>4, <2>5
  <2>7. PICK c \in {0, 1} : c = IF cb = n THEN 1 ELSE 0
    OBVIOUS
  <2>8. Copies(n) = e + c + Times(out, n) /\ Copies(n)' = e + c + Times(out', n)
    BY <1>5, <2>1, <2>7, SMTT(20)
  <2>9. handled'[n] + Copies(n)' <= handled[n] + Copies(n)
    BY <1>1, <1>4, <2>4, <2>6, <2>7, <2>8, SMTT(20)
  <2>10. Due(n)' => Due(n)
    BY <1>2, <2>1 DEF Due, Held
  <2> QED
    BY <1>3, <2>9, <2>10, NoDearer, Zenon
<1> QED
  BY <1>6, <1>7

\* A shutdown takes effect in steps: what Stop discards it no longer counts, and
\* what the exit loses is what the shutdown is allowed.
LEMMA ShutdownCost ==
  ASSUME ConsumerInv, ConsumerInv', CopiesInv, NEW n \in Msgs,
         Cancel \/ Return \/ StopConsume \/ CloseWork \/ CloseOut
  PROVE  Cost(n)' <= Allowed'
<1>0. /\ handled[n] \in Nat /\ Copies(n) \in Nat /\ Times(inbox, n) \in Nat /\ Allowed \in Int
      /\ Times(work, n) \in Nat /\ Times(out, n) \in Nat /\ Cardinality(InHandler(n)) \in Nat
      /\ n \in Range(inbox) => Times(inbox, n) >= 1
  BY CostTyped
<1>1. UNCHANGED <<srv, handled, mode, faults, cb, work, busy, out>>
  BY DEF Cancel, Return, StopConsume, CloseWork, CloseOut, srvVars, poolVars
<1>2. InHandler(n)' = InHandler(n)
  BY <1>1 DEF InHandler
<1>3. Allowed' = Allowed
  <2>1. faults \in Int /\ shutdowns \in Int
    BY ConsumerAssumption DEF ConsumerInv, CountsTyped
  <2>2. CASE Cancel
    BY <1>1, <2>1, <2>2, SMTT(20) DEF Cancel, Allowed
  <2>3. CASE Return \/ StopConsume \/ CloseWork \/ CloseOut
    BY <1>1, <2>1, <2>3 DEF Return, StopConsume, CloseWork, CloseOut, Allowed
  <2> QED
    BY <2>2, <2>3
<1>4. CASE inbox' = inbox
  <2>1. Copies(n)' = Copies(n) /\ (Due(n)' => Due(n))
    BY <1>1, <1>2, <1>4, Zenon DEF Copies, Due, Held
  <2> QED
    BY <1>1, <1>3, <2>1, Unmoved, Zenon
<1>5. CASE inbox' = <<>>
  <2>1. Times(inbox', n) = 0
    BY <1>5, TimesEmpty
  <2>2. Copies(n)' = Copies(n) - Times(inbox, n)
    BY <1>0, <1>1, <1>2, <2>1 DEF Copies
  <2>3. CASE n \in Range(inbox)
    <3>1. Copies(n)' <= Copies(n) - 1
      BY <1>0, <2>2, <2>3
    <3> QED
      BY <1>1, <1>3, <3>1, GivenUp, Zenon
  <2>4. CASE n \notin Range(inbox)
    <3>1. Held(n) => Held(n)'
      BY <1>1, <2>4 DEF Held
    <3>2. Due(n)' => Due(n)
      BY <1>1, <3>1 DEF Due
    <3>3. handled'[n] + Copies(n)' <= handled[n] + Copies(n)
      BY <1>0, <1>1, <2>2
    <3> QED
      BY <1>3, <3>2, <3>3, NoDearer, Zenon
  <2> QED
    BY <2>3, <2>4
<1> QED
  BY <1>4, <1>5 DEF Cancel, Return, StopConsume, CloseWork, CloseOut, poolVars

\* The exit drops every copy at once.
LEMMA ExitCost ==
  ASSUME ConsumerInv, ConsumerInv', CopiesInv, SentOnce', Exit, NEW n \in Msgs
  PROVE  Cost(n)' <= Allowed'
<1>0. handled[n] \in Nat /\ Copies(n) \in Nat /\ Allowed \in Int /\ None \notin Msgs
  BY CostTyped, ConsumerAssumption
<1>1. /\ UNCHANGED <<srv, handled, mode, shutdowns, faults>> /\ proc = "stopping" /\ proc' = "down"
      /\ inbox' = <<>> /\ cb' = None /\ work' = <<>> /\ busy' = [w \in Workers |-> Idle] /\ out' = <<>>
  BY DEF Exit, srvVars
<1>2. Copies(n)' = 0
  <2>1. InHandler(n)' = {}
    BY <1>1 DEF InHandler, Job, Idle
  <2>2. Cardinality(InHandler(n)') = 0
    BY <2>1, FS_EmptySet
  <2>3. Times(inbox', n) = 0 /\ Times(work', n) = 0 /\ Times(out', n) = 0 /\ cb' # n
    BY <1>0, <1>1, TimesEmpty
  <2> QED
    BY <2>2, <2>3 DEF Copies
<1>3. handled'[n] = handled[n] /\ Copies(n)' <= Copies(n)
  BY <1>0, <1>1, <1>2
<1>4. CASE mode = "redis"
  <2>1. Due(n)' => Due(n)
    BY <1>1, <1>4 DEF Due, CopiesInv, SentOnce
  <2>2. Allowed' = Allowed
    BY <1>1, <1>4 DEF Allowed
  <2> QED
    <3>1. handled'[n] + Copies(n)' <= handled[n] + Copies(n)
      BY <1>0, <1>2, <1>3
    <3> QED
      BY <2>1, <2>2, <3>1, NoDearer, Zenon
<1>5. CASE mode # "redis"
  <2>1. faults \in Int /\ shutdowns \in Int
    BY ConsumerAssumption DEF ConsumerInv, CountsTyped
  <2>2. Allowed' >= Allowed + 1
    BY <1>1, <1>5, <2>1 DEF Allowed
  <2> QED
    BY <1>3, <2>2, Excused, Zenon
<1> QED
  BY <1>4, <1>5

\* A durable consumer finds what was pending; an ephemeral one has missed it.
LEMMA StartCost ==
  ASSUME ConsumerInv, ConsumerInv', CopiesInv, Start, NEW n \in Msgs
  PROVE  Cost(n)' <= Allowed'
<1>0. handled[n] \in Nat /\ Copies(n) \in Nat
  BY CostTyped
<1>1. UNCHANGED <<handled, mode, shutdowns, faults, inbox, cb, work, busy, out>>
      /\ proc = "down" /\ proc' = "up" /\ srv'[n] \in {srv[n], "missed"}
  BY DEF Start, poolVars
<1>2. Copies(n)' = Copies(n) /\ Allowed' = Allowed
  <2>1. InHandler(n)' = InHandler(n)
    BY <1>1 DEF InHandler
  <2> QED
    BY <1>1, <2>1 DEF Copies, Allowed
<1>3. Due(n)' => Due(n)
  BY <1>1 DEF Due, Held
<1> QED
  BY <1>1, <1>2, <1>3, Unmoved, Zenon

\* Pub/Sub's messages stay unpublished, sent or missed.
LEMMA SentOnceStep == ASSUME ConsumerInv, SentOnce, Next PROVE SentOnce'
<1>1. mode' = mode
  BY Zenon DEF Next, Publish, PubSub, Deliver, AckWaitExpires, Callback, Enqueue, NakAtShutdown,
         Process, Take, Terminate, Handle, HandOver, HandOverEnds, Ack, HandlerError, AckLost,
         Pump, Dispatch, PumpEnds, Cancel, Return, StopConsume, CloseWork, CloseOut, Exit, Start,
         lifeVars
<1>2. srv \in [Msgs -> States]
  BY DEF ConsumerInv, SrvTyped
<1>3. SUFFICES ASSUME mode = "redis", NEW n \in Msgs, srv[n] \notin {"ready", "out"}
               PROVE  srv'[n] \notin {"ready", "out"}
  BY <1>1 DEF SentOnce
<1>4. ASSUME NEW m \in Msgs, Publish(m) \/ PubSub(m) \/ Deliver(m) \/ AckWaitExpires(m)
      PROVE  srv'[n] \notin {"ready", "out"}
  BY <1>2, <1>3, <1>4 DEF SentOnce, Publish, PubSub, Deliver, AckWaitExpires
<1>5. CASE Callback \/ Enqueue \/ NakAtShutdown \/ Pump \/ PumpEnds \/ Dispatch
  BY <1>3, <1>5 DEF Callback, Enqueue, NakAtShutdown, Pump, PumpEnds, Dispatch, srvVars
<1>6. ASSUME NEW w \in Workers, Process(w) \/ HandlerError(w) \/ AckLost(w)
      PROVE  srv'[n] \notin {"ready", "out"}
  BY <1>2, <1>3, <1>6, Zenon DEF Process, Take, Terminate, Handle, HandOver, HandOverEnds, Ack,
         HandlerError, AckLost, Termed, Naked, Acked, srvVars
<1>7. CASE Cancel \/ Return \/ StopConsume \/ CloseWork \/ CloseOut \/ Exit \/ Start
  BY <1>3, <1>7 DEF Cancel, Return, StopConsume, CloseWork, CloseOut, Exit, Start, srvVars
<1> QED
  BY <1>4, <1>5, <1>6, <1>7 DEF Next

-----------------------------------------------------------------------------
\* At the start every message is due once.
LEMMA CopiesInitInv == Init => CopiesInv
<1> SUFFICES ASSUME Init PROVE CopiesInv
  OBVIOUS
<1>1. SentOnce
  BY DEF Init, SentOnce
<1>2. ASSUME NEW m \in Msgs PROVE Cost(m) <= Allowed
  <2>1. InHandler(m) = {}
    BY Zenon DEF Init, InHandler, Job, Idle
  <2>2. Cardinality(InHandler(m)) = 0
    BY <2>1, FS_EmptySet
  <2>3. Times(inbox, m) = 0 /\ Times(work, m) = 0 /\ Times(out, m) = 0 /\ cb # m
    BY TimesEmpty, ConsumerAssumption DEF Init
  <2>4. Copies(m) = 0
    BY <2>2, <2>3 DEF Copies
  <2>5. Cost(m) <= 1
    BY <2>4 DEF Init, Cost
  <2>6. Allowed = 1
    BY DEF Init, Allowed
  <2> QED
    BY <2>5, <2>6
<1> QED
  BY <1>1, <1>2 DEF CopiesInv

\* One lemma per group of steps.
LEMMA CopiesNextInv == ConsumerInv /\ ConsumerInv' /\ CopiesInv /\ [Next]_vars => CopiesInv'
<1> SUFFICES ASSUME ConsumerInv, ConsumerInv', CopiesInv, [Next]_vars PROVE CopiesInv'
  BY Zenon
<1>1. CASE UNCHANGED vars
  <2>1. /\ UNCHANGED <<srv, handled, mode, proc, shutdowns, faults, inbox, cb, work, busy, out>>
        /\ SentOnce /\ \A n \in Msgs : Cost(n) <= Allowed
    BY <1>1, Zenon DEF vars, srvVars, poolVars, lifeVars, CopiesInv
  <2>2. SentOnce' /\ Allowed' = Allowed
    BY <2>1, Zenon DEF SentOnce, Allowed
  <2>3. ASSUME NEW n \in Msgs PROVE Cost(n)' = Cost(n)
    <3>1. InHandler(n)' = InHandler(n) /\ (Due(n)' <=> Due(n))
      BY <2>1, Zenon DEF InHandler, Due, Held
    <3>2. Copies(n)' = Copies(n)
      BY <2>1, <3>1, Zenon DEF Copies
    <3> QED
      BY <2>1, <3>1, <3>2, Zenon DEF Cost
  <2> QED
    BY <2>1, <2>2, <2>3, Zenon DEF CopiesInv
<1>2. CASE Next
  <2>1. SentOnce'
    BY <1>2, SentOnceStep DEF CopiesInv
  <2>2. ASSUME NEW n \in Msgs PROVE Cost(n)' <= Allowed'
    <3>1. ASSUME NEW m \in Msgs, Publish(m) \/ PubSub(m) \/ Deliver(m) \/ AckWaitExpires(m)
          PROVE  Cost(n)' <= Allowed'
      BY <3>1, ServersCost
    <3>2. CASE Callback \/ Enqueue \/ NakAtShutdown
      BY <3>2, CallbackCost
    <3>3. ASSUME NEW w \in Workers, Process(w) \/ HandlerError(w) \/ AckLost(w)
          PROVE  Cost(n)' <= Allowed'
      BY <2>1, <3>3, TakeCost, HandleCost, SettleCost DEF Process
    <3>4. CASE Pump \/ PumpEnds \/ Dispatch
      BY <3>4, BridgeCost
    <3>5. CASE Cancel \/ Return \/ StopConsume \/ CloseWork \/ CloseOut
      BY <3>5, ShutdownCost
    <3>6. CASE Exit \/ Start
      BY <2>1, <3>6, ExitCost, StartCost
    <3> QED
      BY <1>2, <3>1, <3>2, <3>3, <3>4, <3>5, <3>6 DEF Next
  <2> QED
    BY <2>1, <2>2 DEF CopiesInv
<1> QED
  BY <1>1, <1>2

\* process, Subscribe and RedisBus.Subscribe: a handler sees a message once, and
\* once more for every fault and every shutdown at most; over Pub/Sub only once.
THEOREM RepeatsNeedFaults == Spec => []DuplicatesNeedFaults
<1>1. ConsumerInv /\ CopiesInv => DuplicatesNeedFaults
  <2> SUFFICES ASSUME ConsumerInv, CopiesInv, NEW m \in Msgs
               PROVE  handled[m] <= IF mode = "redis" THEN 1 ELSE 1 + faults + shutdowns
    BY DEF DuplicatesNeedFaults
  <2>1. handled[m] \in Nat /\ Copies(m) \in Nat
    BY CostTyped
  <2>2. PICK a \in {0, 1} : a = IF Due(m) THEN 1 ELSE 0
    OBVIOUS
  <2>3. handled[m] + Copies(m) + a <= Allowed
    BY <2>2 DEF CopiesInv, Cost
  <2>4. faults \in Int /\ shutdowns \in Int
    BY ConsumerAssumption DEF ConsumerInv, CountsTyped
  <2>5. PICK b \in {0, 1} : b = IF proc = "stopping" THEN 1 ELSE 0
    OBVIOUS
  <2>6. Allowed = IF mode = "redis" THEN 1 ELSE 1 + faults + shutdowns - b
    BY <2>5 DEF Allowed
  <2> QED
    BY <2>1, <2>2, <2>3, <2>4, <2>5, <2>6
<1> QED
  BY <1>1, ConsumerInitInv, ConsumerNextInv, CopiesInitInv, CopiesNextInv, PTL DEF Spec
=============================================================================
