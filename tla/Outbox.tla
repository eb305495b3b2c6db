------------------------------- MODULE Outbox -------------------------------
(***************************************************************************)
(* The transactional outbox: player-service transactions that write a      *)
(* business row and an outbox row together (internal/player/repository.go, *)
(* internal/outbox/publisher.go), the outbox_events table and its batch    *)
(* transaction (internal/outbox/store.go), and the relay replicas that     *)
(* publish committed rows to JetStream (internal/outbox/relay.go).         *)
(*                                                                         *)
(* An event is named by its position in created_at order, the order in     *)
(* which RunBatch claims rows; transactions commit in any order.  Anything *)
(* that is not the normal course of a step (an error answer, a lost        *)
(* acknowledgement, a failed commit, a deadline, a signal, a crash) takes  *)
(* one unit of the fault budget MaxFaults.                                 *)
(***************************************************************************)
EXTENDS Naturals, FiniteSets

CONSTANTS
  NumEvents,    \* number of business operations that emit an event
  Relays,       \* outbox-relay replicas
  BatchSize,    \* RelayConfig.BatchSize
  Workers,      \* RelayConfig.Workers
  MaxAttempts,  \* RelayConfig.MaxAttempts; 0 retries forever
  Poison,       \* events whose publish always returns an error at once
  Hanging,      \* events whose publish is answered by nobody
  MaxFaults     \* bound on faults

Events == 1..NumEvents

ASSUME OutboxAssumption ==
  /\ NumEvents \in Nat
  /\ BatchSize \in Nat \ {0}
  /\ Workers \in Nat \ {0}
  /\ MaxAttempts \in Nat
  /\ MaxFaults \in Nat
  /\ Poison \subseteq Events
  /\ Hanging \subseteq Events

ASSUME RelaysFinite == IsFiniteSet(Relays)

VARIABLES
  txn,       \* txn[e]: where the transaction that emits e stands
  written,   \* events whose business row is committed
  status,    \* status[e]: outbox_events.status, "NONE" before the commit
  attempts,  \* attempts[e]: outbox_events.attempt_count
  phase,     \* phase[r]: "idle" between polls, "batch" inside one, "down"
  job,       \* job[r][e]: what r's open batch has done with e
  stopping,  \* stopping[r]: r's context is cancelled (SIGTERM)
  late,      \* late[e]: copies of e sent by a publish nobody waits for now
  stream,    \* stream[e]: copies of e stored by JetStream
  faults     \* faults so far

dbVars == <<txn, written, status, attempts>>
relayVars == <<phase, job, stopping>>
natsVars == <<late, stream>>
vars == <<txn, written, status, attempts, phase, job, stopping, late, stream, faults>>

TxnStates == {"idle", "created", "inserted", "committed", "aborted"}
Statuses == {"NONE", "PENDING", "PUBLISHED", "FAILED"}
Phases == {"idle", "batch", "down"}
JobStates == {"none", "queued", "sending", "stored", "ok", "err"}

NoJob == [e \in Events |-> "none"]

TypeOK ==
  /\ txn \in [Events -> TxnStates]
  /\ written \in SUBSET Events
  /\ status \in [Events -> Statuses]
  /\ attempts \in [Events -> Nat]
  /\ phase \in [Relays -> Phases]
  /\ job \in [Relays -> [Events -> JobStates]]
  /\ stopping \in [Relays -> BOOLEAN]
  /\ late \in [Events -> Nat]
  /\ stream \in [Events -> Nat]
  /\ faults \in Nat

Init ==
  /\ txn = [e \in Events |-> "idle"]
  /\ written = {}
  /\ status = [e \in Events |-> "NONE"]
  /\ attempts = [e \in Events |-> 0]
  /\ phase = [r \in Relays |-> "idle"]
  /\ job = [r \in Relays |-> NoJob]
  /\ stopping = [r \in Relays |-> FALSE]
  /\ late = [e \in Events |-> 0]
  /\ stream = [e \in Events |-> 0]
  /\ faults = 0

Fault == faults < MaxFaults /\ faults' = faults + 1

-----------------------------------------------------------------------------
(* The producing transaction *)

\* CreateWithOutbox / UpdateWithOutbox: the business row is written on the tx.
Create(e) ==
  /\ txn[e] = "idle"
  /\ txn' = [txn EXCEPT ![e] = "created"]
  /\ UNCHANGED <<written, status, attempts, relayVars, natsVars, faults>>

\* Publisher.Publish on the same tx: Store.Insert adds the outbox row.
Insert(e) ==
  /\ txn[e] = "created"
  /\ txn' = [txn EXCEPT ![e] = "inserted"]
  /\ UNCHANGED <<written, status, attempts, relayVars, natsVars, faults>>

\* A commit of the business row alone, the dual write the outbox replaces.
Commit_DualWrite(e) ==
  /\ txn[e] = "inserted"
  /\ txn' = [txn EXCEPT ![e] = "committed"]
  /\ written' = written \cup {e}
  /\ UNCHANGED <<status, attempts, relayVars, natsVars, faults>>

\* COMMIT makes both rows visible at once.
Commit(e) ==
  /\ txn[e] = "inserted"
  /\ txn' = [txn EXCEPT ![e] = "committed"]
  /\ written' = written \cup {e}
  /\ status' = [status EXCEPT ![e] = "PENDING"]
  /\ UNCHANGED <<attempts, relayVars, natsVars, faults>>

\* Either write fails (a unique violation, say) or the request is cut off.
Abort(e) ==
  /\ txn[e] \in {"created", "inserted"}
  /\ txn' = [txn EXCEPT ![e] = "aborted"]
  /\ UNCHANGED <<written, status, attempts, relayVars, natsVars, faults>>

-----------------------------------------------------------------------------
(* One poll of a relay: claim, publish with a bounded pool, mark, commit *)

Claimed(r) == {e \in Events : job[r][e] # "none"}
Sending(r) == {e \in Events : job[r][e] = "sending"}
InFlight(r) == {e \in Events : job[r][e] \in {"sending", "stored"}}

\* A SELECT ... FOR UPDATE that does not skip rows other replicas hold.
Available_NoSkipLocked == {e \in Events : status[e] = "PENDING"}

\* The rows SELECT ... FOR UPDATE SKIP LOCKED can return: PENDING and not held
\* by the open transaction of another replica.
Available ==
  {e \in Events : status[e] = "PENDING" /\ \A r \in Relays : e \notin Claimed(r)}

\* ORDER BY created_at ASC LIMIT n.
Oldest(S, n) == {e \in S : Cardinality({f \in S : f < e}) < n}

\* RunBatch's claim.  A poll that finds nothing commits at once.
Poll(r) ==
  LET rows == Oldest(Available, BatchSize) IN
  /\ phase[r] = "idle"
  /\ phase' = [phase EXCEPT ![r] = IF rows = {} THEN "idle" ELSE "batch"]
  /\ job' = [job EXCEPT ![r] = [e \in Events |-> IF e \in rows THEN "queued" ELSE "none"]]
  /\ UNCHANGED <<dbVars, stopping, natsVars, faults>>

\* A free worker of publishAll's pool takes the next row and sends it.
StartPublish(r, e) ==
  /\ job[r][e] = "queued"
  /\ \A f \in Events : f < e => job[r][f] # "queued"
  /\ Cardinality(InFlight(r)) < Workers
  /\ job' = [job EXCEPT ![r][e] = "sending"]
  /\ UNCHANGED <<dbVars, phase, stopping, natsVars, faults>>

\* JetStream stores the message.  Publish sets no message id, so the server
\* does not recognise a second copy.
Store(r, e) ==
  /\ job[r][e] = "sending"
  /\ e \notin Poison \cup Hanging
  /\ job' = [job EXCEPT ![r][e] = "stored"]
  /\ stream' = [stream EXCEPT ![e] = @ + 1]
  /\ UNCHANGED <<dbVars, phase, stopping, late, faults>>

\* The acknowledgement reaches the worker: publishOne returns nil.
Ack(r, e) ==
  /\ job[r][e] = "stored"
  /\ job' = [job EXCEPT ![r][e] = "ok"]
  /\ UNCHANGED <<dbVars, phase, stopping, natsVars, faults>>

\* A publish result that is reported as a success whatever it was.
PublishError_Ignored(r, e) ==
  /\ job[r][e] \in {"sending", "stored"}
  /\ e \notin Poison \cup Hanging
  /\ Fault
  /\ job' = [job EXCEPT ![r][e] = "ok"]
  /\ UNCHANGED <<dbVars, phase, stopping, natsVars>>

\* publishOne returns an error: the event cannot be encoded (Poison), or the
\* broker refuses it, or the answer is lost.  A message that was on its way may
\* still arrive.
PublishError(r, e) ==
  /\ job[r][e] \in {"sending", "stored"}
  /\ e \notin Hanging
  /\ job' = [job EXCEPT ![r][e] = "err"]
  /\ IF e \in Poison
     THEN UNCHANGED <<late, faults>>
     ELSE /\ Fault
          /\ \/ UNCHANGED late
             \/ job[r][e] = "sending" /\ late' = [late EXCEPT ![e] = @ + 1]
  /\ UNCHANGED <<dbVars, phase, stopping, stream>>

\* A message whose sender no longer waits reaches the stream.
LateStore(e) ==
  /\ late[e] > 0
  /\ late' = [late EXCEPT ![e] = @ - 1]
  /\ stream' = [stream EXCEPT ![e] = @ + 1]
  /\ UNCHANGED <<dbVars, relayVars, faults>>

\* An off-by-one in the CASE of incrementAttempt.
DeadLetters_OffByOne(e) == MaxAttempts > 0 /\ attempts[e] >= MaxAttempts

\* incrementAttempt: the bumped count reaches maxAttempts.
DeadLetters(e) == MaxAttempts > 0 /\ attempts[e] + 1 >= MaxAttempts

\* A mark that never dead-letters and forgets to count the failure.
MarkAndCommit_NoBump(r) ==
  /\ phase[r] = "batch"
  /\ \A e \in Claimed(r) : job[r][e] \in {"ok", "err"}
  /\ status' = [e \in Events |-> IF job[r][e] = "ok" THEN "PUBLISHED" ELSE status[e]]
  /\ phase' = [phase EXCEPT ![r] = "idle"]
  /\ job' = [job EXCEPT ![r] = NoJob]
  /\ UNCHANGED <<txn, written, attempts, stopping, natsVars, faults>>

\* publishAll has answered for every row: markPublished, incrementAttempt and
\* the COMMIT that releases the rows.
MarkAndCommit(r) ==
  /\ phase[r] = "batch"
  /\ \A e \in Claimed(r) : job[r][e] \in {"ok", "err"}
  /\ status' = [e \in Events |->
       CASE job[r][e] = "ok" -> "PUBLISHED"
         [] job[r][e] = "err" /\ DeadLetters(e) -> "FAILED"
         [] OTHER -> status[e]]
  /\ attempts' = [e \in Events |->
       IF job[r][e] = "err" THEN attempts[e] + 1 ELSE attempts[e]]
  /\ phase' = [phase EXCEPT ![r] = "idle"]
  /\ job' = [job EXCEPT ![r] = NoJob]
  /\ UNCHANGED <<txn, written, stopping, natsVars, faults>>

\* The batch is given up: PostgreSQL rolls it back and frees its rows, and of
\* the messages being sent any may still arrive.
Abandon(r) ==
  /\ job' = [job EXCEPT ![r] = NoJob]
  /\ \E kept \in SUBSET (Sending(r) \ (Poison \cup Hanging)) :
       late' = [e \in Events |-> IF e \in kept THEN late[e] + 1 ELSE late[e]]
  /\ UNCHANGED <<dbVars, stream>>

\* markPublished, incrementAttempt or the COMMIT fails.
Rollback(r) ==
  /\ phase[r] = "batch"
  /\ \A e \in Claimed(r) : job[r][e] \in {"ok", "err"}
  /\ Fault
  /\ phase' = [phase EXCEPT ![r] = "idle"]
  /\ Abandon(r)
  /\ UNCHANGED stopping

\* pollTimeout expires inside the batch.  The transaction runs on the same
\* context, so it is rolled back whatever the publishes had achieved.  A publish
\* nobody answers always ends here, without being counted as a fault.
PollTimeout(r) ==
  /\ phase[r] = "batch"
  /\ \/ Sending(r) \cap Hanging # {} /\ UNCHANGED faults
     \/ Sending(r) \cap Hanging = {} /\ Fault
  /\ phase' = [phase EXCEPT ![r] = "idle"]
  /\ Abandon(r)
  /\ UNCHANGED stopping

-----------------------------------------------------------------------------
(* Life of a relay process *)

\* SIGTERM cancels Run's context; an open batch keeps its own.
Signal(r) ==
  /\ phase[r] # "down"
  /\ ~stopping[r]
  /\ Fault
  /\ stopping' = [stopping EXCEPT ![r] = TRUE]
  /\ UNCHANGED <<dbVars, phase, job, natsVars>>

\* Run sees ctx.Done between two polls and returns; the process exits.  With
\* the timer expired too, select may take one more poll first.
Return(r) ==
  /\ phase[r] = "idle"
  /\ stopping[r]
  /\ phase' = [phase EXCEPT ![r] = "down"]
  /\ UNCHANGED <<dbVars, job, stopping, natsVars, faults>>

\* workers.Wait(WorkerShutdownTimeout) gives up after 5 s, half of what a batch
\* may take, and main returns with the batch open.
ExitAtTimeout(r) ==
  /\ phase[r] = "batch"
  /\ stopping[r]
  /\ phase' = [phase EXCEPT ![r] = "down"]
  /\ Abandon(r)
  /\ UNCHANGED <<stopping, faults>>

Crash(r) ==
  /\ phase[r] # "down"
  /\ Fault
  /\ phase' = [phase EXCEPT ![r] = "down"]
  /\ Abandon(r)
  /\ UNCHANGED stopping

Restart(r) ==
  /\ phase[r] = "down"
  /\ phase' = [phase EXCEPT ![r] = "idle"]
  /\ stopping' = [stopping EXCEPT ![r] = FALSE]
  /\ UNCHANGED <<dbVars, job, natsVars, faults>>

-----------------------------------------------------------------------------
Producer(e) == Create(e) \/ Insert(e) \/ Commit(e) \/ Abort(e)

PublishStep(r, e) ==
  StartPublish(r, e) \/ Store(r, e) \/ Ack(r, e) \/ PublishError(r, e)

RelayStep(r) ==
  \/ Poll(r)
  \/ \E e \in Events : PublishStep(r, e)
  \/ MarkAndCommit(r)
  \/ Rollback(r)
  \/ PollTimeout(r)
  \/ Signal(r)
  \/ Return(r)
  \/ ExitAtTimeout(r)
  \/ Crash(r)
  \/ Restart(r)

Next ==
  \/ \E e \in Events : Producer(e) \/ LateStore(e)
  \/ \E r \in Relays : RelayStep(r)

Spec == Init /\ [][Next]_vars

\* The relay loop keeps polling, its workers keep running, the broker answers
\* what it can answer, deadlines fire and the orchestrator restarts what exited.
\* Nothing is assumed of producers, of late messages or of faults.
Fairness ==
  \A r \in Relays :
    /\ WF_vars(Poll(r))
    /\ WF_vars(MarkAndCommit(r))
    /\ WF_vars(PollTimeout(r) /\ UNCHANGED faults)
    /\ WF_vars(Return(r))
    /\ WF_vars(Restart(r))
    /\ \A e \in Events :
         /\ WF_vars(StartPublish(r, e))
         /\ WF_vars(Store(r, e))
         /\ WF_vars(Ack(r, e))
         /\ WF_vars(PublishError(r, e) /\ UNCHANGED faults)

FairSpec == Spec /\ Fairness

-----------------------------------------------------------------------------
(* What the outbox promises *)

\* The business row and its event are committed together or not at all
\* (CreateWithOutbox, UpdateWithOutbox), however the relays treat the row later.
WriteAndEventTogether == \A e \in Events : e \in written <=> status[e] # "NONE"

\* FOR UPDATE SKIP LOCKED hands a row to one replica at a time, and only a
\* PENDING row is ever being worked on.
ClaimsExclusive ==
  \A r \in Relays : \A e \in Claimed(r) :
    /\ status[e] = "PENDING"
    /\ \A s \in Relays \ {r} : e \notin Claimed(s)

\* No loss: a row is marked PUBLISHED only when the stream holds the event.
PublishedIsStored ==
  \A e \in Events : status[e] = "PUBLISHED" => stream[e] > 0

\* No phantom: JetStream holds, or may still receive, only committed events.
StoredIsCommitted ==
  \A e \in Events : stream[e] + late[e] > 0 => e \in written

\* Every copy of an event beyond the first is owed to a fault of its own: without
\* faults the relays deliver exactly once.  Claimed by the code for SKIP LOCKED
\* and the single batch transaction.  (Not with Hanging events: see README.)
CopiesBounded ==
  \A e \in Events : stream[e] + late[e] <= 1 + faults

\* A row leaves PENDING for FAILED exactly when its failed attempts reach
\* MaxAttempts, and never when dead-lettering is off.
DeadLetterExact ==
  \A e \in Events :
    /\ status[e] = "PENDING" /\ MaxAttempts > 0 => attempts[e] < MaxAttempts
    /\ status[e] = "FAILED" => MaxAttempts > 0 /\ attempts[e] = MaxAttempts

\* PUBLISHED and FAILED are final and a failed attempt is never forgotten, even
\* with several replicas at work on the table.
VerdictsFinal ==
  [][\A e \in Events :
       /\ status[e] \in {"PUBLISHED", "FAILED"} => status'[e] = status[e]
       /\ attempts'[e] >= attempts[e]]_vars

\* The outbox as its producers and consumers see it.
Contract == INSTANCE OutboxContract WITH
  Ids <- Events,
  MayGiveUp <- MaxAttempts > 0,
  owed <- {e \in Events : status[e] = "PENDING"},
  settled <- {e \in Events : status[e] = "PUBLISHED"},
  dropped <- {e \in Events : status[e] = "FAILED"},
  copies <- stream

\* Table, relays and broker together implement at-least-once delivery of exactly
\* the committed events (store.go:1-5, "eliminates the dual-write problem").
ImplementsContract == Contract!Spec

\* Every committed event is eventually published or dead-lettered, poison rows
\* ahead of it in the queue included.
EventuallySettled ==
  \A e \in Events : e \in written ~> status[e] \in {"PUBLISHED", "FAILED"}

\* A poison row never keeps the other rows from being published, as long as the
\* faults are too few to use up a row's attempts, and is itself dead-lettered.
PoisonDoesNotBlock ==
  /\ EventuallySettled
  /\ \A e \in Events \ Poison : e \in written ~> status[e] = "PUBLISHED"

-----------------------------------------------------------------------------
(* Sentences of the documentation that the code does not keep *)

\* relay.go:82-84: "a shutdown that starts mid-batch lets the batch finish
\* publishing and marking its rows instead of leaving them to be re-published".
ShutdownFinishesBatch ==
  [][\A r \in Relays :
       stopping[r] /\ phase[r] = "batch" => phase'[r] # "down"]_vars
=============================================================================
