---------------------------- MODULE OutboxProofs ----------------------------
(***************************************************************************)
(* Proofs that the outbox keeps its safety promises for any number of      *)
(* events and relays, any batch size and pool, and any number of faults.   *)
(***************************************************************************)
EXTENDS Outbox, FiniteSetTheorems, TLAPS

\* What ties a relay's open batch to the table and to the stream: only the batch
\* phase has jobs, a transaction's progress agrees with the row it leaves, a job
\* past the broker has its copy in the stream, and a row that does not exist yet
\* has no attempts.
BatchInv ==
  /\ \A r \in Relays : phase[r] # "batch" => job[r] = NoJob
  /\ \A e \in Events : txn[e] = "committed" <=> status[e] # "NONE"
  /\ \A r \in Relays, e \in Events : job[r][e] \in {"stored", "ok"} => stream[e] > 0
  /\ \A e \in Events : status[e] = "NONE" => attempts[e] = 0

\* The inductive invariant behind the promises that hold with any fault pattern.
OutboxInv ==
  /\ TypeOK
  /\ BatchInv
  /\ WriteAndEventTogether
  /\ ClaimsExclusive
  /\ PublishedIsStored
  /\ StoredIsCommitted
  /\ DeadLetterExact

-----------------------------------------------------------------------------
\* Every action keeps the variables in their types.
LEMMA TypeStep == TypeOK /\ [Next]_vars => TypeOK'
<1> USE OutboxAssumption DEF TypeOK, TxnStates, Statuses, Phases, JobStates, NoJob
<1> SUFFICES ASSUME TypeOK, [Next]_vars PROVE TypeOK'
  OBVIOUS
<1>1. ASSUME NEW e \in Events, Producer(e) PROVE TypeOK'
  BY <1>1 DEF Producer, Create, Insert, Commit, Abort, relayVars, natsVars
<1>2. ASSUME NEW e \in Events, LateStore(e) PROVE TypeOK'
  BY <1>2 DEF LateStore, dbVars, relayVars
<1>3. ASSUME NEW r \in Relays, Poll(r) PROVE TypeOK'
  BY <1>3 DEF Poll, dbVars, natsVars
<1>4. ASSUME NEW r \in Relays, NEW e \in Events, PublishStep(r, e) PROVE TypeOK'
  <2>1. CASE StartPublish(r, e)
    BY <2>1 DEF StartPublish, dbVars, natsVars
  <2>2. CASE Store(r, e)
    BY <2>2 DEF Store, dbVars
  <2>3. CASE Ack(r, e)
    BY <2>3 DEF Ack, dbVars, natsVars
  <2>4. CASE PublishError(r, e)
    BY <2>4 DEF PublishError, Fault, dbVars
  <2>5. QED
    BY <1>4, <2>1, <2>2, <2>3, <2>4 DEF PublishStep
<1>5. ASSUME NEW r \in Relays, MarkAndCommit(r) PROVE TypeOK'
  BY <1>5 DEF MarkAndCommit, natsVars
<1>6. ASSUME NEW r \in Relays, Rollback(r) \/ PollTimeout(r) \/ ExitAtTimeout(r) \/ Crash(r)
      PROVE TypeOK'
  <2>1. Abandon(r)
    BY <1>6 DEF Rollback, PollTimeout, ExitAtTimeout, Crash
  <2>2. phase' \in [Relays -> Phases] /\ stopping' \in [Relays -> BOOLEAN]
    BY <1>6 DEF Rollback, PollTimeout, ExitAtTimeout, Crash
  <2>3. faults' \in Nat
    BY <1>6 DEF Rollback, PollTimeout, ExitAtTimeout, Crash, Fault
  <2>4. late' \in [Events -> Nat]
    BY <2>1 DEF Abandon
  <2>5. job' \in [Relays -> [Events -> JobStates]]
    BY <2>1 DEF Abandon
  <2>6. QED
    BY <2>1, <2>2, <2>3, <2>4, <2>5 DEF Abandon, dbVars
<1>7. ASSUME NEW r \in Relays, Signal(r) \/ Return(r) \/ Restart(r) PROVE TypeOK'
  <2>1. stopping' \in [Relays -> BOOLEAN]
    BY <1>7, Zenon DEF Signal, Return, Restart
  <2>2. phase' \in [Relays -> Phases]
    BY <1>7 DEF Signal, Return, Restart
  <2>3. faults' \in Nat
    BY <1>7 DEF Signal, Return, Restart, Fault
  <2>4. UNCHANGED <<dbVars, job, natsVars>>
    BY <1>7 DEF Signal, Return, Restart
  <2>5. QED
    BY <2>1, <2>2, <2>3, <2>4 DEF dbVars, natsVars
<1>8. CASE UNCHANGED vars
  BY <1>8 DEF vars
<1>9. QED
  BY <1>1, <1>2, <1>3, <1>4, <1>5, <1>6, <1>7, <1>8 DEF Next, RelayStep

\* Every action keeps the inductive invariant.
LEMMA InvStep == OutboxInv /\ [Next]_vars => OutboxInv'
<1> USE OutboxAssumption
    DEF OutboxInv, BatchInv, TypeOK, WriteAndEventTogether, ClaimsExclusive,
        PublishedIsStored, StoredIsCommitted, DeadLetterExact, Claimed
<1> SUFFICES ASSUME OutboxInv, [Next]_vars PROVE OutboxInv'
  OBVIOUS
<1>0. TypeOK'
  BY TypeStep DEF OutboxInv
<1> HIDE DEF OutboxInv
<1>1. ASSUME NEW e \in Events, Producer(e) PROVE OutboxInv'
  BY <1>0, <1>1 DEF OutboxInv, Producer, Create, Insert, Commit, Abort, relayVars, natsVars, TxnStates, Statuses
<1>2. ASSUME NEW e \in Events, LateStore(e) PROVE OutboxInv'
  BY <1>0, <1>2 DEF OutboxInv, LateStore, dbVars, relayVars
<1>3. ASSUME NEW r \in Relays, Poll(r) PROVE OutboxInv'
  <2> DEFINE rows == Oldest(Available, BatchSize)
  <2>1. rows \subseteq Available
    BY DEF Oldest
  <2> HIDE DEF rows
  <2>2. /\ phase' = [phase EXCEPT ![r] = IF rows = {} THEN "idle" ELSE "batch"]
        /\ job' = [job EXCEPT ![r] = [e \in Events |-> IF e \in rows THEN "queued" ELSE "none"]]
        /\ phase[r] = "idle"
        /\ UNCHANGED <<dbVars, natsVars>>
    BY <1>3 DEF Poll, rows
  <2>3. \A q \in Relays : phase'[q] # "batch" => job'[q] = NoJob
    BY <2>2 DEF OutboxInv, NoJob
  <2>4. ClaimsExclusive'
    BY <1>0, <2>1, <2>2 DEF OutboxInv, Available, dbVars
  <2>5. QED
    BY <1>0, <2>2, <2>3, <2>4 DEF OutboxInv, dbVars, natsVars
<1>4. ASSUME NEW r \in Relays, NEW e \in Events, PublishStep(r, e) PROVE OutboxInv'
  <2>1. CASE StartPublish(r, e)
    BY <1>0, <2>1 DEF OutboxInv, StartPublish, dbVars, natsVars, NoJob
  <2>2. CASE Store(r, e)
    BY <1>0, <2>2 DEF OutboxInv, Store, dbVars, NoJob
  <2>3. CASE Ack(r, e)
    BY <1>0, <2>3 DEF OutboxInv, Ack, dbVars, natsVars, NoJob
  <2>4. CASE PublishError(r, e)
    <3>1. /\ job[r][e] \in {"sending", "stored"}
          /\ job' = [job EXCEPT ![r][e] = "err"]
          /\ UNCHANGED <<dbVars, phase, stream>>
      BY <2>4 DEF PublishError
    <3>2. \A f \in Events : late'[f] # late[f] => f = e
      BY <2>4 DEF PublishError, OutboxInv
    <3>3. StoredIsCommitted'
      BY <1>0, <3>1, <3>2 DEF OutboxInv, dbVars
    <3>4. ClaimsExclusive'
      BY <1>0, <3>1 DEF OutboxInv, dbVars
    <3>5. QED
      BY <1>0, <3>1, <3>3, <3>4 DEF OutboxInv, dbVars, NoJob
  <2>5. QED
    BY <1>4, <2>1, <2>2, <2>3, <2>4 DEF PublishStep
<1>5. ASSUME NEW r \in Relays, MarkAndCommit(r) PROVE OutboxInv'
  <2> USE <1>0, <1>5 DEF OutboxInv, MarkAndCommit
  <2>1. \A e \in Events : job[r][e] \in {"none", "ok", "err"}
    OBVIOUS
  <2>2. \A e \in Events : job[r][e] # "none" => status[e] = "PENDING"
    OBVIOUS
  <2>3. \A e \in Events : job[r][e] = "none" => status'[e] = status[e] /\ attempts'[e] = attempts[e]
    OBVIOUS
  <2>4. \A e \in Events : job[r][e] = "ok" => status'[e] = "PUBLISHED" /\ attempts'[e] = attempts[e]
    OBVIOUS
  <2>5. \A e \in Events : job[r][e] = "err" =>
          /\ attempts'[e] = attempts[e] + 1
          /\ status'[e] = IF DeadLetters(e) THEN "FAILED" ELSE "PENDING"
    BY <2>2
  <2>6. /\ phase' = [phase EXCEPT ![r] = "idle"]
        /\ job' = [job EXCEPT ![r] = NoJob]
        /\ UNCHANGED <<txn, written, natsVars>>
    OBVIOUS
  <2> HIDE <1>5 DEF MarkAndCommit
  <2>7. DeadLetterExact'
    <3> SUFFICES ASSUME NEW e \in Events
        PROVE /\ status'[e] = "PENDING" /\ MaxAttempts > 0 => attempts'[e] < MaxAttempts
              /\ status'[e] = "FAILED" => MaxAttempts > 0 /\ attempts'[e] = MaxAttempts
      OBVIOUS
    <3>1. CASE job[r][e] = "none"
      BY <2>3, <3>1
    <3>2. CASE job[r][e] = "ok"
      BY <2>4, <3>2
    <3>3. CASE job[r][e] = "err"
      <4>1. attempts[e] \in Nat /\ (MaxAttempts > 0 => attempts[e] < MaxAttempts)
        BY <2>2, <3>3
      <4>2. /\ attempts'[e] = attempts[e] + 1
            /\ status'[e] = IF DeadLetters(e) THEN "FAILED" ELSE "PENDING"
        BY <2>5, <3>3
      <4> HIDE DEF OutboxInv, TypeOK, DeadLetterExact
      <4>3. MaxAttempts \in Nat
        OBVIOUS
      <4> HIDE <1>0, OutboxAssumption
      <4>4. QED
        BY <4>1, <4>2, <4>3 DEF DeadLetters
    <3>4. QED
      BY <2>1, <3>1, <3>2, <3>3
  <2>8. PublishedIsStored'
    BY <2>1, <2>2, <2>3, <2>4, <2>5, <2>6 DEF natsVars
  <2>9. WriteAndEventTogether' /\ StoredIsCommitted'
    BY <2>1, <2>2, <2>3, <2>4, <2>5, <2>6 DEF natsVars
  <2>10. ClaimsExclusive'
    BY <2>3, <2>6 DEF NoJob
  <2>11. BatchInv'
    <3>1. \A q \in Relays : phase'[q] # "batch" => job'[q] = NoJob
      BY <2>6
    <3>2. \A e \in Events : txn'[e] = "committed" <=> status'[e] # "NONE"
      <4>1. \A e \in Events : status'[e] # "NONE" <=> status[e] # "NONE"
        BY <2>1, <2>2, <2>3, <2>4, <2>5, Zenon
      <4>2. \A e \in Events : txn[e] = "committed" <=> status[e] # "NONE"
        OBVIOUS
      <4>3. txn' = txn
        BY <2>6
      <4>4. QED
        BY ONLY <4>1, <4>2, <4>3
    <3>3. \A q \in Relays, e \in Events : job'[q][e] \in {"stored", "ok"} => stream'[e] > 0
      BY <2>6 DEF natsVars, NoJob
    <3>4. \A e \in Events : status'[e] = "NONE" => attempts'[e] = 0
      BY <2>1, <2>2, <2>3, <2>4, <2>5, SMTT(20)
    <3>5. QED
      BY <3>1, <3>2, <3>3, <3>4
  <2>12. QED
    BY <2>7, <2>8, <2>9, <2>10, <2>11
<1>6. ASSUME NEW r \in Relays, Rollback(r) \/ PollTimeout(r) \/ ExitAtTimeout(r) \/ Crash(r)
      PROVE OutboxInv'
  <2>1. /\ Abandon(r)
        /\ \E p \in {"idle", "down"} : phase' = [phase EXCEPT ![r] = p]
    BY <1>6 DEF Rollback, PollTimeout, ExitAtTimeout, Crash
  <2>2. job' = [job EXCEPT ![r] = NoJob] /\ UNCHANGED <<dbVars, stream>>
    BY <2>1 DEF Abandon
  <2>3. \A e \in Events : late'[e] # late[e] => e \in Claimed(r)
    BY <2>1 DEF Abandon, Sending, OutboxInv
  <2>4. StoredIsCommitted'
    BY <1>0, <2>2, <2>3 DEF OutboxInv, dbVars
  <2>5. BatchInv' /\ ClaimsExclusive'
    BY <1>0, <2>1, <2>2 DEF OutboxInv, dbVars, NoJob
  <2>6. QED
    BY <1>0, <2>2, <2>4, <2>5 DEF OutboxInv, dbVars
<1>7. ASSUME NEW r \in Relays, Signal(r) \/ Return(r) \/ Restart(r) PROVE OutboxInv'
  BY <1>0, <1>7 DEF OutboxInv, Signal, Return, Restart, Fault, dbVars, natsVars, NoJob
<1>8. CASE UNCHANGED vars
  BY <1>8 DEF OutboxInv, vars
<1>9. QED
  BY <1>1, <1>2, <1>3, <1>4, <1>5, <1>6, <1>7, <1>8 DEF Next, RelayStep

-----------------------------------------------------------------------------
\* Before the first transaction the table, the stream and every relay are empty.
LEMMA InitInv == Init => OutboxInv
  BY OutboxAssumption
  DEF Init, OutboxInv, BatchInv, TypeOK, WriteAndEventTogether, ClaimsExclusive, Claimed,
      PublishedIsStored, StoredIsCommitted, DeadLetterExact, NoJob, TxnStates, Statuses,
      Phases, JobStates

\* The inductive invariant holds of every behaviour of producers, relays and broker.
LEMMA Invariance == Spec => []OutboxInv
  BY InitInv, InvStep, PTL DEF Spec

\* The variables keep their types, whatever the relays, the broker and the faults do.
THEOREM TypeCorrect == Spec => []TypeOK
<1>1. OutboxInv => TypeOK
  BY DEF OutboxInv
<1>2. QED
  BY Invariance, <1>1, PTL

\* CreateWithOutbox and UpdateWithOutbox never leave a business row without its
\* event or an event without its business row.
THEOREM AtomicWrite == Spec => []WriteAndEventTogether
<1>1. OutboxInv => WriteAndEventTogether
  BY DEF OutboxInv
<1>2. QED
  BY Invariance, <1>1, PTL

\* With any number of replicas, RunBatch gives a row to one of them at a time.
THEOREM ExclusiveClaims == Spec => []ClaimsExclusive
<1>1. OutboxInv => ClaimsExclusive
  BY DEF OutboxInv
<1>2. QED
  BY Invariance, <1>1, PTL

\* No loss: markPublished only ever marks rows the broker has stored.
THEOREM NoLoss == Spec => []PublishedIsStored
<1>1. OutboxInv => PublishedIsStored
  BY DEF OutboxInv
<1>2. QED
  BY Invariance, <1>1, PTL

\* No phantom: nothing of an uncommitted or aborted transaction reaches the broker.
THEOREM NoPhantom == Spec => []StoredIsCommitted
<1>1. OutboxInv => StoredIsCommitted
  BY DEF OutboxInv
<1>2. QED
  BY Invariance, <1>1, PTL

\* incrementAttempt dead-letters at MaxAttempts, neither earlier nor later.
THEOREM ExactDeadLetter == Spec => []DeadLetterExact
<1>1. OutboxInv => DeadLetterExact
  BY DEF OutboxInv
<1>2. QED
  BY Invariance, <1>1, PTL

-----------------------------------------------------------------------------
\* How a step changes the rows of the table: a commit adds one row, a mark
\* settles or re-counts claimed rows, nothing else touches it.
LEMMA RowSteps ==
  ASSUME OutboxInv, [Next]_vars
  PROVE  \/ UNCHANGED <<status, attempts>>
         \/ \E e \in Events : Commit(e)
         \/ \E r \in Relays : MarkAndCommit(r)
  BY DEF Next, Producer, RelayStep, PublishStep, Create, Insert, Abort, LateStore, Poll,
         StartPublish, Store, Ack, PublishError, Rollback, PollTimeout, Abandon, Signal,
         Return, ExitAtTimeout, Crash, Restart, vars, dbVars

\* No replica takes back a PUBLISHED or FAILED verdict or forgets a failed attempt.
THEOREM FinalVerdicts == Spec => VerdictsFinal
<1> DEFINE Kept == \A e \in Events :
      /\ status[e] \in {"PUBLISHED", "FAILED"} => status'[e] = status[e]
      /\ attempts'[e] >= attempts[e]
<1>1. ASSUME OutboxInv, [Next]_vars PROVE Kept
  <2> USE <1>1 DEF OutboxInv, TypeOK
  <2>1. CASE UNCHANGED <<status, attempts>>
    BY <2>1
  <2>2. ASSUME NEW f \in Events, Commit(f) PROVE Kept
    BY <2>2 DEF Commit, BatchInv
  <2>3. ASSUME NEW r \in Relays, MarkAndCommit(r) PROVE Kept
    <3>1. \A e \in Events : job[r][e] # "none" => status[e] = "PENDING"
      BY DEF ClaimsExclusive, Claimed
    <3>2. QED
      BY <2>3, <3>1, SMTT(20) DEF MarkAndCommit
  <2>4. QED
    BY <2>1, <2>2, <2>3, RowSteps
<1>2. OutboxInv /\ [Next]_vars => [Kept]_vars
  BY <1>1
<1>3. QED
  BY <1>2, Invariance, PTL DEF Spec, VerdictsFinal

\* The outbox implements at-least-once delivery of exactly the committed events:
\* a commit emits, a stored message delivers, a marked batch closes, and every
\* other step is invisible.
THEOREM Refinement == Spec => ImplementsContract
<1> DEFINE Owed == {e \in Events : status[e] = "PENDING"}
           Settled == {e \in Events : status[e] = "PUBLISHED"}
           Dropped == {e \in Events : status[e] = "FAILED"}
<1>1. Init => Contract!Init
  BY DEF Init, Contract!Init
<1>2. ASSUME OutboxInv, [Next]_vars PROVE [Contract!Next]_(Contract!cvars)
  <2> USE <1>2 DEF OutboxInv, TypeOK
  <2>1. ASSUME NEW e \in Events, Commit(e) PROVE Contract!Emit(e)
    <3>1. status[e] = "NONE"
      BY <2>1 DEF Commit, BatchInv
    <3>2. status' = [status EXCEPT ![e] = "PENDING"] /\ stream' = stream
      BY <2>1 DEF Commit, natsVars
    <3>3. Owed' = Owed \cup {e} /\ Settled' = Settled /\ Dropped' = Dropped
      BY <3>1, <3>2
    <3>4. QED
      BY <3>1, <3>2, <3>3 DEF Contract!Emit
  <2>2. ASSUME NEW e \in Events, UNCHANGED status, stream' = [stream EXCEPT ![e] = @ + 1],
               stream[e] + late[e] > 0 \/ \E r \in Relays : e \in Claimed(r)
        PROVE  Contract!Deliver(e)
    <3>1. e \in Owed \cup Settled \cup Dropped
      BY <2>2 DEF StoredIsCommitted, WriteAndEventTogether, ClaimsExclusive, Statuses
    <3>2. QED
      BY <2>2, <3>1 DEF Contract!Deliver
  <2>3. ASSUME NEW r \in Relays, MarkAndCommit(r) PROVE \E S, D \in SUBSET Owed : Contract!Close(S, D)
    <3>1. \A e \in Events : job[r][e] # "none" => status[e] = "PENDING"
      BY DEF ClaimsExclusive, Claimed
    <3>2. PICK S \in SUBSET Owed, D \in SUBSET Owed :
            /\ S = {e \in Events : job[r][e] = "ok"}
            /\ D = {e \in Events : job[r][e] = "err" /\ DeadLetters(e)}
      BY <3>1, Zenon
    <3>3. S \cap D = {} /\ \A e \in S : stream[e] > 0
      BY <3>2 DEF BatchInv
    <3>4. (MaxAttempts > 0) \/ D = {}
      BY <3>2 DEF DeadLetters
    <3>5. UNCHANGED stream
      BY <2>3 DEF MarkAndCommit, natsVars
    <3>6. \A e \in Events :
            status'[e] = CASE e \in S -> "PUBLISHED" [] e \in D -> "FAILED" [] OTHER -> status[e]
      BY <2>3, <3>2 DEF MarkAndCommit
    <3>7. Owed' = Owed \ (S \cup D) /\ Settled' = Settled \cup S /\ Dropped' = Dropped \cup D
      BY <3>3, <3>6
    <3>8. Contract!Close(S, D)
      BY <3>3, <3>4, <3>5, <3>7 DEF Contract!Close
    <3>9. QED
      BY <3>8, Zenon
  <2>4. ASSUME UNCHANGED <<status, stream>> PROVE UNCHANGED Contract!cvars
    BY <2>4 DEF Contract!cvars
  <2>5. ASSUME NEW e \in Events, LateStore(e) PROVE Contract!Deliver(e)
    <3>1. stream[e] + late[e] > 0 /\ UNCHANGED status /\ stream' = [stream EXCEPT ![e] = @ + 1]
      BY <2>5 DEF LateStore, dbVars
    <3>2. QED
      BY <2>2, <3>1, Zenon
  <2>6. ASSUME NEW r \in Relays, NEW e \in Events, Store(r, e) PROVE Contract!Deliver(e)
    BY <2>2, <2>6, Zenon DEF Store, dbVars, Claimed
  <2>7. \/ UNCHANGED <<status, stream>>
        \/ \E e \in Events : Commit(e) \/ LateStore(e)
        \/ \E r \in Relays : MarkAndCommit(r) \/ \E e \in Events : Store(r, e)
    BY DEF Next, Producer, RelayStep, PublishStep, Create, Insert, Abort, Poll, StartPublish,
           Ack, PublishError, Rollback, PollTimeout, Abandon, Signal, Return, ExitAtTimeout,
           Crash, Restart, vars, dbVars, natsVars
  <2>8. QED
    BY <2>1, <2>3, <2>4, <2>5, <2>6, <2>7 DEF Contract!Next
<1>3. QED
  BY <1>1, <1>2, Invariance, PTL DEF Spec, ImplementsContract, Contract!Spec

-----------------------------------------------------------------------------
(* Duplicates: every copy beyond the first is paid for by a fault *)

\* Replicas that were told to stop and may still walk out of a batch.
Exiting == {r \in Relays : stopping[r] /\ phase[r] # "down"}

\* e is being sent, and may become a copy.
Air(e) == IF \E r \in Relays : job[r][e] = "sending" THEN 1 ELSE 0

\* e has used the one copy that is free: it is published, or about to be.
Free(e) ==
  IF status[e] = "PUBLISHED" \/ \E r \in Relays : job[r][e] \in {"sending", "stored", "ok"}
  THEN 1 ELSE 0

CopiesInv ==
  /\ \A e \in Events : stream[e] + late[e] + Air(e) + Cardinality(Exiting) <= faults + Free(e)
  /\ \A r \in Relays, e \in Poison : job[r][e] # "stored"

\* The replicas told to stop and not yet down can be counted.
LEMMA ExitingFinite == IsFiniteSet(Exiting) /\ Cardinality(Exiting) \in Nat
  BY RelaysFinite, FS_Subset, FS_CardinalityType DEF Exiting

\* How their number changes with a signal, an exit, a restart or any other step.
LEMMA ExitingSteps ==
  ASSUME TypeOK, NEW r \in Relays, NEW p \in Phases, phase' = [phase EXCEPT ![r] = p]
  PROVE  /\ Signal(r) => Cardinality(Exiting') = Cardinality(Exiting) + 1
         /\ UNCHANGED stopping /\ p # "down" /\ phase[r] # "down" => Exiting' = Exiting
         /\ UNCHANGED stopping /\ p = "down" /\ phase[r] # "down" =>
              Cardinality(Exiting') = Cardinality(Exiting) - (IF stopping[r] THEN 1 ELSE 0)
         /\ Restart(r) => Exiting' = Exiting
<1> USE DEF TypeOK, Phases
<1>1. ASSUME Signal(r) PROVE Cardinality(Exiting') = Cardinality(Exiting) + 1
  <2>1. r \notin Exiting /\ Exiting' = Exiting \cup {r}
    BY <1>1 DEF Signal, Exiting
  <2>2. QED
    BY <2>1, ExitingFinite, FS_AddElement, Zenon
<1>2. ASSUME UNCHANGED stopping, p # "down", phase[r] # "down" PROVE Exiting' = Exiting
  BY <1>2 DEF Exiting
<1>3. ASSUME UNCHANGED stopping, p = "down", phase[r] # "down"
      PROVE  Cardinality(Exiting') = Cardinality(Exiting) - (IF stopping[r] THEN 1 ELSE 0)
  <2>1. CASE stopping[r]
    <3>1. r \in Exiting /\ Exiting' = Exiting \ {r}
      BY <1>3, <2>1 DEF Exiting
    <3>2. QED
      BY <2>1, <3>1, ExitingFinite, FS_RemoveElement, Zenon
  <2>2. CASE ~stopping[r]
    <3>1. Exiting' = Exiting
      BY <1>3, <2>2 DEF Exiting
    <3>2. QED
      BY <2>2, <3>1, ExitingFinite
  <2>3. QED
    BY <2>1, <2>2
<1>4. ASSUME Restart(r) PROVE Exiting' = Exiting
  BY <1>4 DEF Restart, Exiting
<1>5. QED
  BY <1>1, <1>2, <1>3, <1>4

\* What a worker's step from job[r][e] to b does to the two indicators of e; the
\* other rows keep theirs.
LEMMA JobSteps ==
  ASSUME OutboxInv, NEW r \in Relays, NEW e \in Events, job[r][e] # "none",
         NEW b \in JobStates, job' = [job EXCEPT ![r][e] = b], UNCHANGED status
  PROVE  /\ Air(e) = IF job[r][e] = "sending" THEN 1 ELSE 0
         /\ Air(e)' = IF b = "sending" THEN 1 ELSE 0
         /\ Free(e) = IF job[r][e] \in {"sending", "stored", "ok"} THEN 1 ELSE 0
         /\ Free(e)' = IF b \in {"sending", "stored", "ok"} THEN 1 ELSE 0
         /\ \A f \in Events \ {e} : Air(f)' = Air(f) /\ Free(f)' = Free(f)
<1> USE DEF OutboxInv, TypeOK
<1>1. status[e] = "PENDING" /\ \A q \in Relays \ {r} : job[q][e] = "none"
  BY DEF ClaimsExclusive, Claimed
<1>2. job'[r][e] = b /\ \A q \in Relays \ {r} : job'[q][e] = "none"
  BY <1>1
<1>3. \A q \in Relays : \A f \in Events \ {e} : job'[q][f] = job[q][f]
  OBVIOUS
<1>4. \A f \in Events \ {e} : Air(f)' = Air(f)
  BY <1>3 DEF Air
<1>5. \A f \in Events \ {e} : Free(f)' = Free(f)
  BY <1>3 DEF Free
<1> HIDE DEF OutboxInv, TypeOK
<1>6. /\ Air(e) = IF job[r][e] = "sending" THEN 1 ELSE 0
      /\ Air(e)' = IF b = "sending" THEN 1 ELSE 0
  BY <1>1, <1>2 DEF Air
<1>7. /\ Free(e) = IF job[r][e] \in {"sending", "stored", "ok"} THEN 1 ELSE 0
      /\ Free(e)' = IF b \in {"sending", "stored", "ok"} THEN 1 ELSE 0
  BY <1>1, <1>2 DEF Free
<1>8. QED
  BY <1>4, <1>5, <1>6, <1>7

\* Giving up r's batch turns what it was sending into late copies and costs every
\* row it had in hand its free copy.
LEMMA AbandonStep ==
  ASSUME OutboxInv, NEW r \in Relays, Abandon(r), NEW e \in Events
  PROVE  /\ stream'[e] = stream[e]
         /\ late'[e] + Air(e)' <= late[e] + Air(e)
         /\ Free(e)' >= Free(e) - 1
         /\ Air(e)' \in {0, 1} /\ Free(e)' \in {0, 1}
<1> USE DEF OutboxInv, TypeOK
<1>1. job' = [job EXCEPT ![r] = NoJob] /\ UNCHANGED <<status, stream>>
  BY DEF Abandon, dbVars
<1>2. PICK kept \in SUBSET Sending(r) :
        late' = [f \in Events |-> IF f \in kept THEN late[f] + 1 ELSE late[f]]
  BY Zenon DEF Abandon
<1>3. CASE e \in Sending(r)
  <2>1. \A q \in Relays : job'[q][e] # "sending"
    BY <1>1, <1>3 DEF ClaimsExclusive, Claimed, Sending, NoJob
  <2>2. Air(e) = 1 /\ Air(e)' = 0
    BY <1>3, <2>1 DEF Air, Sending
  <2>3. QED
    BY <1>1, <1>2, <2>2 DEF Free
<1>4. CASE e \notin Sending(r)
  <2>1. \A q \in Relays : job'[q][e] = "sending" => job[q][e] = "sending"
    BY <1>1 DEF NoJob
  <2>2. Air(e)' <= Air(e)
    BY <2>1 DEF Air
  <2>3. late'[e] = late[e]
    BY <1>2, <1>4
  <2>4. QED
    BY <1>1, <2>2, <2>3 DEF Free, Air
<1>5. QED
  BY <1>3, <1>4

\* Every action keeps the copy budget: a copy is paid for by a fault or is the free
\* first one.
LEMMA CopiesStep ==
  ASSUME Hanging = {}, OutboxInv, CopiesInv, [Next]_vars
  PROVE  CopiesInv'
<1> USE OutboxAssumption, ExitingFinite DEF CopiesInv
<1>0. TypeOK
  BY DEF OutboxInv
<1>1. \A e \in Events : /\ stream[e] \in Nat /\ late[e] \in Nat /\ faults \in Nat
                        /\ Air(e) \in {0, 1} /\ Free(e) \in {0, 1}
  BY <1>0 DEF TypeOK, Air, Free
<1>2. ASSUME UNCHANGED <<job, status, phase, stopping, stream, late, faults>> PROVE CopiesInv'
  BY <1>2 DEF Air, Free, Exiting
<1>3. ASSUME NEW e \in Events, Producer(e) PROVE CopiesInv'
  <2>1. CASE Commit(e)
    <3>1. /\ UNCHANGED <<job, phase, stopping, stream, late, faults>>
          /\ status' = [status EXCEPT ![e] = "PENDING"] /\ status[e] = "NONE"
      BY <2>1 DEF Commit, relayVars, natsVars, OutboxInv, BatchInv
    <3>2. \A f \in Events : Free(f)' = Free(f) /\ Air(f)' = Air(f)
      BY <1>0, <3>1 DEF Free, Air, TypeOK
    <3>3. Exiting' = Exiting
      BY <3>1 DEF Exiting
    <3>4. QED
      BY <3>1, <3>2, <3>3
  <2>2. QED
    BY <1>2, <1>3, <2>1 DEF Producer, Create, Insert, Abort, relayVars, natsVars
<1>4. ASSUME NEW e \in Events, LateStore(e) PROVE CopiesInv'
  <2>1. /\ late[e] > 0 /\ late' = [late EXCEPT ![e] = @ - 1]
        /\ stream' = [stream EXCEPT ![e] = @ + 1]
        /\ UNCHANGED <<job, phase, stopping, status, faults>>
    BY <1>4 DEF LateStore, dbVars, relayVars
  <2>2. \A f \in Events : Free(f)' = Free(f) /\ Air(f)' = Air(f)
    BY <2>1 DEF Free, Air
  <2>3. Exiting' = Exiting
    BY <2>1 DEF Exiting
  <2>4. \A f \in Events : stream'[f] + late'[f] = stream[f] + late[f]
    BY <1>0, <2>1 DEF TypeOK
  <2>5. \A f \in Events : stream'[f] \in Nat /\ late'[f] \in Nat
    BY <1>0, <2>1 DEF TypeOK
  <2>6. QED
    BY <1>1, <2>1, <2>2, <2>3, <2>4, <2>5
<1>5. ASSUME NEW r \in Relays, Poll(r) PROVE CopiesInv'
  <2>1. /\ phase[r] = "idle" /\ phase' \in {[phase EXCEPT ![r] = "idle"], [phase EXCEPT ![r] = "batch"]}
        /\ UNCHANGED <<status, stopping, stream, late, faults>>
    BY <1>5, Zenon DEF Poll, dbVars, natsVars
  <2>2. \A f \in Events : /\ job[r][f] = "none" /\ job'[r][f] \in {"queued", "none"}
                          /\ \A q \in Relays \ {r} : job'[q][f] = job[q][f]
    BY <1>0, <1>5 DEF Poll, OutboxInv, BatchInv, TypeOK, NoJob
  <2>3. \A f \in Events : Free(f)' = Free(f) /\ Air(f)' = Air(f)
    BY <2>1, <2>2 DEF Free, Air
  <2>4. Exiting' = Exiting
    BY <1>0, <2>1, ExitingSteps DEF Phases
  <2>5. \A q \in Relays, f \in Poison : job'[q][f] # "stored"
    BY <2>2
  <2>6. QED
    BY <2>1, <2>3, <2>4, <2>5
<1>6. ASSUME NEW r \in Relays, NEW e \in Events, PublishStep(r, e) PROVE CopiesInv'
  <2>0. UNCHANGED <<status, phase, stopping>> /\ job[r][e] # "none"
    BY <1>6 DEF PublishStep, StartPublish, Store, Ack, PublishError, dbVars
  <2>1. Exiting' = Exiting
    BY <2>0 DEF Exiting
  <2>2. PICK b \in {"sending", "stored", "ok", "err"} : job' = [job EXCEPT ![r][e] = b]
    BY <1>6 DEF PublishStep, StartPublish, Store, Ack, PublishError
  <2>3. b = "stored" => e \notin Poison
    BY <1>0, <1>6, <2>2 DEF PublishStep, StartPublish, Store, Ack, PublishError, TypeOK
  <2>4. \A q \in Relays, f \in Poison : job'[q][f] # "stored"
    BY <1>0, <2>2, <2>3 DEF TypeOK
  <2>5. \A f \in Events \ {e} :
          /\ Air(f)' = Air(f) /\ Free(f)' = Free(f) /\ stream'[f] = stream[f] /\ late'[f] = late[f]
    <3>1. \A f \in Events \ {e} : Air(f)' = Air(f) /\ Free(f)' = Free(f)
      BY <2>0, <2>2, JobSteps, Zenon DEF JobStates
    <3>2. \A f \in Events \ {e} : stream'[f] = stream[f] /\ late'[f] = late[f]
      BY <1>0, <1>6 DEF PublishStep, StartPublish, Store, Ack, PublishError, TypeOK, natsVars
    <3>3. QED
      BY <3>1, <3>2
  <2>6. /\ Air(e) = IF job[r][e] = "sending" THEN 1 ELSE 0
        /\ Air(e)' = IF b = "sending" THEN 1 ELSE 0
        /\ Free(e) = IF job[r][e] \in {"sending", "stored", "ok"} THEN 1 ELSE 0
        /\ Free(e)' = IF b \in {"sending", "stored", "ok"} THEN 1 ELSE 0
    BY <2>0, <2>2, JobSteps, Zenon DEF JobStates
  <2>7. job'[r][e] = b
    BY <1>0, <2>2 DEF TypeOK
  <2>8. /\ faults' \in Nat /\ faults' >= faults
        /\ stream'[e] + late'[e] + Air(e)' + faults + Free(e)
             <= stream[e] + late[e] + Air(e) + faults' + Free(e)'
        /\ stream'[e] \in Nat /\ late'[e] \in Nat
    <3>1. CASE StartPublish(r, e)
      BY <1>0, <1>1, <2>6, <2>7, <3>1 DEF StartPublish, natsVars, TypeOK
    <3>2. CASE Store(r, e)
      BY <1>0, <1>1, <2>6, <2>7, <3>2 DEF Store, TypeOK
    <3>3. CASE Ack(r, e)
      BY <1>0, <1>1, <2>6, <2>7, <3>3 DEF Ack, natsVars, TypeOK
    <3>4. CASE PublishError(r, e)
      BY <1>0, <1>1, <2>6, <2>7, <3>4 DEF PublishError, Fault, TypeOK
    <3>5. QED
      BY <1>6, <3>1, <3>2, <3>3, <3>4, Zenon DEF PublishStep
  <2>9. Air(e)' \in {0, 1} /\ Free(e)' \in {0, 1}
    BY <2>6
  <2>10. ASSUME NEW f \in Events
         PROVE  stream'[f] + late'[f] + Air(f)' + Cardinality(Exiting') <= faults' + Free(f)'
    <3>1. CASE f = e
      BY <1>1, <2>1, <2>8, <2>9, <3>1
    <3>2. CASE f # e
      BY <1>1, <2>1, <2>5, <2>8, <3>2
    <3>3. QED
      BY <3>1, <3>2
  <2>11. QED
    BY <2>4, <2>10
<1>7. ASSUME NEW r \in Relays, MarkAndCommit(r) PROVE CopiesInv'
  <2>1. /\ phase[r] = "batch" /\ phase' = [phase EXCEPT ![r] = "idle"]
        /\ job' = [job EXCEPT ![r] = NoJob]
        /\ UNCHANGED <<stopping, stream, late, faults>>
    BY <1>7 DEF MarkAndCommit, natsVars
  <2>2. Exiting' = Exiting
    BY <1>0, <2>1, ExitingSteps, Zenon DEF Phases
  <2>3. \A f \in Events : /\ job[r][f] \in {"none", "ok", "err"} /\ job'[r][f] = "none"
                          /\ \A q \in Relays \ {r} : job'[q][f] = job[q][f]
    BY <1>0, <1>7, <2>1 DEF MarkAndCommit, Claimed, TypeOK, NoJob
  <2>4. \A f \in Events : Air(f)' = Air(f)
    BY <2>3 DEF Air
  <2>5. \A f \in Events : Free(f)' = Free(f)
    <3> SUFFICES ASSUME NEW f \in Events PROVE Free(f)' = Free(f)
      OBVIOUS
    <3>1. job[r][f] = "ok" => status'[f] = "PUBLISHED"
      BY <1>7 DEF MarkAndCommit
    <3>2. job[r][f] = "none" => status'[f] = status[f]
      BY <1>7 DEF MarkAndCommit
    <3>3. job[r][f] = "err" =>
            /\ status[f] = "PENDING" /\ status'[f] # "PUBLISHED"
            /\ \A q \in Relays \ {r} : job[q][f] = "none"
      BY <1>7 DEF MarkAndCommit, OutboxInv, ClaimsExclusive, Claimed
    <3>4. QED
      BY <2>3, <3>1, <3>2, <3>3 DEF Free
  <2>6. \A q \in Relays, f \in Poison : job'[q][f] # "stored"
    BY <2>3
  <2>7. QED
    BY <2>1, <2>2, <2>4, <2>5, <2>6
<1>8. ASSUME NEW r \in Relays, Abandon(r), faults' \in Nat, Cardinality(Exiting') \in Nat,
             faults' - Cardinality(Exiting') >= faults - Cardinality(Exiting) + 1
      PROVE  CopiesInv'
  <2>1. \A q \in Relays, f \in Poison : job'[q][f] # "stored"
    BY <1>0, <1>8 DEF Abandon, NoJob, TypeOK
  <2>2. ASSUME NEW f \in Events
        PROVE  stream'[f] + late'[f] + Air(f)' + Cardinality(Exiting') <= faults' + Free(f)'
    <3>1. late'[f] \in Nat
      BY <1>0, <1>8 DEF Abandon, TypeOK
    <3>2. QED
      BY <1>1, <1>8, <3>1, AbandonStep
  <2>3. QED
    BY <2>1, <2>2
<1>9. ASSUME NEW r \in Relays, Rollback(r) \/ PollTimeout(r) PROVE CopiesInv'
  <2>1. /\ Abandon(r) /\ UNCHANGED stopping /\ faults' = faults + 1
        /\ phase[r] = "batch" /\ phase' = [phase EXCEPT ![r] = "idle"]
    BY <1>9 DEF Rollback, PollTimeout, Fault
  <2>2. Exiting' = Exiting
    BY <1>0, <2>1, ExitingSteps, Zenon DEF Phases
  <2>3. faults \in Nat
    BY <1>0 DEF TypeOK
  <2>4. QED
    BY <1>8, <2>1, <2>2, <2>3
<1>10. ASSUME NEW r \in Relays, ExitAtTimeout(r) \/ Crash(r) PROVE CopiesInv'
  <2>1. /\ Abandon(r) /\ UNCHANGED stopping
        /\ phase[r] # "down" /\ phase' = [phase EXCEPT ![r] = "down"]
    BY <1>10 DEF ExitAtTimeout, Crash
  <2>2. Cardinality(Exiting') = Cardinality(Exiting) - (IF stopping[r] THEN 1 ELSE 0)
    BY <1>0, <2>1, ExitingSteps, Zenon DEF Phases
  <2>3. faults \in Nat
    BY <1>0 DEF TypeOK
  <2>4. Exiting' \subseteq Exiting
    BY <1>0, <2>1 DEF Exiting, TypeOK
  <2>5. Cardinality(Exiting') \in Nat
    BY <2>4, FS_Subset, FS_CardinalityType
  <2>6. CASE ExitAtTimeout(r)
    <3>1. stopping[r] /\ faults' = faults
      BY <2>6 DEF ExitAtTimeout
    <3>2. QED
      BY <1>8, <2>1, <2>2, <2>3, <2>5, <3>1
  <2>7. CASE Crash(r)
    <3>1. faults' = faults + 1
      BY <2>7 DEF Crash, Fault
    <3>2. QED
      BY <1>8, <2>1, <2>2, <2>3, <2>5, <3>1
  <2>8. QED
    BY <1>10, <2>6, <2>7
<1>11. ASSUME NEW r \in Relays, Signal(r) \/ Return(r) \/ Restart(r) PROVE CopiesInv'
  <2>1. UNCHANGED <<status, job, stream, late>>
    BY <1>11 DEF Signal, Return, Restart, dbVars, natsVars
  <2>2. \A f \in Events : Free(f)' = Free(f) /\ Air(f)' = Air(f)
    BY <2>1 DEF Free, Air
  <2>3. /\ faults' \in Nat /\ Cardinality(Exiting') \in Nat
        /\ faults' - Cardinality(Exiting') >= faults - Cardinality(Exiting)
    <3>0. faults \in Nat /\ phase \in [Relays -> Phases]
      BY <1>0 DEF TypeOK
    <3>1. CASE Signal(r)
      <4>1. phase' = [phase EXCEPT ![r] = phase[r]] /\ phase[r] \in Phases /\ faults' = faults + 1
        BY <3>0, <3>1 DEF Signal, Fault
      <4>2. Cardinality(Exiting') = Cardinality(Exiting) + 1
        BY <1>0, <3>1, <4>1, ExitingSteps, Zenon
      <4>3. QED
        BY <3>0, <4>1, <4>2
    <3>2. CASE Return(r)
      <4>1. /\ phase' = [phase EXCEPT ![r] = "down"] /\ phase[r] # "down" /\ stopping[r]
            /\ UNCHANGED <<stopping, faults>>
        BY <3>2 DEF Return
      <4>2. Cardinality(Exiting') = Cardinality(Exiting) - 1
        BY <1>0, <4>1, ExitingSteps, Zenon DEF Phases
      <4>3. Exiting' \subseteq Exiting
        BY <1>0, <4>1 DEF Exiting, TypeOK
      <4>4. Cardinality(Exiting') \in Nat
        BY <4>3, FS_Subset, FS_CardinalityType
      <4>5. QED
        BY <3>0, <4>1, <4>2, <4>4
    <3>3. CASE Restart(r)
      <4>1. phase' = [phase EXCEPT ![r] = "idle"] /\ UNCHANGED faults
        BY <3>3 DEF Restart
      <4>2. "idle" \in Phases
        BY DEF Phases
      <4>3. Exiting' = Exiting
        BY <1>0, <3>3, <4>1, <4>2, ExitingSteps, Zenon
      <4>4. QED
        BY <3>0, <4>1, <4>3
    <3>4. QED
      BY <1>11, <3>1, <3>2, <3>3
  <2>4. QED
    BY <1>1, <2>1, <2>2, <2>3
<1>12. CASE UNCHANGED vars
  BY <1>2, <1>12 DEF vars
<1>13. QED
  BY <1>3, <1>4, <1>5, <1>6, <1>7, <1>9, <1>10, <1>11, <1>12, Zenon DEF Next, RelayStep

\* Without hanging publishes, duplicates of an event never outnumber the faults:
\* in a run without faults, SKIP LOCKED and the batch transaction make delivery
\* exactly once, whatever the number of replicas.
THEOREM DuplicatesNeedFaults == ASSUME Hanging = {} PROVE Spec => []CopiesBounded
<1>1. Init => CopiesInv
  <2> SUFFICES ASSUME Init PROVE CopiesInv
    OBVIOUS
  <2>1. Exiting = {}
    BY DEF Init, Exiting
  <2>2. Cardinality(Exiting) = 0
    BY <2>1, FS_EmptySet
  <2>3. \A e \in Events : Air(e) = 0 /\ Free(e) = 0
    BY DEF Init, Air, Free, NoJob
  <2>4. QED
    BY <2>2, <2>3, OutboxAssumption DEF Init, CopiesInv, NoJob
<1>2. OutboxInv /\ CopiesInv /\ [Next]_vars => CopiesInv'
  BY CopiesStep
<1>3. OutboxInv /\ CopiesInv => CopiesBounded
  BY ExitingFinite DEF OutboxInv, TypeOK, CopiesInv, CopiesBounded, Air, Free
<1>4. QED
  BY <1>1, <1>2, <1>3, Invariance, PTL DEF Spec
=============================================================================
