--------------------------- MODULE OutboxContract ---------------------------
(***************************************************************************)
(* What a transactional outbox promises to the producer of an event and to *)
(* its consumers: at-least-once delivery of exactly the committed events.  *)
(* An event is owed from its commit on.  Copies of it may then appear any  *)
(* number of times, in any order with other events, also after the debt is *)
(* settled; the debt is settled only once a copy has been delivered, or    *)
(* dropped where giving up is allowed.                                     *)
(***************************************************************************)
EXTENDS Naturals

CONSTANTS
  Ids,        \* events
  MayGiveUp   \* whether an event may be dropped unsent

VARIABLES
  owed,     \* committed events still to be delivered
  settled,  \* events known to be delivered
  dropped,  \* events given up
  copies    \* copies[e]: deliveries of e so far

cvars == <<owed, settled, dropped, copies>>

Init ==
  /\ owed = {}
  /\ settled = {}
  /\ dropped = {}
  /\ copies = [e \in Ids |-> 0]

Emit(e) ==
  /\ e \notin owed \cup settled \cup dropped
  /\ owed' = owed \cup {e}
  /\ UNCHANGED <<settled, dropped, copies>>

Deliver(e) ==
  /\ e \in owed \cup settled \cup dropped
  /\ copies' = [copies EXCEPT ![e] = @ + 1]
  /\ UNCHANGED <<owed, settled, dropped>>

\* Several debts may be closed in one transaction.
Close(S, D) ==
  /\ S \cap D = {}
  /\ \A e \in S : copies[e] > 0
  /\ MayGiveUp \/ D = {}
  /\ owed' = owed \ (S \cup D)
  /\ settled' = settled \cup S
  /\ dropped' = dropped \cup D
  /\ UNCHANGED copies

Next ==
  \/ \E e \in Ids : Emit(e) \/ Deliver(e)
  \/ \E S, D \in SUBSET owed : Close(S, D)

Spec == Init /\ [][Next]_cvars
=============================================================================
