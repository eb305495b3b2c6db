------------------------------- MODULE Health -------------------------------
(***************************************************************************)
(* One /livez or /readyz request (pkg/server healthHandler, runChecks):    *)
(* every check runs in a goroutine of its own under a common deadline, and *)
(* the handler collects their answers from a channel until it has them all *)
(* or the deadline has passed.  A check may ignore its context.            *)
(***************************************************************************)
EXTENDS Naturals, FiniteSets

CONSTANTS
  Checks,    \* the registered checks
  Stuck      \* those that may never answer

ASSUME HealthAssumption == Stuck \subseteq Checks /\ IsFiniteSet(Checks)

VARIABLES
  task,      \* task[c]: the goroutine of check c
  found,     \* found[c]: what the check returned
  done,      \* answers in the channel
  expired,   \* the context is done: deadline passed or client gone
  results,   \* results[c]: what the response says of c
  left,      \* checks whose answer was not received yet
  ok,        \* no error was received
  verdict    \* the response

probeVars == <<task, found, done, expired, results, left, ok, verdict>>

ProbeTypeOK ==
  /\ task \in [Checks -> {"running", "sending", "ended"}]
  /\ found \in [Checks -> {"ok", "error"}]
  /\ done \subseteq {c \in Checks : task[c] = "ended"}
  /\ expired \in BOOLEAN /\ ok \in BOOLEAN
  /\ results \in [Checks -> {"timed out", "ok", "error"}]
  /\ left \subseteq Checks
  /\ verdict \in {"none", "ok", "unavailable"}

ProbeInit ==
  /\ task = [c \in Checks |-> "running"]
  /\ found = [c \in Checks |-> "ok"]
  /\ done = {} /\ expired = FALSE
  /\ results = [c \in Checks |-> "timed out"]
  /\ left = Checks /\ ok = TRUE
  /\ verdict = IF Checks = {} THEN "ok" ELSE "none"

\* A check returns.
Return(c, r) ==
  /\ task[c] = "running"
  /\ task' = [task EXCEPT ![c] = "sending"]
  /\ found' = [found EXCEPT ![c] = r]
  /\ UNCHANGED <<done, expired, results, left, ok, verdict>>

\* Its goroutine sends the answer; the channel has room for every check.
Send(c) ==
  /\ task[c] = "sending"
  /\ Cardinality(done) < Cardinality(Checks)
  /\ task' = [task EXCEPT ![c] = "ended"]
  /\ done' = done \cup {c}
  /\ UNCHANGED <<found, expired, results, left, ok, verdict>>

\* The handler's deadline.
ContextDone ==
  /\ ~expired /\ verdict = "none"
  /\ expired' = TRUE
  /\ UNCHANGED <<task, found, done, results, left, ok, verdict>>

\* A handler that forgets an error once a later check is fine.
Receive_LastWins(c) ==
  /\ verdict = "none" /\ c \in done
  /\ done' = done \ {c} /\ left' = left \ {c}
  /\ results' = [results EXCEPT ![c] = found[c]]
  /\ ok' = (found[c] = "ok")
  /\ verdict' = IF left' # {} THEN "none" ELSE IF ok' THEN "ok" ELSE "unavailable"
  /\ UNCHANGED <<task, found, expired>>

\* The handler receives an answer, and responds after the last one.
Receive(c) ==
  /\ verdict = "none" /\ c \in done
  /\ done' = done \ {c} /\ left' = left \ {c}
  /\ results' = [results EXCEPT ![c] = found[c]]
  /\ ok' = (ok /\ found[c] = "ok")
  /\ verdict' = IF left' # {} THEN "none" ELSE IF ok' THEN "ok" ELSE "unavailable"
  /\ UNCHANGED <<task, found, expired>>

\* A handler that waits for the goroutines it started.
GiveUp_Waits ==
  /\ verdict = "none" /\ expired
  /\ \A c \in Checks : task[c] # "running"
  /\ verdict' = "unavailable"
  /\ UNCHANGED <<task, found, done, expired, results, left, ok>>

\* The handler sees that the context is done.
GiveUp ==
  /\ verdict = "none" /\ expired
  /\ verdict' = "unavailable"
  /\ UNCHANGED <<task, found, done, expired, results, left, ok>>

ProbeNext ==
  \/ \E c \in Checks : Return(c, "ok") \/ Return(c, "error") \/ Send(c) \/ Receive(c)
  \/ ContextDone \/ GiveUp

ProbeSpec == ProbeInit /\ [][ProbeNext]_probeVars

\* The timer fires and goroutines that can run do; only a stuck check need not.
ProbeFairness ==
  /\ WF_probeVars(ContextDone) /\ WF_probeVars(GiveUp) /\ WF_probeVars(\E c \in Checks : Receive(c))
  /\ \A c \in Checks : WF_probeVars(Send(c))
  /\ \A c \in Checks \ Stuck : WF_probeVars(Return(c, "ok") \/ Return(c, "error"))

ProbeFairSpec == ProbeSpec /\ ProbeFairness

-----------------------------------------------------------------------------
(* What a probe promises *)

\* healthHandler: the status agrees with the results sent with it: 200 exactly
\* when every check is reported ok, be they all in or cut off by the deadline.
\* Every variable keeps its type.
StatusMatchesResults ==
  /\ ProbeTypeOK
  /\ verdict # "none" => ((verdict = "ok") <=> \A c \in Checks : results[c] = "ok")

\* "a stuck dependency can never hang the probe", and "buffered: late checks
\* never block": the handler answers, and a goroutine whose check has returned
\* ends, also when the answer has long been given.
ProbeAnswers ==
  /\ <>(verdict # "none")
  /\ \A c \in Checks : task[c] = "sending" ~> task[c] = "ended"
=============================================================================
