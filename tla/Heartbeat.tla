----------------------------- MODULE Heartbeat ------------------------------
(***************************************************************************)
(* A background loop and the liveness probe that watches it (pkg/health):  *)
(* the match loop and the outbox relay do an iteration under a deadline of *)
(* its own, beat, whether it succeeded or not, and wait for at most their  *)
(* interval; /livez fails once the last beat is older than StallAfter, and *)
(* the kubelet gives the container up after Threshold failures in a row.   *)
(* An iteration that outlives its deadline (a call that ignores its        *)
(* context) is stuck; it may still return.                                 *)
(***************************************************************************)
EXTENDS Naturals

CONSTANTS
  Interval,    \* the loop's interval
  Deadline,    \* tickTimeout, pollTimeout
  Floor,       \* the least StallAfter
  Period,      \* ticks between two liveness probes
  Threshold    \* failures in a row that restart the container

\* 10 s and 30 s in the code; nothing is asked of the configured interval.
ASSUME HeartbeatAssumption ==
  /\ Interval \in Nat /\ Deadline \in Nat /\ Floor \in Nat
  /\ Period \in Nat \ {0} /\ Threshold \in Nat \ {0}
  /\ 3 * Deadline <= 2 * Floor

VARIABLES
  loop,        \* what the loop does
  spell,       \* ticks since it began that
  beat,        \* ticks since the last beat
  probe,       \* ticks since the last probe
  failures     \* probes failed in a row

beatVars == <<loop, spell, beat, probe, failures>>

\* StallAfter(interval).
StallAfter == IF 3 * Interval > Floor THEN 3 * Interval ELSE Floor

BeatTypeOK ==
  /\ loop \in {"waiting", "working", "stuck"}
  /\ spell \in Nat /\ beat \in Nat
  /\ loop = "waiting" => spell <= Interval
  /\ loop = "working" => spell <= Deadline
  /\ probe \in 0..Period
  /\ failures \in 0..Threshold

\* NewHeartbeat beats.
BeatInit == loop = "waiting" /\ spell = 0 /\ beat = 0 /\ probe = 0 /\ failures = 0

\* The ticker or timer fires; with a backlog the relay does not wait at all.
Begin ==
  /\ loop = "waiting"
  /\ loop' = "working" /\ spell' = 0
  /\ UNCHANGED <<beat, probe, failures>>

\* An iteration that beats only if its work succeeded.
Finish_OnlySuccess ==
  /\ loop \in {"working", "stuck"}
  /\ loop' = "waiting" /\ spell' = 0 /\ beat' \in {beat, 0}
  /\ UNCHANGED <<probe, failures>>

\* The iteration returns, failed or not, and the loop beats.
Finish ==
  /\ loop \in {"working", "stuck"}
  /\ loop' = "waiting" /\ spell' = 0 /\ beat' = 0
  /\ UNCHANGED <<probe, failures>>

\* The deadline passes and the iteration goes on.
Overrun ==
  /\ loop = "working" /\ spell = Deadline
  /\ loop' = "stuck" /\ spell' = 0
  /\ UNCHANGED <<beat, probe, failures>>

\* The kubelet asks /livez, which runs Check.
Probe ==
  /\ probe = Period /\ failures < Threshold
  /\ probe' = 0
  /\ failures' = IF beat > StallAfter THEN failures + 1 ELSE 0
  /\ UNCHANGED <<loop, spell, beat>>

\* Time passes.
Clock ==
  /\ loop = "waiting" => spell < Interval
  /\ loop = "working" => spell < Deadline
  /\ probe < Period /\ failures < Threshold
  /\ spell' = IF loop = "stuck" THEN 0 ELSE spell + 1
  /\ beat' = beat + 1 /\ probe' = probe + 1
  /\ UNCHANGED <<loop, failures>>

BeatNext == Begin \/ Finish \/ Overrun \/ Probe \/ Clock

BeatSpec == BeatInit /\ [][BeatNext]_beatVars

-----------------------------------------------------------------------------
\* heartbeat.go: "a slow but healthy iteration is not mistaken for a stuck one",
\* for every interval; and a stuck one is given up within Threshold probes from
\* the time it counts as stalled, unless it returns.
StallsNoticed ==
  /\ beat > StallAfter => loop = "stuck"
  /\ beat <= StallAfter + Threshold * Period
=============================================================================
