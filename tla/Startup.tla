------------------------------ MODULE Startup -------------------------------
(***************************************************************************)
(* How a service process starts (the run functions under cmd, Validate,    *)
(* database.Open and events.NewNATSBus): it checks the secrets it uses,    *)
(* connects to what it needs in order, each with a capped exponential      *)
(* backoff and a wait of its own, and serves only then.  The streams are   *)
(* ensured once, within a timeout; giving up is fatal.  The startup probe  *)
(* gives the container Window ticks.  Redis is dialled lazily.             *)
(***************************************************************************)
EXTENDS Naturals, Sequences

CONSTANTS
  Needs,         \* Needs[b]: what binary b connects to, in order
  Secrets,       \* Secrets[b]: the needs b's run passes to Validate
  WeakSecrets,   \* sets of secrets a production environment may have weak
  Timeout,       \* Timeout[d]: ticks one attempt at d may take
  MaxWait,       \* database.Open's maxWait, defaultConnectWait
  FirstBackoff, MaxBackoff,
  Window         \* the startup probe's failureThreshold * periodSeconds

Binaries == DOMAIN Needs

ASSUME StartupAssumption ==
  /\ Needs \in [Binaries -> Seq(DOMAIN Timeout)]
  /\ \A d \in DOMAIN Timeout : Timeout[d] \in Nat
  /\ MaxWait \in Nat /\ FirstBackoff \in Nat /\ MaxBackoff \in Nat /\ Window \in Nat

\* Binary b waits for no server but d, and for the streams after it; the startup
\* probe leaves it the time to.
OneServer(b, d) ==
  /\ Needs[b] \in {<<>>, <<d>>, <<d, "streams">>}
  /\ MaxWait + Timeout[d] + Timeout["streams"] < Window

ASSUME WindowAssumption ==
  /\ "streams" \in DOMAIN Timeout
  /\ \A b \in Binaries :
       \/ {"postgres", "nats"} \subseteq {Needs[b][i] : i \in DOMAIN Needs[b]}
       \/ \E d \in DOMAIN Timeout : OneServer(b, d)

VARIABLES
  binary,      \* which binary this is
  weak,        \* the secrets that are weak
  up,          \* dependencies that answer
  needs,       \* what is still to connect to
  step,        \* an attempt, or the sleep before the next one
  attempt,     \* ticks since that began
  waited,      \* ticks since the first attempt at Head(needs)
  backoff,     \* the next sleep
  boot         \* ticks since the container started, up to Window

envVars == <<binary, weak, up>>
bootVars == <<needs, step, attempt, waited, backoff, boot>>

BootTypeOK ==
  /\ binary \in Binaries
  /\ weak \in WeakSecrets /\ up \subseteq DOMAIN Timeout
  /\ needs \in Seq(DOMAIN Timeout)
  /\ step \in {"try", "sleep"}
  /\ attempt \in Nat /\ waited \in Nat /\ backoff \in Nat
  /\ boot \in 0..Window

Needed == {Needs[binary][i] : i \in DOMAIN Needs[binary]}

BootInit ==
  /\ binary \in Binaries /\ weak \in WeakSecrets /\ up = {}
  /\ needs = Needs[binary] /\ step = "try"
  /\ attempt = 0 /\ waited = 0 /\ backoff = FirstBackoff /\ boot = 0

\* The container starts again.
Boot ==
  /\ needs' = Needs[binary] /\ step' = "try"
  /\ attempt' = 0 /\ waited' = 0 /\ backoff' = FirstBackoff /\ boot' = 0
  /\ UNCHANGED envVars

\* The startup is over, one way or the other.
BootDone ==
  /\ needs' = <<>> /\ step' = "try"
  /\ attempt' = 0 /\ waited' = 0 /\ backoff' = FirstBackoff /\ boot' = 0
  /\ UNCHANGED envVars

\* A dependency comes up (Kubernetes has no start order).
Reach(d) ==
  /\ d \in Needed \ up
  /\ up' = up \union {d}
  /\ UNCHANGED <<binary, weak, bootVars>>

-----------------------------------------------------------------------------
\* Validate in production: only the secrets the binary uses count.
Refused == weak \intersect Secrets[binary] # {}

\* The attempt succeeds; run goes on to the next dependency.
Connect ==
  /\ ~Refused
  /\ needs # <<>> /\ step = "try" /\ Head(needs) \in up
  /\ needs' = Tail(needs)
  /\ attempt' = 0 /\ waited' = 0 /\ backoff' = FirstBackoff
  /\ UNCHANGED <<envVars, step, boot>>

\* A retry that looks at the time it has waited, not at when it would wake up.
GivesUp_Late == waited > MaxWait

\* The deadline would pass during the sleep.
GivesUp == waited + backoff > MaxWait

AttemptFails == needs # <<>> /\ step = "try" /\ Head(needs) \notin up

\* The attempt fails and another one fits into the wait.
Retry ==
  /\ ~Refused
  /\ AttemptFails /\ Head(needs) # "streams" /\ ~GivesUp
  /\ step' = "sleep" /\ attempt' = 0
  /\ UNCHANGED <<envVars, needs, waited, backoff, boot>>

\* log.Fatal: weak secrets, or an attempt that fails for good.
Fatal == Refused \/ (AttemptFails /\ (Head(needs) = "streams" \/ GivesUp))

\* The sleep is over.
Wake ==
  /\ needs # <<>> /\ step = "sleep" /\ attempt = backoff
  /\ step' = "try" /\ attempt' = 0
  /\ backoff' = IF 2 * backoff < MaxBackoff THEN 2 * backoff ELSE MaxBackoff
  /\ UNCHANGED <<envVars, needs, waited, boot>>

\* Time passes; an attempt ends by its timeout.
BootClock ==
  /\ ~Refused /\ needs # <<>>
  /\ attempt < IF step = "try" THEN Timeout[Head(needs)] ELSE backoff
  /\ attempt' = attempt + 1 /\ waited' = waited + 1
  /\ boot' = IF boot < Window THEN boot + 1 ELSE boot
  /\ UNCHANGED <<envVars, needs, step, backoff>>

-----------------------------------------------------------------------------
\* postgres.go, nats.go: a dependency that does not answer is given up within
\* maxWait and one more attempt; and a binary that waits for at most one server
\* connects or gives up inside the startup probe's window.
StartsInWindow ==
  /\ needs # <<>> => waited <= MaxWait + Timeout[Head(needs)]
  /\ {"postgres", "nats"} \subseteq Needed \/ boot < Window
=============================================================================
