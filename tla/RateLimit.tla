----------------------------- MODULE RateLimit ------------------------------
(***************************************************************************)
(* The gateway's per-client rate limiter (pkg/middleware RateLimit): a     *)
(* token bucket per client address, made full at the first request, and a  *)
(* janitor that forgets the buckets nobody used for a while.  Probe paths  *)
(* do not come here.                                                       *)
(*                                                                         *)
(* Tokens are counted in units of which a request costs Cost and Rate flow *)
(* in per tick of the clock, so that a rate need not be a whole number of  *)
(* requests.  get and Allow are one step: the entry get has just stamped   *)
(* is safe from the janitor for ten minutes.                               *)
(***************************************************************************)
EXTENDS Naturals

CONSTANTS
  IPs,         \* client addresses
  Burst,       \* units in a full bucket
  Rate,        \* units a bucket gains per tick
  Cost,        \* units of a request
  IdleLimit,   \* ticks after which an unused bucket may be forgotten
  Period,      \* ticks between two runs of the janitor
  MaxEarned    \* bound on the length of the window, in units

\* Nothing in the code relates the ten minutes to the configured rate: that an
\* unused bucket is full again by then is what the limit rests on.
ASSUME RateAssumption ==
  /\ Burst \in Nat /\ Rate \in Nat /\ Cost \in Nat \ {0}
  /\ IdleLimit \in Nat /\ Period \in Nat \ {0} /\ MaxEarned \in Nat
  /\ Burst <= Rate * IdleLimit

VARIABLES
  known,    \* addresses with an entry in limiters
  tokens,   \* tokens[i]: units in the bucket of i
  idle,     \* idle[i]: ticks since lastSeen of i
  phase,    \* ticks since the janitor ran
  earned,   \* units that flowed into each bucket since the window began
  spent     \* spent[i]: units of requests of i let through since then

vars == <<known, tokens, idle, phase, earned, spent>>

TypeOK ==
  /\ known \subseteq IPs
  /\ tokens \in [IPs -> 0..Burst]
  /\ idle \in [IPs -> Nat]
  /\ phase \in 0..Period
  /\ earned \in Nat
  /\ spent \in [IPs -> Nat]

Init ==
  /\ known = {}
  /\ tokens = [i \in IPs |-> Burst]
  /\ idle = [i \in IPs |-> 0]
  /\ phase = 0
  /\ earned = 0
  /\ spent = [i \in IPs |-> 0]

\* The bucket get finds, or makes.
Level(i) == IF i \in known THEN tokens[i] ELSE Burst

Get(i, left) ==
  /\ known' = known \cup {i}
  /\ tokens' = [tokens EXCEPT ![i] = left]
  /\ idle' = [idle EXCEPT ![i] = 0]
  /\ UNCHANGED <<phase, earned>>

\* A request is let through.
Admit(i) ==
  /\ Level(i) >= Cost
  /\ Get(i, Level(i) - Cost)
  /\ spent' = [spent EXCEPT ![i] = @ + Cost]

\* A request is answered with 429, which costs nothing.
Reject(i) ==
  /\ Level(i) < Cost
  /\ Get(i, Level(i))
  /\ UNCHANGED spent

\* What a tick makes of a bucket.
Refill(x) == IF x + Rate < Burst THEN x + Rate ELSE Burst

\* Time passes; the janitor's ticker fires every Period.
Tick ==
  /\ phase < Period /\ phase' = phase + 1
  /\ earned + Rate <= MaxEarned /\ earned' = earned + Rate
  /\ tokens' = [i \in IPs |-> Refill(tokens[i])]
  /\ idle' = [i \in IPs |-> IF i \in known THEN idle[i] + 1 ELSE 0]
  /\ UNCHANGED <<known, spent>>

\* A janitor that forgets every bucket, whenever it was last used.
Janitor_AnyAge ==
  /\ phase = Period /\ phase' = 0
  /\ known' = {}
  /\ UNCHANGED <<tokens, idle, earned, spent>>

\* A janitor that lets an entry live for one more period.
Janitor_Late ==
  /\ phase = Period /\ phase' = 0
  /\ known' = {i \in known : idle[i] <= IdleLimit + Period}
  /\ UNCHANGED <<tokens, idle, earned, spent>>

\* The janitor deletes the entries idle for more than the limit.
Janitor ==
  /\ phase = Period /\ phase' = 0
  /\ known' = {i \in known : idle[i] <= IdleLimit}
  /\ UNCHANGED <<tokens, idle, earned, spent>>

\* An observer starts to count at any time.
Window ==
  /\ earned' = 0 /\ spent' = [i \in IPs |-> 0]
  /\ UNCHANGED <<known, tokens, idle, phase>>

Next ==
  \/ \E i \in IPs : Admit(i) \/ Reject(i)
  \/ Tick \/ Janitor \/ Window

Spec == Init /\ [][Next]_vars

-----------------------------------------------------------------------------
(* What the limiter promises *)

\* "RateLimit rejects clients exceeding rps (with the given burst) per IP": in
\* any window of time a client is let through at most a burst and what the rate
\* allows, whether or not its bucket was forgotten and made anew meanwhile.
RateBounded == \A i \in IPs : spent[i] <= Burst + earned

\* "Entries idle for more than ten minutes are evicted by a background janitor
\* to bound memory": no entry outlives the limit by more than the period.
IdleEvicted == \A i \in known : idle[i] <= IdleLimit + Period
=============================================================================
