---------------------------- MODULE RateLimiter -----------------------------
(***************************************************************************)
(* The token bucket in front of the URL pipeline (URLRateLimiter.Allow).   *)
(* Every call holds the mutex from beginning to end, so it is one step; the *)
(* clock is monotonic (Go's now.Sub) and moves between calls.              *)
(*                                                                         *)
(* Time is counted in ticks, and tokens in ticks too: a token is Refill of *)
(* them, an elapsed tick gains one.  The code keeps the quotient as a      *)
(* float64; here it is exact.                                              *)
(***************************************************************************)
EXTENDS Integers, Sequences

CONSTANTS Users,
          Capacity,    \* RATE_LIMIT_PER_HOUR
          Window,      \* one hour
          Second,      \* ticks of a second: waits are rounded up to one
          MaxTime,     \* bound: the clock stops here
          MaxCalls     \* bound: calls of Allow by one user

\* A limiter without capacity, or of a window too short for it, allows every
\* call and keeps nothing: it is not modelled.
ASSUME RatesAssumption ==
  /\ Capacity \in Nat \ {0}
  /\ Window \in Nat /\ Window >= Capacity
  /\ Second \in Nat \ {0}
  /\ MaxTime \in Nat /\ MaxCalls \in Nat

Refill == Window \div Capacity
Full   == Capacity * Refill

VARIABLES
  now,
  buckets,  \* users with a bucket
  tokens,   \* per user: what the bucket holds, in ticks
  last,     \* per user: when it was last brought up to date
  calls,    \* per user: calls so far (only for the bound MaxCalls)
  granted,  \* history, per user: when each submission was allowed
  promised  \* history, per user: when the last refusal told it to come back

limiterVars == <<now, buckets, tokens, last, calls, granted, promised>>

Never == -1

LimiterInit ==
  /\ now = 0
  /\ buckets = {}
  /\ tokens = [u \in Users |-> 0] /\ last = [u \in Users |-> 0]
  /\ calls = [u \in Users |-> 0]
  /\ granted = [u \in Users |-> << >>] /\ promised = [u \in Users |-> Never]

Least(a, b) == IF a < b THEN a ELSE b

\* What the bucket holds now: a new user's is full.
Level(u) == IF u \in buckets THEN Least(Full, tokens[u] + (now - last[u])) ELSE Full

\* Mutant: the wait is rounded down.
WaitRoundedDown(level) == ((Refill - level) \div Second) * Second

\* retryAfter: what is missing of one token, up to a whole second.
Wait(level) == ((Refill - level + Second - 1) \div Second) * Second

\* Mutant: the time of the last update is not moved.
TouchForgotten(u, level) ==
  /\ buckets' = buckets \cup {u}
  /\ tokens' = [tokens EXCEPT ![u] = level]
  /\ last' = IF u \in buckets THEN last ELSE [last EXCEPT ![u] = now]

Touch(u, level) ==
  /\ buckets' = buckets \cup {u}
  /\ tokens' = [tokens EXCEPT ![u] = level]
  /\ last'   = [last EXCEPT ![u] = now]

Submit(u) ==
  /\ calls[u] < MaxCalls
  /\ calls' = [calls EXCEPT ![u] = @ + 1]

Allow(u) ==
  /\ Submit(u) /\ Level(u) >= Refill
  /\ Touch(u, Level(u) - Refill)
  /\ granted'  = [granted EXCEPT ![u] = Append(@, now)]
  /\ promised' = [promised EXCEPT ![u] = Never]
  /\ UNCHANGED now

Refuse(u) ==
  /\ Submit(u) /\ Level(u) < Refill
  /\ Touch(u, Level(u))
  /\ promised' = [promised EXCEPT ![u] = now + Wait(Level(u))]
  /\ UNCHANGED <<now, granted>>

Tick ==
  /\ now < MaxTime
  /\ now' = now + 1
  /\ UNCHANGED <<buckets, tokens, last, calls, granted, promised>>

\* The buckets are process-local; so is what the properties promise.
Restart ==
  /\ buckets' = {}
  /\ tokens' = [u \in Users |-> 0] /\ last' = [u \in Users |-> 0]
  /\ granted' = [u \in Users |-> << >>] /\ promised' = [u \in Users |-> Never]
  /\ UNCHANGED <<now, calls>>

LimiterNext == (\E u \in Users : Allow(u) \/ Refuse(u)) \/ Tick \/ Restart

LimiterSpec == LimiterInit /\ [][LimiterNext]_limiterVars

-----------------------------------------------------------------------------
LimiterTypeOK ==
  /\ now \in 0 .. MaxTime
  /\ buckets \subseteq Users
  /\ tokens \in [Users -> 0 .. Full]
  /\ last \in [Users -> 0 .. MaxTime]
  /\ calls \in [Users -> 0 .. MaxCalls]
  /\ granted \in [Users -> Seq(0 .. MaxTime)]
  /\ promised \in [Users -> Nat \cup {Never}]

\* Between any two submissions of a user that are allowed there are at most
\* Capacity, and one more for every Refill that passed: the burst, and the
\* steady rate, however the calls are spread.
BurstThenRate ==
  \A u \in Users : \A i, j \in DOMAIN granted[u] :
    i <= j => (j - i + 1) * Refill <= Full + (granted[u][j] - granted[u][i])

\* A user who comes back when it was told to (and was not served meanwhile)
\* is served: the wait is enough, whatever else it tried before.
WaitIsEnough ==
  [][\A u \in Users : Refuse(u) => promised[u] = Never \/ now < promised[u]]_limiterVars

\* ratelimit.go:11-15, README.md:47: Capacity submissions an hour.
HourlyLimit ==
  \A u \in Users : \A i, j \in DOMAIN granted[u] :
    i <= j /\ granted[u][j] - granted[u][i] < Window => j - i + 1 <= Capacity
=============================================================================
