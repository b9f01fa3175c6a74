----------------------------- MODULE RateLimiter -----------------------------
(***************************************************************************)
(* agent/internal/middleware/ratelimit.go: a token bucket per connection,  *)
(* and the goroutine that deletes the buckets of idle connections.  Both   *)
(* work under one mutex, so that each section is one step.                 *)
(*                                                                         *)
(* A unit of time is one in which Rate tokens come back; the fractions of  *)
(* a token that the code counts with floats are left out.                  *)
(***************************************************************************)
EXTENDS Integers, Sequences

CONSTANTS Conns,   \* connection IDs of ConnContext
          Rate,    \* tokens refilled in a unit of time
          Burst,   \* capacity of a bucket
          Idle,    \* how long a bucket may go unused
          NoBucket

\* main creates the limiter with rate and burst both rate_limit > 0, and five
\* minutes refill any bucket.
ASSUME LimiterAssumption ==
    /\ Rate \in Nat /\ Burst \in Nat \ {0} /\ Idle \in Nat
    /\ Burst <= Rate * Idle
    /\ NoBucket \notin [tokens : 0 .. Burst, last : Nat]

VARIABLES now,     \* the clock
          bucket,  \* a bucket of a connection: tokens, and time of last check
          times    \* history: when requests of a connection were let through

limiter == <<now, bucket, times>>

LimiterInit == /\ now = 0
               /\ bucket = [c \in Conns |-> NoBucket]
               /\ times = [c \in Conns |-> <<>>]

\* The tokens of a bucket, a new one's too, after the refill.
Refilled(c) ==
    IF bucket[c] = NoBucket THEN Burst
    ELSE LET t == bucket[c].tokens + (now - bucket[c].last) * Rate
         IN  IF t > Burst THEN Burst ELSE t

Admits(c) == Refilled(c) >= 1

\* allow: a request that is refused still writes the refill and the time.
Allow(c) ==
    /\ bucket' = [bucket EXCEPT ![c] =
                    [tokens |-> IF Admits(c) THEN Refilled(c) - 1
                                             ELSE Refilled(c),
                     last   |-> now]]
    /\ times' = IF Admits(c) THEN [times EXCEPT ![c] = Append(@, now)]
                             ELSE times
    /\ UNCHANGED now

\* Mutant: a bucket is dropped whatever its age.
StaleAlways(c) == bucket[c] # NoBucket

Stale(c) == bucket[c] # NoBucket /\ now - bucket[c].last > Idle

\* cleanup
Cleanup == /\ bucket' = [c \in Conns |-> IF Stale(c) THEN NoBucket
                                                     ELSE bucket[c]]
           /\ UNCHANGED <<now, times>>

Tick == now' = now + 1 /\ UNCHANGED <<bucket, times>>

LimiterNext == Tick \/ Cleanup \/ \E c \in Conns : Allow(c)

LimiterSpec == LimiterInit /\ [][LimiterNext]_limiter

\* In any window of time, between any two requests of a connection that were
\* let through, there are at most Burst of them and Rate for each unit of time:
\* also across a cleanup that drops the bucket and gives a full one.
RateBound ==
    \A c \in Conns : \A i, j \in DOMAIN times[c] : i <= j =>
       (j - i) + 1 <= Burst + Rate * (times[c][j] - times[c][i])
=============================================================================
