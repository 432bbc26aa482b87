----------------------------- MODULE RateLimiter -----------------------------
(***************************************************************************)
(* api/ratelimit.py: the token bucket of one principal, whose requests     *)
(* read the clock before they take the lock.                               *)
(*                                                                         *)
(* One token is WindowTicks units, so a tick refills RequestsPerWindow.    *)
(***************************************************************************)
EXTENDS Integers, FiniteSets, Sequences

CONSTANTS
    Callers,            \* threads of the API serving one principal
    RequestsPerWindow, WindowTicks, Burst,   \* RateLimitSettings
    MaxTicks,           \* bound: ticks of the clock
    MaxRequests,        \* bound: requests
    MaxStall            \* bound: ticks between reading the clock and the lock

ASSUME LimiterConstants ==
    RequestsPerWindow \in Nat /\ WindowTicks \in Nat /\ Burst \in Nat /\ MaxStall \in Nat

Idle == -1

VARIABLES
    ticks,          \* the clock
    readAt,         \* [Callers -> the `now` of its request, or Idle]
    bucket,         \* [tokens, last] of the principal, <<>> before its first request
    verdicts        \* decisions in the order of the lock: [now, allowed]

bucketVars == <<ticks, readAt, bucket, verdicts>>

Capacity == (RequestsPerWindow + Burst) * WindowTicks
Rate == RequestsPerWindow

\* Mutant: the refill is not capped.
RefilledWithoutCap(now) ==
    IF bucket = <<>> \/ now - bucket.last > 2 * WindowTicks THEN Capacity
    ELSE bucket.tokens + (now - bucket.last) * Rate

\* The bucket refilled to `now`, which may be before its last refill.  An
\* unknown bucket, and one idle for two windows, is full.
Refilled(now) ==
    IF bucket = <<>> \/ now - bucket.last > 2 * WindowTicks THEN Capacity
    ELSE LET refilled == bucket.tokens + (now - bucket.last) * Rate
         IN IF refilled < Capacity THEN refilled ELSE Capacity

AdvanceClock ==
    /\ ticks < MaxTicks
    /\ \A c \in Callers : readAt[c] # Idle => ticks < readAt[c] + MaxStall
    /\ ticks' = ticks + 1
    /\ UNCHANGED <<readAt, bucket, verdicts>>

\* time.monotonic(), before the lock.
Arrive(c) ==
    /\ readAt[c] = Idle
    /\ Len(verdicts) + Cardinality({d \in Callers : readAt[d] # Idle}) < MaxRequests
    /\ readAt' = [readAt EXCEPT ![c] = ticks]
    /\ UNCHANGED <<ticks, bucket, verdicts>>

\* allow, under the lock.
Allow(c) ==
    /\ readAt[c] # Idle
    /\ LET now == readAt[c]
           tokens == Refilled(now)
           allowed == tokens >= WindowTicks
       IN /\ bucket' = [tokens |-> IF allowed THEN tokens - WindowTicks ELSE tokens,
                        last |-> now]
          /\ verdicts' = Append(verdicts, [now |-> now, allowed |-> allowed])
    /\ readAt' = [readAt EXCEPT ![c] = Idle]
    /\ UNCHANGED ticks

BucketInit ==
    /\ ticks = 0 /\ readAt = [c \in Callers |-> Idle] /\ bucket = <<>> /\ verdicts = <<>>

BucketNext == AdvanceClock \/ \E c \in Callers : Arrive(c) \/ Allow(c)

BucketSpec == BucketInit /\ [][BucketNext]_bucketVars

-----------------------------------------------------------------------------

\* Of the requests a bucket decided one after the other, those it let through
\* are at most its capacity and what the rate allows between the times the first
\* and the last of them read: neither callers that reach the lock with an old
\* clock, whose refill is negative, nor the reset of an idle bucket add to it.
AdmissionBounded ==
    \A i, j \in DOMAIN verdicts :
        (i <= j /\ verdicts[i].allowed /\ verdicts[j].allowed) =>
            Cardinality({k \in i..j : verdicts[k].allowed}) * WindowTicks
                <= Capacity + (verdicts[j].now - verdicts[i].now) * Rate
==============================================================================
