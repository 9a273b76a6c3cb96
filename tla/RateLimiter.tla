----------------------------- MODULE RateLimiter -----------------------------
(***************************************************************************)
(* InMemoryRateLimitMiddleware (core/rate_limit.py).  Everything dispatch  *)
(* does before it calls the next middleware runs without an await: one     *)
(* request is one step.  /health and /metrics pass it by.                  *)
(*                                                                         *)
(* Abstraction: instead of the time of a request a bucket keeps its age in *)
(* ticks, which stops counting one tick past the window, when the request  *)
(* can no longer matter.                                                   *)
(***************************************************************************)
EXTENDS UseOrder

CONSTANTS
    Clients,            \* what _identify_client may return
    Limit,              \* settings.rate_limit_per_minute
    Burst,              \* settings.rate_limit_burst
    WindowSeconds,      \* self.window_seconds
    TicksPerSecond,     \* resolution of time.monotonic() in the model
    MaxTracked          \* _MAX_TRACKED_CLIENTS

Allowed == Limit + Burst
Window  == WindowSeconds * TicksPerSecond

\* With no request allowed at all, bucket[0] would be read from an empty
\* bucket.
ASSUME RateLimitConfig ==
    /\ Limit \in Nat /\ Burst \in Nat /\ Allowed > 0
    /\ WindowSeconds \in Nat \ {0} /\ TicksPerSecond \in Nat \ {0}
    /\ MaxTracked \in Nat \ {0}

VARIABLES
    order,      \* the keys of self.requests, least recently used first
    bucket,     \* its values, <<>> for a client that is not tracked
    answer      \* the verdict on the last request

limiterVars == <<order, bucket, answer>>

NoRetry == 0
Answer(c, allowed, retryAfter) ==
    [client |-> c, allowed |-> allowed, retryAfter |-> retryAfter]

Init ==
    /\ order = <<>>
    /\ bucket = [c \in Clients |-> <<>>]
    /\ answer \in [client : Clients, allowed : {TRUE}, retryAfter : {NoRetry}]

\* Mutant: a request from a known client does not refresh its place.
Touch_NoRefresh(o, c) ==
    IF Contains(o, c) THEN o
    ELSE (IF Len(o) >= MaxTracked THEN Tail(o) ELSE o) \o <<c>>

\* Lines 40-46: a new client may evict the least recently used one; then c is
\* moved to the end.
Touch(o, c) ==
    LET room == IF ~Contains(o, c) /\ Len(o) >= MaxTracked THEN Tail(o) ELSE o
    IN MoveToEnd(room, c)

\* Mutant: a request on the edge of the window is forgotten a tick early.
Recent_Early(s) ==
    LET live == {i \in 1..Len(s) : s[i] < Window}
    IN IF live = {} THEN <<>> ELSE SubSeq(s, Min(live), Len(s))

\* Lines 48-49: the leading entries older than the window go.
Recent(s) ==
    LET live == {i \in 1..Len(s) : s[i] <= Window}
    IN IF live = {} THEN <<>> ELSE SubSeq(s, Min(live), Len(s))

\* Mutant: the time since the oldest request instead of the time left.
RetryAfter_Elapsed(oldest) == Max({1, oldest \div TicksPerSecond})

\* Line 53, in whole seconds.
RetryAfter(oldest) == Max({1, (Window - oldest) \div TicksPerSecond})

\* Mutant: a rejected request counts as well.
Request_CountsRejected(c) ==
    LET recent == Recent(bucket[c]) IN
    /\ order' = Touch(order, c)
    /\ bucket' = [d \in Clients |-> IF d = c THEN Append(recent, 0)
                                    ELSE IF Contains(order', d) THEN bucket[d]
                                    ELSE <<>>]
    /\ answer' = IF Len(recent) >= Allowed
                 THEN Answer(c, FALSE, RetryAfter(recent[1]))
                 ELSE Answer(c, TRUE, NoRetry)

\* dispatch.
Request(c) ==
    LET recent == Recent(bucket[c])
        kept   == [d \in Clients |->
                     IF Contains(order', d) THEN bucket[d] ELSE <<>>]
    IN
    /\ order' = Touch(order, c)
    /\ \/ /\ Len(recent) >= Allowed
          /\ bucket' = [kept EXCEPT ![c] = recent]
          /\ answer' = Answer(c, FALSE, RetryAfter(recent[1]))
       \/ /\ Len(recent) < Allowed
          /\ bucket' = [kept EXCEPT ![c] = Append(recent, 0)]
          /\ answer' = Answer(c, TRUE, NoRetry)

Older(s) == [i \in 1..Len(s) |-> Min({s[i] + 1, Window + 1})]

Tick ==
    /\ bucket' = [c \in Clients |-> Older(bucket[c])]
    /\ UNCHANGED <<order, answer>>

Next == Tick \/ \E c \in Clients : Request(c)

Spec == Init /\ [][Next]_limiterVars

-----------------------------------------------------------------------------
\* The limiter's memory is bounded, which is what the eviction is for: no more
\* than MaxTracked clients, each once, no more than Allowed times for each, and
\* nothing is kept for a client that is not tracked.
TypeOK ==
    /\ order \in Seq(Clients)
    /\ IsInjective(order)
    /\ Len(order) <= MaxTracked
    /\ \A c \in Clients :
          /\ bucket[c] \in Seq(0..(Window + 1))
          /\ Len(bucket[c]) <= Allowed
          /\ ~Contains(order, c) => bucket[c] = <<>>

\* The buckets pruned on demand, seen as exact sliding windows.
Exact == INSTANCE SlidingWindow
           WITH recent  <- [c \in Clients |-> Recent(bucket[c])],
                verdict <- [client |-> answer.client, allowed |-> answer.allowed]

=============================================================================
