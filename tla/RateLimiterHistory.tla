------------------------- MODULE RateLimiterHistory -------------------------
(***************************************************************************)
(* RateLimiter observed from outside: what each client really did, and     *)
(* what it was told.  The observers never influence the limiter.           *)
(***************************************************************************)
EXTENDS RateLimiter

VARIABLES
    seen,       \* every client that made a request, the latest last
    admitted,   \* ages of each client's last Allowed admissions in the window
    advice      \* ticks until a second past the time the client was told to
                \* wait for, or None

None == -1

historyVars == <<seen, admitted, advice>>
vars == <<limiterVars, historyVars>>

HistoryInit ==
    /\ Init
    /\ seen = <<>>
    /\ admitted = [c \in Clients |-> <<>>]
    /\ advice = [c \in Clients |-> None]

\* A client that does not wait as long as it was told to loses the advice.
ObservedRequest(c) ==
    /\ Request(c)
    /\ seen' = MoveToEnd(seen, c)
    /\ admitted' = IF answer'.allowed
                   THEN [admitted EXCEPT ![c] = Latest(Append(@, 0), Allowed)]
                   ELSE admitted
    /\ advice' = [advice EXCEPT ![c] =
                    IF answer'.allowed THEN None
                    ELSE (answer'.retryAfter + 1) * TicksPerSecond]

ObservedTick ==
    /\ Tick
    /\ admitted' = [c \in Clients |-> Recent(Older(admitted[c]))]
    /\ advice' = [c \in Clients |-> IF advice[c] > 0 THEN advice[c] - 1
                                    ELSE advice[c]]
    /\ UNCHANGED seen

HistoryNext == ObservedTick \/ \E c \in Clients : ObservedRequest(c)

HistorySpec == HistoryInit /\ [][HistoryNext]_vars

-----------------------------------------------------------------------------
\* Until the first eviction the limiter implements an exact sliding window:
\* pruning a bucket only when its client asks loses and keeps nothing.
ExactUntilEviction ==
    /\ Exact!Init
    /\ [][Len(seen') <= MaxTracked => Exact!Next]_(Exact!windowVars)

\* The clients tracked are the MaxTracked seen most recently, in that order:
\* one that keeps asking, even in vain, is never evicted before one that does
\* not.
KeepsMostRecent ==
    /\ Len(order) = Min({Len(seen), MaxTracked})
    /\ IsSuffix(order, seen)

\* Eviction only ever forgives: what the limiter remembers of a client is the
\* latest part of what it admitted in the window, so no client is refused a
\* request it was entitled to.
NeverOvercounts ==
    \A c \in Clients : IsSuffix(Recent(bucket[c]), admitted[c])

\* What Retry-After tells a refused client (rate_limit.py:58-61): retry after
\* that many seconds.  A client that stays away for as long is admitted.
RetryAfterSuffices ==
    [][\A c \in Clients :
        advice[c] \in 0..TicksPerSecond /\ ObservedRequest(c) => answer'.allowed]_vars

\* It is never more than a second short: a client that stays away for a second
\* longer is admitted, whoever else came and whatever was evicted meanwhile.
SecondLaterSuffices ==
    [][\A c \in Clients : advice[c] = 0 /\ ObservedRequest(c) => answer'.allowed]_vars

=============================================================================
