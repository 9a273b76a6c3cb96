--------------------------- MODULE CircuitBreaker ---------------------------
(***************************************************************************)
(* One provider's circuit breaker                                          *)
(* (orchestration/circuit_breaker.py), as operators on its state.  The     *)
(* bodies under self._lock never await, so every method is one atomic      *)
(* step of the event loop: a method is a function from the breaker before  *)
(* the call to the breaker after it.                                       *)
(*                                                                         *)
(* Abstraction: the clock is read only to compare the time since opened_at *)
(* with recovery_seconds, so the model keeps that time, in ticks, and      *)
(* stops counting at RecoveryTicks; the failure counter is only compared   *)
(* with the threshold, and stops counting there.                           *)
(***************************************************************************)
EXTENDS Integers

CONSTANTS
    FailureThreshold,   \* settings.circuit_breaker_failure_threshold
    RecoveryTicks       \* settings.circuit_breaker_recovery_seconds

ASSUME BreakerConfig ==
    /\ FailureThreshold \in Nat \ {0}
    /\ RecoveryTicks \in Nat

NotOpened == -1         \* opened_at is None

CircuitState == {"closed", "open", "half_open"}

Breaker == [state            : CircuitState,
            failures         : 0..FailureThreshold,
            openedFor        : NotOpened..RecoveryTicks,
            halfOpenInFlight : BOOLEAN]

NewBreaker == [state |-> "closed", failures |-> 0,
               openedFor |-> NotOpened, halfOpenInFlight |-> FALSE]

RecoveryElapsed(b) == b.openedFor # NotOpened /\ b.openedFor >= RecoveryTicks

-----------------------------------------------------------------------------
\* What allow_request answers in state b.
Admits(b) ==
    \/ b.state = "closed"
    \/ b.state = "open" /\ RecoveryElapsed(b)
    \/ b.state = "half_open" /\ ~b.halfOpenInFlight

\* The breaker after allow_request answered True in state b; a refusal
\* changes nothing.
AllowRequest(b) ==
    IF b.state = "closed" THEN b
    ELSE [b EXCEPT !.state = "half_open", !.halfOpenInFlight = TRUE]

-----------------------------------------------------------------------------
\* Mutant: a success closes the circuit but keeps the failure count.
RecordSuccess_Forgetful(b) ==
    [b EXCEPT !.state = "closed", !.openedFor = NotOpened,
              !.halfOpenInFlight = FALSE]

\* record_success assigns every field, whatever they were.
RecordSuccess(b) ==
    [state |-> "closed", failures |-> 0,
     openedFor |-> NotOpened, halfOpenInFlight |-> FALSE]

Trips(b) == b.failures + 1 >= FailureThreshold

\* A failure below the threshold only counts.
Counted(b) ==
    [state |-> b.state, failures |-> b.failures + 1,
     openedFor |-> b.openedFor, halfOpenInFlight |-> FALSE]

\* The circuit opens; opened_at is now.
Tripped ==
    [state |-> "open", failures |-> FailureThreshold,
     openedFor |-> 0, halfOpenInFlight |-> FALSE]

\* Mutants: the clock restarts only when the circuit was closed; a failed
\* probe never leaves half_open.
RecordFailure_StaleClock(b) ==
    IF ~Trips(b) THEN Counted(b)
    ELSE IF b.state = "closed" THEN Tripped
    ELSE [Tripped EXCEPT !.openedFor = b.openedFor]

RecordFailure_Leaks(b) ==
    IF b.state = "half_open" THEN b
    ELSE IF Trips(b) THEN Tripped
    ELSE Counted(b)

\* Every failure at or beyond the threshold opens the circuit afresh, also
\* when it was open already.
RecordFailure(b) ==
    IF Trips(b) THEN Tripped
    ELSE Counted(b)

-----------------------------------------------------------------------------
\* One tick of time.monotonic() as the breaker sees it.
Elapse(b) ==
    IF b.openedFor \in 0..(RecoveryTicks - 1)
    THEN [b EXCEPT !.openedFor = @ + 1]
    ELSE b
-----------------------------------------------------------------------------
\* The four fields agree with one another.
Coherent(b) ==
    /\ b.state = "closed" =>
          /\ b.failures < FailureThreshold
          /\ b.openedFor = NotOpened
    /\ b.state # "closed" =>
          /\ b.failures = FailureThreshold
          /\ b.openedFor # NotOpened
    /\ b.halfOpenInFlight <=> b.state = "half_open"

=============================================================================
