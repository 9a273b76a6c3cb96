---------------------------- MODULE Orchestrator ----------------------------
(***************************************************************************)
(* LLMOrchestrator.generate (orchestration/orchestrator.py) run by several *)
(* requests at once on one event loop, over the circuit breakers they      *)
(* share.                                                                  *)
(*                                                                         *)
(* A request loses the event loop only where generate really suspends: in  *)
(* the HTTP call inside adapter.generate and in asyncio.sleep.  Everything *)
(* between two such points (recording the verdict, then skipping over the  *)
(* route to the next provider that is willing) is one action.              *)
(*                                                                         *)
(* Time passes in ticks.  A call or a sleep whose time has come is served  *)
(* before the next tick: the event loop is taken to be never late by a     *)
(* tick or more.                                                           *)
(***************************************************************************)
EXTENDS CircuitBreaker, ProviderAdapters, Sequences

CONSTANTS
    Requests,       \* requests the process serves at the same time
    Providers,      \* names a route may mention
    Routes,         \* provider sequences ModelRouter.route may return
    Available,      \* registered, and is_available
    Extractive,     \* the Llama adapter, if LLAMA_API_URL is not set
    RetryAttempts,  \* settings.llm_retry_attempts
    CallTicks,      \* settings.llm_timeout_seconds * 1.15
    BackoffBase,    \* settings.llm_retry_base_delay_seconds
    BackoffCap      \* settings.llm_max_backoff_seconds

Fallback  == "fallback"     \* answered by _graceful_fallback
NoAnswer  == "none"         \* not answered yet

ASSUME OrchestratorConfig ==
    /\ Routes \subseteq Seq(Providers)
    /\ Routes # {}
    /\ Available \subseteq Providers
    /\ Extractive \subseteq Available
    /\ {Fallback, NoAnswer} \cap Providers = {}
    /\ RetryAttempts \in Nat \ {0}
    /\ {CallTicks, BackoffBase, BackoffCap} \subseteq Nat

VARIABLES
    task,       \* what each request is doing
    breaker     \* self.breakers

vars == <<task, breaker>>

-----------------------------------------------------------------------------
\* A request.  pos indexes its route (the outer loop), attempt counts calls
\* to that provider (the inner loop), age is the time spent in the call or
\* sleep it is in, delay the sleep before this attempt (or now).  probe marks
\* a call that allow_request admitted while the circuit was not closed; source
\* is who answered the last request.
Task == [pc      : {"idle", "calling", "sleeping"},
         route   : Routes \cup {<<>>},
         pos     : Nat,
         attempt : 0..RetryAttempts,
         age     : Nat,
         delay   : Nat,
         probe   : BOOLEAN,
         source  : Providers \cup {Fallback, NoAnswer}]

Idle(source) ==
    [pc |-> "idle", route |-> <<>>, pos |-> 0, attempt |-> 0, age |-> 0,
     delay |-> 0, probe |-> FALSE, source |-> source]

Call(route, pos, attempt, delay, probe) ==
    [pc |-> "calling", route |-> route, pos |-> pos, attempt |-> attempt,
     age |-> 0, delay |-> delay, probe |-> probe, source |-> NoAnswer]

Sleep(route, pos, attempt, delay) ==
    [pc |-> "sleeping", route |-> route, pos |-> pos, attempt |-> attempt,
     age |-> 0, delay |-> delay, probe |-> FALSE, source |-> NoAnswer]

Target(r) == task[r].route[task[r].pos]

Busy(r) == task[r].pc # "idle"

\* Requests inside the inner loop for provider p.
Users(p) == {r \in Requests : Busy(r) /\ Target(r) = p}

Smaller(a, b) == IF a < b THEN a ELSE b

\* _backoff: base * 2^(attempt-1) plus a random part of at most base, capped.
BackoffDelays(attempt) ==
    {d \in 0..BackoffCap : \E jitter \in 0..BackoffBase :
        d = Smaller(BackoffBase * 2^(attempt - 1) + jitter, BackoffCap)}

-----------------------------------------------------------------------------
Init ==
    /\ task = [r \in Requests |-> Idle(NoAnswer)]
    /\ breaker = [p \in Providers |-> NewBreaker]

\* The loop's two "continue"s: not available, circuit open.
Willing(b, p) == p \in Available /\ Admits(b[p])

\* Mutant: allow_request is asked but the circuit stays as it was.
Engage_Unmarked(r, route, i, b) ==
    /\ task' = [task EXCEPT ![r] = IF route[i] \in Extractive
                                   THEN Idle(route[i])
                                   ELSE Call(route, i, 1, 0, TRUE)]
    /\ breaker' = b

\* allow_request, then the first attempt.  The extractive adapter answers
\* without suspending, so record_success follows in the same step.
Engage(r, route, i, b) ==
    LET p        == route[i]
        admitted == AllowRequest(b[p])
    IN
    \/ /\ p \in Extractive
       /\ task' = [task EXCEPT ![r] = Idle(p)]
       /\ breaker' = [b EXCEPT ![p] = RecordSuccess(admitted)]
    \/ /\ p \notin Extractive
       /\ task' = [task EXCEPT ![r] =
                      Call(route, i, 1, 0, b[p].state # "closed")]
       /\ breaker' = [b EXCEPT ![p] = admitted]

\* Mutant: the loop gives up on the route at the first unwilling provider.
TryFrom_GivesUp(r, route, from, b) ==
    \/ /\ from > Len(route) \/ ~Willing(b, route[from])
       /\ task' = [task EXCEPT ![r] = Idle(Fallback)]
       /\ breaker' = b
    \/ /\ from <= Len(route)
       /\ Willing(b, route[from])
       /\ Engage(r, route, from, b)

\* The rest of the outer loop, from position from, over breakers b.
TryFrom(r, route, from, b) ==
    \/ /\ \A i \in from..Len(route) : ~Willing(b, route[i])
       /\ task' = [task EXCEPT ![r] = Idle(Fallback)]
       /\ breaker' = b
    \/ \E i \in from..Len(route) :
       /\ Willing(b, route[i])
       /\ \A j \in from..(i - 1) : ~Willing(b, route[j])
       /\ Engage(r, route, i, b)

\* A new request arrives.
Submit(r) ==
    /\ ~Busy(r)
    /\ \E route \in Routes : TryFrom(r, route, 1, breaker)

-----------------------------------------------------------------------------
\* The breaker calls one attempt makes: record_success comes before
\* normalize_answer, whose failure is then recorded as well.
Verdict(b, outcome) ==
    CASE outcome = "answered" -> RecordSuccess(b)
      [] outcome = "garbled"  -> RecordFailure(RecordSuccess(b))
      [] OTHER                -> RecordFailure(b)

\* Mutant: one attempt too many.
Retries_OneMore(r, outcome) ==
    outcome \in {"garbled", "transient"} /\ task[r].attempt <= RetryAttempts

Retries(r, outcome) ==
    outcome \in {"garbled", "transient"} /\ task[r].attempt < RetryAttempts

\* An attempt of r ends: lines 74-79, 80-90 or 91-102.
Settle(r, outcome) ==
    LET t == task[r]
        p == Target(r)
        b == [breaker EXCEPT ![p] = Verdict(@, outcome)]
    IN
    \/ /\ outcome = "answered"
       /\ task' = [task EXCEPT ![r] = Idle(p)]
       /\ breaker' = b
    \/ /\ Retries(r, outcome)
       /\ \E d \in BackoffDelays(t.attempt) :
             task' = [task EXCEPT ![r] = Sleep(t.route, t.pos, t.attempt, d)]
       /\ breaker' = b
    \/ /\ outcome # "answered"
       /\ ~Retries(r, outcome)
       /\ TryFrom(r, t.route, t.pos + 1, b)

\* adapter.generate returns or raises.
Reply(r) ==
    /\ task[r].pc = "calling"
    /\ \E reply \in Replies : Settle(r, Outcome(Target(r), reply))

\* Mutant: no outer timeout on the call.
TimeOut_Never(r) == FALSE

\* asyncio.timeout expires; TimeoutError is caught like any other Exception.
TimeOut(r) ==
    /\ task[r].pc = "calling"
    /\ task[r].age = CallTicks
    /\ Settle(r, "transient")

\* The sleep is over and the next attempt starts.  The breaker is not asked
\* again: a retry is sent even to a provider whose circuit has opened.
Wake(r) ==
    /\ task[r].pc = "sleeping"
    /\ task[r].age = task[r].delay
    /\ task' = [task EXCEPT ![r] =
                   Call(task[r].route, task[r].pos, task[r].attempt + 1,
                        task[r].delay, FALSE)]
    /\ UNCHANGED breaker

\* The request's deadline: the end of its call's timeout or of its sleep.
Deadline(r) == IF task[r].pc = "calling" THEN CallTicks ELSE task[r].delay

Tick ==
    /\ \A r \in Requests : Busy(r) => task[r].age < Deadline(r)
    /\ task' = [r \in Requests |->
                  IF Busy(r) THEN [task[r] EXCEPT !.age = @ + 1] ELSE task[r]]
    /\ breaker' = [p \in Providers |-> Elapse(breaker[p])]

Next ==
    \/ Tick
    \/ \E r \in Requests : Submit(r) \/ Reply(r) \/ TimeOut(r) \/ Wake(r)

Spec == Init /\ [][Next]_vars

\* The event loop keeps running: time passes, and its timers fire.  Neither
\* clients nor providers owe anything.
FairSpec ==
    /\ Spec
    /\ WF_vars(Tick)
    /\ \A r \in Requests : WF_vars(TimeOut(r)) /\ WF_vars(Wake(r))

-----------------------------------------------------------------------------
(***************************************************************************)
(* Properties                                                              *)
(***************************************************************************)

\* A busy request is inside the loops over a route, at a provider that needs
\* a call.
InLoops(t) ==
    /\ t.route \in Routes
    /\ t.pos \in 1..Len(t.route)
    /\ t.attempt \in 1..RetryAttempts
    /\ t.route[t.pos] \in Available \ Extractive
    /\ t.probe => t.pc = "calling"
    /\ t.pc = "sleeping" => t.attempt < RetryAttempts

\* Every request and breaker has one of the shapes the code gives it.
TypeOK ==
    /\ task \in [Requests -> Task]
    /\ breaker \in [Providers -> Breaker]
    /\ \A r \in Requests : Busy(r) => InLoops(task[r])

\* The four fields of a breaker agree in every reachable state, whoever
\* reported last: a circuit is closed exactly while its count is below the
\* threshold, and a half-open one has its probe slot taken.  So allow_request's
\* third test (circuit_breaker.py:35) never finds a free slot.
BreakerShape == \A p \in Providers : Coherent(breaker[p])

\* The calls in flight that allow_request let through as a probe.
Probes(p) == {r \in Users(p) : task[r].pc = "calling" /\ task[r].probe}

\* The configuration under which the breaker isolates its probe: a circuit
\* stays open longer than any back-off followed by a call that times out.  The
\* defaults satisfy it (45 > 1.05 + 28.75); Settings does not require it.
RecoveryOutlastsAttempts ==
    /\ CallTicks < RecoveryTicks
    /\ \A a \in 1..(RetryAttempts - 1) :
          \A d \in BackoffDelays(a) : CallTicks + d < RecoveryTicks

\* While a circuit is half-open exactly one request uses the provider, and it
\* is the probe: no call or retry admitted before the circuit opened is still
\* under way, so the probe's verdict alone decides what the circuit does next.
SoleProbe ==
    \A p \in Providers :
        /\ breaker[p].state = "half_open" =>
              \E r \in Requests : Users(p) = {r} /\ Probes(p) = {r}
        /\ breaker[p].state # "half_open" => Probes(p) = {}

\* How long ago the circuit can have opened at most, seen from a request that
\* was admitted while it was closed: the call or sleep it is in, and the sleep
\* before the call.
Waited(r) ==
    IF task[r].pc = "calling" THEN task[r].delay + task[r].age ELSE task[r].age

InTime ==
    \A r \in Requests : Busy(r) =>
        /\ task[r].age <= Deadline(r)
        /\ CallTicks + task[r].delay < RecoveryTicks

\* Among requests R, over breakers b: a request that uses an open provider is
\* no older than the opening; probes are at half-open providers, alone there.
Isolated(R, b) ==
    /\ \A r \in R : Busy(r) =>
          /\ b[Target(r)].state = "open" => b[Target(r)].openedFor <= Waited(r)
          /\ task[r].probe <=> b[Target(r)].state = "half_open"
    /\ \A r, s \in R :
          Busy(r) /\ Busy(s) /\ Target(r) = Target(s) /\ task[r].probe => r = s
    /\ \A p \in Providers :
          b[p].state = "half_open" => \E r \in R : Busy(r) /\ Target(r) = p

\* The inductive invariant from which SoleProbe follows.
Isolation == InTime /\ Isolated(Requests, breaker)

\* With the extractive Llama adapter on every route no request ends in the
\* canned fallback answer: that adapter's circuit never opens, however many
\* requests fail around it.
ExtractiveSafetyNet ==
    (\A route \in Routes : \E i \in 1..Len(route) : route[i] \in Extractive)
        => \A r \in Requests : task[r].source # Fallback

\* generate always returns: a request that waits for a provider or sleeps
\* before a retry is answered in the end, even if no provider ever replies.
EveryRequestAnswered == \A r \in Requests : Busy(r) ~> ~Busy(r)

\* No circuit stays shut for good: whatever the stragglers and probes report,
\* every breaker is again and again willing to admit a request.
NeverWedged == \A p \in Available : []<>Admits(breaker[p])

\* The local Llama model or the canned answer come last (router.py:49): a
\* request ends there only if every managed provider that is configured refused
\* it or has already failed it.
ManagedFirst ==
    [][\A r \in Requests :
        /\ task'[r] # task[r]
        /\ task'[r].source \in Extractive \cup {Fallback}
        => \A p \in Managed \cap Available :
              \/ ~Admits(breaker[p])
              \/ \E i \in 1..task[r].pos : task[r].route[i] = p]_vars

\* The promise the breakers make together, apart from counting and time.
Gate == INSTANCE ProviderGate
          WITH mode  <- [p \in Providers |-> breaker[p].state],
               users <- [p \in Providers |-> Users(p)]

\* Every step of generate is a step of the gate: requests enter a closed
\* circuit, an open one is entered only by a probe and only once nobody else
\* uses the provider, and every verdict on a probe ends the half-open phase.
GateSpec == Gate!Spec

=============================================================================
