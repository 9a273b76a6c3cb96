------------------------ MODULE Orchestrator_proofs ------------------------
(***************************************************************************)
(* Theorems about Orchestrator, for any number of requests, providers and  *)
(* routes, any threshold and any timing.                                   *)
(***************************************************************************)
EXTENDS Orchestrator, TLAPS

-----------------------------------------------------------------------------
(***************************************************************************)
(* The breaker's methods                                                   *)
(***************************************************************************)

\* Every method maps a breaker to a breaker, and keeps its fields coherent.
LEMMA BreakerMethods ==
    ASSUME NEW b \in Breaker
    PROVE  /\ AllowRequest(b) \in Breaker
           /\ RecordSuccess(b) \in Breaker
           /\ RecordFailure(b) \in Breaker
           /\ Elapse(b) \in Breaker
           /\ Coherent(RecordSuccess(b))
           /\ Coherent(b) => /\ Coherent(RecordFailure(b))
                             /\ Coherent(Elapse(b))
                             /\ Admits(b) => Coherent(AllowRequest(b))
  <1> USE BreakerConfig DEF Breaker, CircuitState, NotOpened
  <1>1. AllowRequest(b) \in Breaker /\ (Coherent(b) /\ Admits(b) => Coherent(AllowRequest(b)))
    BY DEF AllowRequest, Coherent, Admits, RecoveryElapsed
  <1>2. RecordSuccess(b) \in Breaker /\ Coherent(RecordSuccess(b))
    BY DEF RecordSuccess, Coherent
  <1>3. RecordFailure(b) \in Breaker /\ (Coherent(b) => Coherent(RecordFailure(b)))
    BY DEF RecordFailure, Trips, Counted, Tripped, Coherent
  <1>4. Elapse(b) \in Breaker /\ (Coherent(b) => Coherent(Elapse(b)))
    BY DEF Elapse, Coherent
  <1> QED BY <1>1, <1>2, <1>3, <1>4

\* A fresh breaker is a coherent breaker.
LEMMA NewBreakerShape == NewBreaker \in Breaker /\ Coherent(NewBreaker)
  BY BreakerConfig DEF NewBreaker, Breaker, CircuitState, NotOpened, Coherent

\* The calls of one attempt, whatever its outcome.
LEMMA VerdictShape ==
    ASSUME NEW b \in Breaker, Coherent(b), NEW outcome
    PROVE  Verdict(b, outcome) \in Breaker /\ Coherent(Verdict(b, outcome))
  <1>1. RecordSuccess(b) \in Breaker /\ Coherent(RecordSuccess(b))
    BY BreakerMethods
  <1>2. RecordFailure(RecordSuccess(b)) \in Breaker /\ Coherent(RecordFailure(RecordSuccess(b)))
    BY <1>1, BreakerMethods
  <1>3. RecordFailure(b) \in Breaker /\ Coherent(RecordFailure(b))
    BY BreakerMethods
  <1> QED BY <1>1, <1>2, <1>3 DEF Verdict
-----------------------------------------------------------------------------
(***************************************************************************)
(* Types                                                                   *)
(***************************************************************************)

\* The records generate's loops put a request into.
LEMMA TaskRecords ==
    ASSUME NEW route \in Routes, NEW pos \in 1..Len(route),
           NEW attempt \in 1..RetryAttempts, NEW delay \in Nat,
           NEW probe \in BOOLEAN, route[pos] \in Available \ Extractive
    PROVE  /\ Call(route, pos, attempt, delay, probe) \in Task
           /\ InLoops(Call(route, pos, attempt, delay, probe))
           /\ Sleep(route, pos, attempt, delay) \in Task
           /\ attempt < RetryAttempts => InLoops(Sleep(route, pos, attempt, delay))
  <1>1. route \in Seq(Providers) BY OrchestratorConfig
  <1>2. pos \in Nat /\ attempt \in 0..RetryAttempts BY <1>1, OrchestratorConfig
  <1> QED BY <1>1, <1>2 DEF Call, Sleep, Task, InLoops

\* An idle request is a task outside the loops.
LEMMA IdleRecord ==
    ASSUME NEW source \in Providers \cup {Fallback, NoAnswer}
    PROVE  Idle(source) \in Task /\ Idle(source).pc = "idle"
  BY OrchestratorConfig DEF Idle, Task

\* Replacing one request's record by a good one keeps the types.
LEMMA TaskUpdate ==
    ASSUME TypeOK, NEW r \in Requests, NEW t \in Task,
           t.pc # "idle" => InLoops(t),
           task' = [task EXCEPT ![r] = t],
           breaker' \in [Providers -> Breaker]
    PROVE  TypeOK'
  BY DEF TypeOK, Busy

\* What the outer loop does from some position on, in one of its three ways:
\* nobody willing, the extractive adapter, a call.
GivesUp(r, b) ==
    /\ task' = [task EXCEPT ![r] = Idle(Fallback)]
    /\ breaker' = b

Extracts(r, p, b) ==
    /\ p \in Providers
    /\ Admits(b[p])
    /\ task' = [task EXCEPT ![r] = Idle(p)]
    /\ breaker' = [b EXCEPT ![p] = RecordSuccess(AllowRequest(b[p]))]

Calls(r, route, i, b) ==
    /\ route[i] \in Providers
    /\ route[i] \in Available \ Extractive
    /\ Admits(b[route[i]])
    /\ task' = [task EXCEPT ![r] =
                  Call(route, i, 1, 0, b[route[i]].state # "closed")]
    /\ breaker' = [b EXCEPT ![route[i]] = AllowRequest(b[route[i]])]

\* The two ways the outer loop can go on: no provider is willing, or the first
\* willing one is engaged.
LEMMA TryFromCases ==
    ASSUME NEW r, NEW route \in Routes, NEW from \in Nat \ {0}, NEW b,
           TryFrom(r, route, from, b)
    PROVE  \/ /\ GivesUp(r, b)
              /\ \A j \in from..Len(route) : ~Willing(b, route[j])
           \/ \E p \in Extractive : Extracts(r, p, b)
           \/ \E i \in 1..Len(route) :
                 /\ from <= i
                 /\ Calls(r, route, i, b)
                 /\ \A j \in from..(i - 1) : ~Willing(b, route[j])
  <1>1. CASE /\ breaker' = b /\ task' = [task EXCEPT ![r] = Idle(Fallback)]
             /\ \A j \in from..Len(route) : ~Willing(b, route[j])
    BY <1>1 DEF GivesUp
  <1>2. ASSUME NEW i \in from..Len(route), Willing(b, route[i]),
               Engage(r, route, i, b)
        PROVE  \/ \E p \in Extractive : Extracts(r, p, b)
               \/ Calls(r, route, i, b)
    <2>1. route \in Seq(Providers) /\ i \in 1..Len(route)
      BY OrchestratorConfig
    <2>2. route[i] \in Providers BY <2>1
    <2>3. Admits(b[route[i]]) /\ route[i] \in Available BY <1>2 DEF Willing
    <2>4. CASE route[i] \in Extractive
      BY <1>2, <2>2, <2>3, <2>4 DEF Engage, Extracts
    <2>5. CASE route[i] \notin Extractive
      BY <1>2, <2>2, <2>3, <2>5 DEF Engage, Calls
    <2> QED BY <2>4, <2>5
  <1>3. \A i \in from..Len(route) : i \in 1..Len(route) /\ from <= i
    BY OrchestratorConfig
  <1> QED BY <1>1, <1>2, <1>3 DEF TryFrom

\* The outer loop keeps the types.
LEMMA TryFromType ==
    ASSUME TypeOK, NEW r \in Requests, NEW route \in Routes,
           NEW from \in Nat \ {0}, NEW b \in [Providers -> Breaker],
           TryFrom(r, route, from, b)
    PROVE  TypeOK'
  <1>1. CASE GivesUp(r, b)
    BY <1>1, IdleRecord, TaskUpdate DEF GivesUp
  <1>2. ASSUME NEW p \in Extractive, Extracts(r, p, b)
        PROVE  TypeOK'
    <2>1. breaker' \in [Providers -> Breaker]
      BY <1>2, BreakerMethods DEF Extracts
    <2> QED BY <1>2, <2>1, IdleRecord, TaskUpdate DEF Extracts
  <1>3. ASSUME NEW i \in 1..Len(route), Calls(r, route, i, b)
        PROVE  TypeOK'
    <2>1. breaker' \in [Providers -> Breaker]
      BY <1>3, BreakerMethods DEF Calls
    <2> DEFINE t == Call(route, i, 1, 0, b[route[i]].state # "closed")
    <2>3. /\ 1 \in 1..RetryAttempts /\ 0 \in Nat
          /\ (b[route[i]].state # "closed") \in BOOLEAN
          /\ route[i] \in Available \ Extractive
      BY <1>3, OrchestratorConfig DEF Calls
    <2>2. t \in Task /\ InLoops(t)
      BY <2>3, TaskRecords, Zenon
    <2>4. task' = [task EXCEPT ![r] = t]
      BY <1>3 DEF Calls
    <2> HIDE DEF t
    <2> QED BY <2>1, <2>2, <2>4, TaskUpdate
  <1> QED BY <1>1, <1>2, <1>3, TryFromCases

\* A busy request's provider is one of Providers.
LEMMA TargetType ==
    ASSUME TypeOK, NEW r \in Requests, Busy(r)
    PROVE  Target(r) \in Providers
  BY OrchestratorConfig DEF TypeOK, InLoops, Target

\* The breakers after the verdict on an attempt of r.
Judged(r, outcome) ==
    [breaker EXCEPT ![Target(r)] = Verdict(breaker[Target(r)], outcome)]

\* The three ways an attempt ends: an answer, a retry, the next provider.
Answers(r, outcome) ==
    /\ task' = [task EXCEPT ![r] = Idle(Target(r))]
    /\ breaker' = Judged(r, outcome)

Sleeps(r, d, outcome) ==
    /\ task[r].attempt < RetryAttempts
    /\ task' = [task EXCEPT ![r] =
                  Sleep(task[r].route, task[r].pos, task[r].attempt, d)]
    /\ breaker' = Judged(r, outcome)

MovesOn(r, outcome) ==
    TryFrom(r, task[r].route, task[r].pos + 1, Judged(r, outcome))

\* The three ways an attempt can end: answered, retried, or given up.
LEMMA SettleCases ==
    ASSUME NEW r, NEW outcome, Settle(r, outcome)
    PROVE  \/ outcome = "answered" /\ Answers(r, outcome)
           \/ /\ outcome # "answered"
              /\ \E d \in BackoffDelays(task[r].attempt) : Sleeps(r, d, outcome)
           \/ outcome # "answered" /\ MovesOn(r, outcome)
  <1>1. Retries(r, outcome) => /\ task[r].attempt < RetryAttempts
                               /\ outcome # "answered"
    BY DEF Retries
  <1> QED BY <1>1 DEF Settle, Judged, Answers, Sleeps, MovesOn

\* Ending an attempt keeps the types.
LEMMA SettleType ==
    ASSUME TypeOK, BreakerShape, NEW r \in Requests, Busy(r), NEW outcome,
           Settle(r, outcome)
    PROVE  TypeOK'
  <1>1. InLoops(task[r]) /\ Target(r) \in Providers
    BY TargetType DEF TypeOK
  <1>2. Judged(r, outcome) \in [Providers -> Breaker]
    BY <1>1, VerdictShape DEF Judged, TypeOK, BreakerShape
  <1>3. CASE Answers(r, outcome)
    BY <1>1, <1>2, <1>3, IdleRecord, TaskUpdate DEF Answers
  <1>4. ASSUME NEW d \in BackoffDelays(task[r].attempt), Sleeps(r, d, outcome)
        PROVE  TypeOK'
    <2> DEFINE t == Sleep(task[r].route, task[r].pos, task[r].attempt, d)
    <2>1. d \in Nat BY OrchestratorConfig DEF BackoffDelays
    <2>2. t \in Task /\ InLoops(t)
      BY <1>1, <1>4, <2>1, TaskRecords DEF InLoops, Sleeps
    <2>3. task' = [task EXCEPT ![r] = t] /\ breaker' \in [Providers -> Breaker]
      BY <1>2, <1>4 DEF Sleeps
    <2> HIDE DEF t
    <2> QED BY <2>2, <2>3, TaskUpdate
  <1>5. CASE MovesOn(r, outcome)
    <2>1. task[r].route \in Routes /\ task[r].pos + 1 \in Nat \ {0}
      BY <1>1, OrchestratorConfig DEF InLoops
    <2> QED BY <1>2, <1>5, <2>1, TryFromType DEF MovesOn
  <1> QED BY <1>3, <1>4, <1>5, SettleCases

-----------------------------------------------------------------------------
(***************************************************************************)
(* Type correctness and the shape of the breakers                          *)
(***************************************************************************)

\* The outer loop keeps every breaker coherent.
LEMMA TryFromShape ==
    ASSUME NEW r, NEW route \in Routes, NEW from \in Nat \ {0},
           NEW b \in [Providers -> Breaker],
           \A p \in Providers : Coherent(b[p]),
           TryFrom(r, route, from, b)
    PROVE  BreakerShape'
  <1>1. CASE GivesUp(r, b)
    BY <1>1 DEF GivesUp, BreakerShape
  <1>2. ASSUME NEW p \in Extractive, Extracts(r, p, b)
        PROVE  BreakerShape'
    <2>1. Coherent(RecordSuccess(AllowRequest(b[p])))
      BY <1>2, BreakerMethods DEF Extracts
    <2> QED BY <1>2, <2>1 DEF Extracts, BreakerShape
  <1>3. ASSUME NEW i \in 1..Len(route), Calls(r, route, i, b)
        PROVE  BreakerShape'
    <2>1. Coherent(AllowRequest(b[route[i]]))
      BY <1>3, BreakerMethods DEF Calls
    <2> QED BY <1>3, <2>1 DEF Calls, BreakerShape
  <1> QED BY <1>1, <1>2, <1>3, TryFromCases

\* The verdict on an attempt leaves all breakers coherent.
LEMMA JudgedShape ==
    ASSUME TypeOK, BreakerShape, NEW r \in Requests, Busy(r), NEW outcome
    PROVE  /\ Judged(r, outcome) \in [Providers -> Breaker]
           /\ \A p \in Providers : Coherent(Judged(r, outcome)[p])
  <1>1. Target(r) \in Providers
    BY TargetType
  <1>2. /\ Verdict(breaker[Target(r)], outcome) \in Breaker
        /\ Coherent(Verdict(breaker[Target(r)], outcome))
    BY <1>1, VerdictShape DEF TypeOK, BreakerShape
  <1> QED BY <1>1, <1>2 DEF Judged, TypeOK, BreakerShape

\* The end of an attempt leaves all breakers coherent.
LEMMA SettleShape ==
    ASSUME TypeOK, BreakerShape, NEW r \in Requests, Busy(r), NEW outcome,
           Settle(r, outcome)
    PROVE  BreakerShape'
  <1>1. CASE breaker' = Judged(r, outcome)
    BY <1>1, JudgedShape DEF BreakerShape
  <1>2. CASE MovesOn(r, outcome)
    <2>1. task[r].route \in Routes /\ task[r].pos + 1 \in Nat \ {0}
      BY OrchestratorConfig DEF TypeOK, InLoops
    <2> QED BY <1>2, <2>1, JudgedShape, TryFromShape DEF MovesOn
  <1> QED BY <1>1, <1>2, SettleCases DEF Answers, Sleeps

\* Time preserves types and shapes.
LEMMA TickType ==
    ASSUME TypeOK, BreakerShape, Tick
    PROVE  TypeOK' /\ BreakerShape'
  <1>1. /\ breaker' \in [Providers -> Breaker]
        /\ BreakerShape'
    BY BreakerMethods DEF Tick, TypeOK, BreakerShape
  <1>2. ASSUME NEW r \in Requests
        PROVE  task'[r] \in Task /\ (task'[r].pc # "idle" => InLoops(task'[r]))
    <2>1. CASE ~Busy(r)
      BY <2>1 DEF Tick, TypeOK, Busy
    <2>2. CASE Busy(r)
      <3>1. task[r] \in Task /\ InLoops(task[r])
        BY <2>2 DEF TypeOK
      <3>2. task'[r] = [task[r] EXCEPT !.age = @ + 1]
        BY <2>2 DEF Tick
      <3> QED BY <3>1, <3>2 DEF Task, InLoops
    <2> QED BY <2>1, <2>2
  <1>3. task' \in [Requests -> Task]
    BY <1>2 DEF Tick
  <1> QED BY <1>1, <1>2, <1>3 DEF TypeOK, Busy

\* The end of a sleep preserves types and shapes.
LEMMA WakeType ==
    ASSUME TypeOK, NEW r \in Requests, Wake(r)
    PROVE  TypeOK'
  <1> DEFINE t == Call(task[r].route, task[r].pos, task[r].attempt + 1,
                       task[r].delay, FALSE)
  <1>1. InLoops(task[r]) /\ task[r].delay \in Nat
    BY DEF TypeOK, Task, Wake, Busy
  <1>2. task[r].attempt + 1 \in 1..RetryAttempts
    BY <1>1, OrchestratorConfig DEF InLoops, Wake
  <1>3. t \in Task /\ InLoops(t)
    BY <1>1, <1>2, TaskRecords DEF InLoops
  <1>4. task' = [task EXCEPT ![r] = t] /\ breaker' \in [Providers -> Breaker]
    BY DEF Wake, TypeOK
  <1> HIDE DEF t
  <1> QED BY <1>3, <1>4, TaskUpdate
\* Every step keeps the types and the shape of the breakers.
LEMMA NextType ==
    ASSUME TypeOK, BreakerShape, [Next]_vars
    PROVE  TypeOK' /\ BreakerShape'
  <1>1. CASE Tick
    BY <1>1, TickType
  <1>2. ASSUME NEW r \in Requests, Submit(r)
        PROVE  TypeOK' /\ BreakerShape'
    <2>1. PICK route \in Routes : TryFrom(r, route, 1, breaker)
      BY <1>2 DEF Submit
    <2>2. breaker \in [Providers -> Breaker] /\ 1 \in Nat \ {0}
      BY DEF TypeOK
    <2> QED BY <2>1, <2>2, TryFromType, TryFromShape DEF BreakerShape
  <1>3. ASSUME NEW r \in Requests, Reply(r)
        PROVE  TypeOK' /\ BreakerShape'
    BY <1>3, SettleType, SettleShape DEF Reply, Busy
  <1>4. ASSUME NEW r \in Requests, TimeOut(r)
        PROVE  TypeOK' /\ BreakerShape'
    BY <1>4, SettleType, SettleShape DEF TimeOut, Busy
  <1>5. ASSUME NEW r \in Requests, Wake(r)
        PROVE  TypeOK' /\ BreakerShape'
    BY <1>5, WakeType DEF Wake, BreakerShape
  <1>6. CASE UNCHANGED vars
    BY <1>6 DEF vars, TypeOK, BreakerShape, Busy
  <1> QED BY <1>1, <1>2, <1>3, <1>4, <1>5, <1>6 DEF Next

\* Types and shapes hold initially.
LEMMA InitType == Init => TypeOK /\ BreakerShape
  BY NewBreakerShape, IdleRecord DEF Init, TypeOK, BreakerShape, Busy

\* Requests and breakers keep the shapes the code gives them, and the four
\* fields of every breaker agree, for any configuration and any number of
\* requests.
THEOREM TypeCorrect == Spec => [](TypeOK /\ BreakerShape)
  BY InitType, NextType, PTL DEF Spec

\* allow_request's third test never admits: a half-open circuit refuses.
THEOREM ShapeCorrect == Spec => []BreakerShape
  BY TypeCorrect, PTL
-----------------------------------------------------------------------------
(***************************************************************************)
(* One probe at a time                                                     *)
(***************************************************************************)

\* A verdict always leaves the half-open state, and a circuit it leaves open
\* was opened just now.
LEMMA VerdictSettles ==
    ASSUME NEW b \in Breaker, Coherent(b), NEW outcome
    PROVE  /\ Verdict(b, outcome).state \in {"closed", "open"}
           /\ Verdict(b, outcome).state = "open"
                 => outcome # "answered" /\ Verdict(b, outcome).openedFor = 0
  <1> USE BreakerConfig
  <1>1. RecordSuccess(b).state = "closed"
    BY DEF RecordSuccess
  <1>2. \A c \in Breaker : Coherent(c) =>
           /\ RecordFailure(c).state \in {"closed", "open"}
           /\ RecordFailure(c).state = "open" => RecordFailure(c).openedFor = 0
    BY DEF RecordFailure, Trips, Counted, Tripped, Coherent, Breaker, CircuitState
  <1>3. RecordSuccess(b) \in Breaker /\ Coherent(RecordSuccess(b))
    BY BreakerMethods
  <1> QED BY <1>1, <1>2, <1>3 DEF Verdict

\* By the time a circuit that is not closed admits a probe, everyone who used
\* the provider has left.
LEMMA NobodyLeft ==
    ASSUME TypeOK, InTime, NEW R \in SUBSET Requests,
           NEW b \in [Providers -> Breaker], \A q \in Providers : Coherent(b[q]),
           Isolated(R, b),
           NEW p \in Providers, Admits(b[p]), b[p].state # "closed",
           NEW s \in R, Busy(s)
    PROVE  Target(s) # p
  <1>1. b[p].state = "open" /\ b[p].openedFor >= RecoveryTicks
    BY DEF Admits, Coherent, RecoveryElapsed
  <1>2. Waited(s) < RecoveryTicks
    BY OrchestratorConfig, BreakerConfig
       DEF TypeOK, Task, Busy, InTime, Deadline, Waited
  <1>3. Target(s) = p => b[p].openedFor <= Waited(s)
    BY <1>1 DEF Isolated
  <1>4. Waited(s) \in Int /\ b[p].openedFor \in Int /\ RecoveryTicks \in Int
    BY BreakerConfig DEF TypeOK, Task, Busy, Waited, Breaker, NotOpened
  <1> QED BY <1>1, <1>2, <1>3, <1>4

\* A step of r leaves the other requests as they were.
LEMMA OthersUnchanged ==
    ASSUME TypeOK, NEW r \in Requests, NEW t, task' = [task EXCEPT ![r] = t]
    PROVE  \A s \in Requests \ {r} :
              /\ task'[s] = task[s]
              /\ Busy(s)' <=> Busy(s)
              /\ Target(s)' = Target(s)
              /\ Waited(s)' = Waited(s)
              /\ Deadline(s)' = Deadline(s)
  BY DEF TypeOK, Busy, Target, Waited, Deadline

\* Once r is idle, the isolation of the others is that of all requests.
LEMMA IsolatedWithout ==
    ASSUME TypeOK, NEW r \in Requests, NEW source, NEW b,
           Isolated(Requests \ {r}, b),
           task' = [task EXCEPT ![r] = Idle(source)], breaker' = b
    PROVE  Isolated(Requests, breaker)'
  <1>1. ~Busy(r)'
    BY DEF TypeOK, Busy, Idle
  <1>2. \A s \in Requests \ {r} : /\ task'[s] = task[s]
                                  /\ Busy(s)' <=> Busy(s)
                                  /\ Target(s)' = Target(s)
                                  /\ Waited(s)' = Waited(s)
    BY OthersUnchanged
  <1> QED BY <1>1, <1>2 DEF Isolated
\* A request enters provider p by a fresh call: it becomes p's probe, alone,
\* exactly when the circuit was not closed.
LEMMA EnterIsolated ==
    ASSUME TypeOK, InTime, NEW r \in Requests, NEW route \in Routes,
           NEW b \in [Providers -> Breaker], \A q \in Providers : Coherent(b[q]),
           Isolated(Requests \ {r}, b),
           NEW i \in 1..Len(route), Calls(r, route, i, b)
    PROVE  Isolated(Requests, breaker)'
  <1> DEFINE p == route[i]
             opening == b[p].state # "closed"
             t == Call(route, i, 1, 0, opening)
             Others == Requests \ {r}
  <1>1. \A s \in Others : /\ task'[s] = task[s]
                          /\ Busy(s)' <=> Busy(s)
                          /\ Target(s)' = Target(s)
                          /\ Waited(s)' = Waited(s)
    BY OthersUnchanged DEF Calls
  <1>2. /\ Busy(r)' /\ Target(r)' = p /\ p \in Providers
        /\ task'[r].probe <=> opening
    BY DEF TypeOK, Busy, Target, Calls, Call
  <1>3. /\ breaker'[p] = AllowRequest(b[p])
        /\ \A q \in Providers \ {p} : breaker'[q] = b[q]
    BY DEF Calls
  <1>4. /\ ~opening => AllowRequest(b[p]) = b[p]
        /\ opening => AllowRequest(b[p]).state = "half_open"
    BY DEF AllowRequest, Breaker
  <1>5. opening => \A s \in Others : Busy(s) => Target(s) # p
    BY NobodyLeft DEF Calls
  <1>6. \A s \in Others : Busy(s) => Target(s) \in Providers
    BY TargetType
  <1> HIDE DEF p, opening
  <1>7. \A s \in Requests : Busy(s)' =>
           /\ breaker'[Target(s)'].state = "open"
                 => breaker'[Target(s)'].openedFor <= Waited(s)'
           /\ task'[s].probe <=> breaker'[Target(s)'].state = "half_open"
    <2>1. ASSUME NEW s \in Others, Busy(s)'
          PROVE  breaker'[Target(s)'] = b[Target(s)]
      BY <2>1, <1>1, <1>2, <1>3, <1>4, <1>5, <1>6
    <2>2. \A s \in Others : Busy(s)' =>
           /\ breaker'[Target(s)'].state = "open"
                 => breaker'[Target(s)'].openedFor <= Waited(s)'
           /\ task'[s].probe <=> breaker'[Target(s)'].state = "half_open"
      BY <2>1, <1>1 DEF Isolated
    <2>3. /\ breaker'[p].state # "open"
          /\ task'[r].probe <=> breaker'[p].state = "half_open"
      BY <1>2, <1>3, <1>4 DEF opening
    <2> QED BY <2>2, <2>3, <1>2
  <1>8. \A u, s \in Requests :
           Busy(u)' /\ Busy(s)' /\ Target(u)' = Target(s)' /\ task'[u].probe => u = s
    <2>1. \A s \in Others : Busy(s) /\ Target(s) = p => ~task[s].probe
      BY <1>5 DEF Isolated, opening
    <2> QED BY <2>1, <1>1, <1>2, <1>5 DEF Isolated
  <1>9. \A q \in Providers : breaker'[q].state = "half_open"
           => \E s \in Requests : Busy(s)' /\ Target(s)' = q
    BY <1>1, <1>2, <1>3 DEF Isolated
  <1> QED BY <1>7, <1>8, <1>9 DEF Isolated

\* The outer loop keeps isolation.
LEMMA TryFromIsolated ==
    ASSUME TypeOK, InTime, NEW r \in Requests, NEW route \in Routes,
           NEW from \in Nat \ {0},
           NEW b \in [Providers -> Breaker], \A q \in Providers : Coherent(b[q]),
           Isolated(Requests \ {r}, b), TryFrom(r, route, from, b)
    PROVE  Isolated(Requests, breaker)'
  <1>1. CASE GivesUp(r, b)
    BY <1>1, IsolatedWithout DEF GivesUp
  <1>2. ASSUME NEW p \in Extractive, Extracts(r, p, b)
        PROVE  Isolated(Requests, breaker)'
    <2>1. ASSUME NEW s \in Requests \ {r}, Busy(s)
          PROVE  Target(s) # p
      BY <2>1 DEF TypeOK, InLoops, Target
    <2>2. breaker'[p].state = "closed" /\ \A q \in Providers \ {p} : breaker'[q] = b[q]
      BY <1>2 DEF Extracts, RecordSuccess
    <2>3. ASSUME NEW s \in Requests \ {r}, Busy(s)
          PROVE  Target(s) \in Providers
      BY <2>3, TargetType
    <2>4. Isolated(Requests \ {r}, breaker')
      BY <2>1, <2>2, <2>3 DEF Isolated
    <2> QED BY <1>2, <2>4, IsolatedWithout DEF Extracts
  <1>3. ASSUME NEW i \in 1..Len(route), Calls(r, route, i, b)
        PROVE  Isolated(Requests, breaker)'
    BY <1>3, EnterIsolated
  <1> QED BY <1>1, <1>2, <1>3, TryFromCases
\* After the verdict on an attempt of r, the others are still isolated, and a
\* circuit r used is not half-open.
LEMMA JudgedIsolated ==
    ASSUME TypeOK, BreakerShape, Isolated(Requests, breaker),
           NEW r \in Requests, Busy(r), NEW outcome
    PROVE  /\ Isolated(Requests \ {r}, Judged(r, outcome))
           /\ Judged(r, outcome)[Target(r)].state \in {"closed", "open"}
           /\ Judged(r, outcome)[Target(r)].state = "open"
                 => Judged(r, outcome)[Target(r)].openedFor = 0
  <1> DEFINE p == Target(r)
             v == Verdict(breaker[p], outcome)
             b == Judged(r, outcome)
             Others == Requests \ {r}
  <1>1. p \in Providers /\ breaker[p] \in Breaker /\ Coherent(breaker[p])
    BY TargetType DEF TypeOK, BreakerShape
  <1>2. v.state \in {"closed", "open"} /\ (v.state = "open" => v.openedFor = 0)
    BY <1>1, VerdictSettles
  <1>3. b[p] = v /\ \A q \in Providers \ {p} : b[q] = breaker[q]
    BY <1>1 DEF Judged, TypeOK
  <1>4. \A s \in Others : Busy(s) => Target(s) \in Providers /\ Waited(s) \in Nat
    BY TargetType DEF TypeOK, Task, Busy, Waited
  <1>5. \A s \in Others : Busy(s) /\ Target(s) = p => ~task[s].probe
    BY DEF Isolated
  <1> HIDE DEF p, v, b
  <1>6. \A s \in Others : Busy(s) =>
           /\ b[Target(s)].state = "open" => b[Target(s)].openedFor <= Waited(s)
           /\ task[s].probe <=> b[Target(s)].state = "half_open"
    <2>1. ASSUME NEW s \in Others, Busy(s), Target(s) = p
          PROVE  /\ b[Target(s)].state = "open" => b[Target(s)].openedFor <= Waited(s)
                 /\ task[s].probe <=> b[Target(s)].state = "half_open"
      BY <2>1, <1>2, <1>3, <1>4, <1>5
    <2>2. ASSUME NEW s \in Others, Busy(s), Target(s) # p
          PROVE  /\ b[Target(s)].state = "open" => b[Target(s)].openedFor <= Waited(s)
                 /\ task[s].probe <=> b[Target(s)].state = "half_open"
      BY <2>2, <1>3, <1>4 DEF Isolated
    <2> QED BY <2>1, <2>2
  <1>7. \A q \in Providers :
          b[q].state = "half_open" => \E s \in Others : Busy(s) /\ Target(s) = q
    BY <1>2, <1>3 DEF Isolated, p
  <1>8. Isolated(Others, b)
    BY <1>6, <1>7 DEF Isolated
  <1> QED BY <1>2, <1>3, <1>8 DEF b, p

\* Ending an attempt keeps isolation.
LEMMA SettleIsolated ==
    ASSUME TypeOK, BreakerShape, Isolation,
           NEW r \in Requests, Busy(r), NEW outcome, Settle(r, outcome)
    PROVE  Isolated(Requests, breaker)'
  <1> DEFINE b == Judged(r, outcome)
             p == Target(r)
  <1>1. /\ Isolated(Requests \ {r}, b)
        /\ b[p].state \in {"closed", "open"}
        /\ b[p].state = "open" => b[p].openedFor = 0
    BY JudgedIsolated DEF Isolation
  <1>2. CASE Answers(r, outcome)
    BY <1>1, <1>2, IsolatedWithout DEF Answers
  <1>3. ASSUME NEW d \in BackoffDelays(task[r].attempt), Sleeps(r, d, outcome)
        PROVE  Isolated(Requests, breaker)'
    <2>1. \A s \in Requests \ {r} : /\ task'[s] = task[s]
                                    /\ Busy(s)' <=> Busy(s)
                                    /\ Target(s)' = Target(s)
                                    /\ Waited(s)' = Waited(s)
      BY <1>3, OthersUnchanged DEF Sleeps
    <2>2. /\ Busy(r)' /\ Target(r)' = p /\ Waited(r)' = 0
          /\ ~task'[r].probe
      BY <1>3 DEF Sleeps, Sleep, TypeOK, Busy, Target, Waited
    <2>3. breaker' = b
      BY <1>3 DEF Sleeps
    <2>4. \A s \in Requests \ {r} : Busy(s) /\ Target(s) = p => ~task[s].probe
      BY DEF Isolation, Isolated
    <2> HIDE DEF b, p
    <2>5. \A s \in Requests : Busy(s)' =>
           /\ breaker'[Target(s)'].state = "open"
                 => breaker'[Target(s)'].openedFor <= Waited(s)'
           /\ task'[s].probe <=> breaker'[Target(s)'].state = "half_open"
      BY <1>1, <2>1, <2>2, <2>3 DEF Isolated
    <2>6. \A u, s \in Requests :
           Busy(u)' /\ Busy(s)' /\ Target(u)' = Target(s)' /\ task'[u].probe => u = s
      BY <1>1, <2>1, <2>2, <2>4 DEF Isolated
    <2>7. \A q \in Providers : breaker'[q].state = "half_open"
           => \E s \in Requests : Busy(s)' /\ Target(s)' = q
      BY <1>1, <2>1, <2>3 DEF Isolated
    <2> QED BY <2>5, <2>6, <2>7 DEF Isolated
  <1>4. CASE MovesOn(r, outcome)
    <2>1. task[r].route \in Routes /\ task[r].pos + 1 \in Nat \ {0}
      BY OrchestratorConfig DEF TypeOK, InLoops
    <2>2. b \in [Providers -> Breaker] /\ \A q \in Providers : Coherent(b[q])
      BY JudgedShape
    <2> QED BY <1>1, <1>4, <2>1, <2>2, TryFromIsolated DEF MovesOn, Isolation
  <1> QED BY <1>2, <1>3, <1>4, SettleCases
\* Replacing one record keeps every deadline if the new record is in time.
LEMMA InTimeUpdate ==
    ASSUME TypeOK, InTime, NEW r \in Requests, NEW t,
           task' = [task EXCEPT ![r] = t],
           t.pc # "idle" => /\ t.age = 0 /\ t.delay \in Nat
                            /\ CallTicks + t.delay < RecoveryTicks
    PROVE  InTime'
  <1>1. \A s \in Requests \ {r} : /\ task'[s] = task[s]
                                  /\ Busy(s)' <=> Busy(s)
                                  /\ Deadline(s)' = Deadline(s)
    BY OthersUnchanged
  <1>2. task'[r] = t
    BY DEF TypeOK
  <1>3. Busy(r)' => /\ task'[r].age <= Deadline(r)'
                    /\ CallTicks + task'[r].delay < RecoveryTicks
    BY <1>2, OrchestratorConfig DEF Busy, Deadline
  <1> QED BY <1>1, <1>3 DEF InTime

\* A request that moves on along its route is in time.
LEMMA TryFromInTime ==
    ASSUME TypeOK, InTime, RecoveryOutlastsAttempts, NEW r \in Requests,
           NEW route \in Routes, NEW from \in Nat \ {0}, NEW b,
           TryFrom(r, route, from, b)
    PROVE  InTime'
  <1>1. CallTicks + 0 < RecoveryTicks
    BY OrchestratorConfig DEF RecoveryOutlastsAttempts
  <1>2. CASE GivesUp(r, b)
    BY <1>2, InTimeUpdate DEF GivesUp, Idle
  <1>3. ASSUME NEW p \in Extractive, Extracts(r, p, b)
        PROVE  InTime'
    BY <1>3, InTimeUpdate DEF Extracts, Idle
  <1>4. ASSUME NEW i \in 1..Len(route), Calls(r, route, i, b)
        PROVE  InTime'
    <2> DEFINE t == Call(route, i, 1, 0, b[route[i]].state # "closed")
    <2>1. task' = [task EXCEPT ![r] = t]
      BY <1>4 DEF Calls
    <2>2. t.age = 0 /\ t.delay = 0
      BY DEF Call
    <2> HIDE DEF t
    <2>3. t.delay \in Nat /\ CallTicks + t.delay < RecoveryTicks
      BY <1>1, <2>2
    <2> QED BY <2>1, <2>2, <2>3, InTimeUpdate, Zenon
  <1> QED BY <1>2, <1>3, <1>4, TryFromCases

\* A request whose attempt ended is in time.
LEMMA SettleInTime ==
    ASSUME TypeOK, InTime, RecoveryOutlastsAttempts, NEW r \in Requests, Busy(r),
           NEW outcome, Settle(r, outcome)
    PROVE  InTime'
  <1>1. CASE Answers(r, outcome)
    BY <1>1, InTimeUpdate DEF Answers, Idle
  <1>2. ASSUME NEW d \in BackoffDelays(task[r].attempt), Sleeps(r, d, outcome)
        PROVE  InTime'
    <2>1. d \in Nat
      BY OrchestratorConfig DEF BackoffDelays
    <2>2. task[r].attempt \in 1..(RetryAttempts - 1)
      BY <1>2, OrchestratorConfig DEF TypeOK, InLoops, Sleeps
    <2>3. CallTicks + d < RecoveryTicks
      BY <2>2 DEF RecoveryOutlastsAttempts
    <2> QED BY <1>2, <2>1, <2>3, InTimeUpdate DEF Sleeps, Sleep
  <1>3. CASE MovesOn(r, outcome)
    <2>1. task[r].route \in Routes /\ task[r].pos + 1 \in Nat \ {0}
      BY OrchestratorConfig DEF TypeOK, InLoops
    <2> QED BY <1>3, <2>1, TryFromInTime DEF MovesOn
  <1> QED BY <1>1, <1>2, <1>3, SettleCases

\* A tick ages requests and open circuits alike.
LEMMA TickIsolation ==
    ASSUME TypeOK, BreakerShape, Isolation, Tick
    PROVE  Isolation'
  <1>1. ASSUME NEW r \in Requests
        PROVE  /\ task'[r].pc = task[r].pc /\ task'[r].route = task[r].route
               /\ task'[r].pos = task[r].pos /\ task'[r].probe = task[r].probe
               /\ task'[r].delay = task[r].delay
               /\ Busy(r) => task'[r].age = task[r].age + 1
    BY DEF Tick, TypeOK, Task, Busy
  <1>2. \A r \in Requests : /\ Busy(r)' <=> Busy(r)
                            /\ Target(r)' = Target(r)
                            /\ Deadline(r)' = Deadline(r)
                            /\ Busy(r) => Waited(r)' = Waited(r) + 1 /\ Waited(r) \in Nat
    BY <1>1 DEF Busy, Target, Deadline, Waited, TypeOK, Task
  <1>3. ASSUME NEW p \in Providers
        PROVE  /\ breaker'[p].state = breaker[p].state
               /\ breaker'[p].openedFor \in Int /\ breaker[p].openedFor \in Int
               /\ breaker'[p].openedFor <= breaker[p].openedFor + 1
    BY BreakerConfig DEF Tick, TypeOK, Elapse, Breaker, NotOpened
  <1>4. \A r \in Requests : Busy(r) => Target(r) \in Providers
    BY TargetType
  <1>5. InTime'
    <2>1. ASSUME NEW r \in Requests, Busy(r)
          PROVE  /\ task'[r].age <= Deadline(r)'
                 /\ CallTicks + task'[r].delay < RecoveryTicks
      <3>1. task[r].age < Deadline(r) /\ task[r].age \in Nat /\ Deadline(r) \in Nat
        BY <2>1, OrchestratorConfig DEF Tick, TypeOK, Task, Deadline
      <3>2. task'[r].age <= Deadline(r)'
        BY <1>1, <1>2, <2>1, <3>1
      <3> QED BY <1>1, <2>1, <3>2 DEF Isolation, InTime
    <2> QED BY <1>2, <2>1 DEF InTime
  <1>6. \A r \in Requests : Busy(r)' =>
           /\ breaker'[Target(r)'].state = "open"
                 => breaker'[Target(r)'].openedFor <= Waited(r)'
           /\ task'[r].probe <=> breaker'[Target(r)'].state = "half_open"
    <2>1. ASSUME NEW r \in Requests, Busy(r)
          PROVE  /\ breaker'[Target(r)].state = "open"
                    => breaker'[Target(r)].openedFor <= Waited(r)'
                 /\ task'[r].probe <=> breaker'[Target(r)].state = "half_open"
      BY <2>1, <1>1, <1>2, <1>3, <1>4 DEF Isolation, Isolated
    <2> QED BY <1>2, <2>1
  <1>7. \A r, s \in Requests :
           Busy(r)' /\ Busy(s)' /\ Target(r)' = Target(s)' /\ task'[r].probe => r = s
    BY <1>1, <1>2 DEF Isolation, Isolated
  <1>8. \A p \in Providers : breaker'[p].state = "half_open"
           => \E r \in Requests : Busy(r)' /\ Target(r)' = p
    BY <1>2, <1>3 DEF Isolation, Isolated
  <1> QED BY <1>5, <1>6, <1>7, <1>8 DEF Isolation, Isolated

\* A request that wakes up has waited as long as before.
LEMMA WakeIsolation ==
    ASSUME TypeOK, Isolation, NEW r \in Requests, Wake(r)
    PROVE  Isolation'
  <1>1. \A s \in Requests \ {r} : /\ task'[s] = task[s]
                                  /\ Busy(s)' <=> Busy(s)
                                  /\ Target(s)' = Target(s)
                                  /\ Waited(s)' = Waited(s)
    BY OthersUnchanged DEF Wake
  <1>2. /\ Busy(r) /\ Busy(r)' /\ Target(r)' = Target(r)
        /\ Waited(r)' = Waited(r)
        /\ ~task'[r].probe /\ ~task[r].probe
    BY DEF Wake, Call, TypeOK, InLoops, Task, Busy, Target, Waited
  <1>3. breaker' = breaker
    BY DEF Wake
  <1>4. InTime'
    <2>1. Busy(r) /\ task[r].delay \in Nat
      BY DEF Wake, Busy, TypeOK, Task
    <2> QED BY <2>1, InTimeUpdate DEF Wake, Call, Isolation, InTime
  <1>5. Isolated(Requests, breaker)'
    BY <1>1, <1>2, <1>3 DEF Isolation, Isolated
  <1> QED BY <1>4, <1>5 DEF Isolation

\* Every step keeps isolation, if the configuration lets attempts end before
\* the circuit recovers.
LEMMA NextIsolation ==
    ASSUME RecoveryOutlastsAttempts, TypeOK, BreakerShape, Isolation, [Next]_vars
    PROVE  Isolation'
  <1>1. CASE Tick
    BY <1>1, TickIsolation
  <1>2. ASSUME NEW r \in Requests, Submit(r)
        PROVE  Isolation'
    <2>1. PICK route \in Routes : TryFrom(r, route, 1, breaker)
      BY <1>2 DEF Submit
    <2>2. /\ breaker \in [Providers -> Breaker] /\ 1 \in Nat \ {0}
          /\ \A q \in Providers : Coherent(breaker[q])
      BY DEF TypeOK, BreakerShape
    <2>3. Isolated(Requests \ {r}, breaker)
      BY <1>2 DEF Submit, Isolation, Isolated
    <2> QED BY <2>1, <2>2, <2>3, TryFromIsolated, TryFromInTime DEF Isolation
  <1>3. ASSUME NEW r \in Requests, Reply(r) \/ TimeOut(r)
        PROVE  Isolation'
    <2>1. PICK outcome : Settle(r, outcome)
      BY <1>3 DEF Reply, TimeOut
    <2>2. Busy(r)
      BY <1>3 DEF Reply, TimeOut, Busy
    <2> QED BY <2>1, <2>2, SettleIsolated, SettleInTime DEF Isolation
  <1>4. ASSUME NEW r \in Requests, Wake(r)
        PROVE  Isolation'
    BY <1>4, WakeIsolation
  <1>5. CASE UNCHANGED vars
    BY <1>5 DEF vars, Isolation, InTime, Isolated, Busy, Target, Waited, Deadline
  <1> QED BY <1>1, <1>2, <1>3, <1>4, <1>5 DEF Next

\* Isolation holds initially.
LEMMA InitIsolation == Init => Isolation
  BY DEF Init, Isolation, InTime, Isolated, Busy, Idle, NewBreaker

\* The inductive invariant implies the property.
LEMMA IsolationImpliesSoleProbe == TypeOK /\ Isolation => SoleProbe
  <1> SUFFICES ASSUME TypeOK, Isolation, NEW p \in Providers
               PROVE  /\ breaker[p].state = "half_open" =>
                            \E r \in Requests : Users(p) = {r} /\ Probes(p) = {r}
                      /\ breaker[p].state # "half_open" => Probes(p) = {}
    BY DEF SoleProbe
  <1>1. breaker[p].state # "half_open" => Probes(p) = {}
    BY DEF Isolation, Isolated, Probes, Users
  <1>2. ASSUME breaker[p].state = "half_open"
        PROVE  \E r \in Requests : Users(p) = {r} /\ Probes(p) = {r}
    <2>1. PICK r \in Requests : Busy(r) /\ Target(r) = p
      BY <1>2 DEF Isolation, Isolated
    <2>2. task[r].probe
      BY <1>2, <2>1 DEF Isolation, Isolated
    <2>3. Users(p) = {r}
      BY <2>1, <2>2 DEF Isolation, Isolated, Users
    <2>4. task[r].pc = "calling"
      BY <2>1, <2>2 DEF TypeOK, InLoops
    <2>5. Probes(p) = {r}
      BY <2>2, <2>3, <2>4 DEF Probes
    <2> QED BY <2>3, <2>5
  <1> QED BY <1>1, <1>2

\* If a circuit stays open longer than any back-off and call together, then a
\* half-open provider is used by its probe alone, however many requests and
\* providers there are.
THEOREM ProbeIsolation ==
    ASSUME RecoveryOutlastsAttempts
    PROVE  Spec => []SoleProbe
  <1>1. Init => TypeOK /\ BreakerShape /\ Isolation
    BY InitType, InitIsolation
  <1>2. TypeOK /\ BreakerShape /\ Isolation /\ [Next]_vars
           => (TypeOK /\ BreakerShape /\ Isolation)'
    BY NextType, NextIsolation, RecoveryOutlastsAttempts
  <1>3. TypeOK /\ Isolation => SoleProbe
    BY IsolationImpliesSoleProbe
  <1> QED BY <1>1, <1>2, <1>3, PTL DEF Spec

-----------------------------------------------------------------------------
(***************************************************************************)
(* The extractive adapter                                                  *)
(***************************************************************************)

\* The extractive adapter's circuit is always closed, and a request that waits
\* for a provider has not come past the adapter on its route.
NetHolds ==
    /\ \A p \in Extractive : breaker[p].state = "closed"
    /\ \A r \in Requests : Busy(r) =>
          \A i \in 1..task[r].pos : task[r].route[i] \notin Extractive

EveryRouteHasNet ==
    \A route \in Routes : \E i \in 1..Len(route) : route[i] \in Extractive

Net == NetHolds /\ ExtractiveSafetyNet

\* The outer loop keeps the net, if the route up to its position is without it.
LEMMA TryFromNet ==
    ASSUME TypeOK, Net, NEW r \in Requests, NEW route \in Routes,
           NEW from \in Nat \ {0}, NEW b \in [Providers -> Breaker],
           \A p \in Extractive : b[p].state = "closed",
           \A i \in 1..(from - 1) : route[i] \notin Extractive,
           TryFrom(r, route, from, b)
    PROVE  Net'
  <1>0. /\ Extractive \subseteq Providers /\ Extractive \subseteq Available
        /\ Len(route) \in Nat
    BY OrchestratorConfig
  <1>1. \A p \in Extractive : Willing(b, p)
    BY <1>0 DEF Willing, Admits
  <1>2. CASE /\ GivesUp(r, b)
             /\ \A j \in from..Len(route) : ~Willing(b, route[j])
    <2>1. \A i \in 1..Len(route) : route[i] \notin Extractive
      BY <1>0, <1>1, <1>2
    <2>2. ~EveryRouteHasNet
      BY <2>1 DEF EveryRouteHasNet
    <2>3. NetHolds'
      BY <1>2 DEF Net, NetHolds, GivesUp, TypeOK, Busy, Idle
    <2> QED BY <2>2, <2>3 DEF Net, ExtractiveSafetyNet, EveryRouteHasNet
  <1>3. ASSUME NEW p \in Extractive, Extracts(r, p, b)
        PROVE  Net'
    <2>1. NetHolds'
      BY <1>0, <1>3 DEF Net, NetHolds, Extracts, RecordSuccess, TypeOK, Busy, Idle
    <2>2. p # Fallback
      BY <1>0, OrchestratorConfig
    <2>3. ExtractiveSafetyNet'
      BY <1>3, <2>2 DEF Net, ExtractiveSafetyNet, Extracts, TypeOK, Idle
    <2> QED BY <2>1, <2>3 DEF Net
  <1>4. ASSUME NEW i \in 1..Len(route), Calls(r, route, i, b),
               \A j \in from..(i - 1) : ~Willing(b, route[j])
        PROVE  Net'
    <2>1. \A j \in 1..i : route[j] \notin Extractive
      BY <1>0, <1>1, <1>4 DEF Calls
    <2>2. task'[r].route = route /\ task'[r].pos = i /\ task'[r].source = NoAnswer
      BY <1>4 DEF Calls, Call, TypeOK
    <2>3. \A s \in Requests \ {r} : task'[s] = task[s]
      BY <1>4 DEF Calls, TypeOK
    <2>4. \A p \in Extractive : breaker'[p] = b[p]
      BY <1>0, <1>4 DEF Calls
    <2>5. NetHolds'
      BY <2>1, <2>2, <2>3, <2>4 DEF Net, NetHolds, Busy
    <2>6. ExtractiveSafetyNet'
      BY <2>2, <2>3 DEF Net, ExtractiveSafetyNet, NoAnswer, Fallback
    <2> QED BY <2>5, <2>6 DEF Net
  <1> QED BY <1>2, <1>3, <1>4, TryFromCases

\* The end of an attempt keeps the safety net in place.
LEMMA SettleNet ==
    ASSUME TypeOK, BreakerShape, Net, NEW r \in Requests, Busy(r),
           NEW outcome, Settle(r, outcome)
    PROVE  Net'
  <1>1. /\ Judged(r, outcome) \in [Providers -> Breaker]
        /\ \A p \in Extractive : Judged(r, outcome)[p].state = "closed"
    <2>1. Target(r) \notin Extractive /\ Extractive \subseteq Providers
      BY OrchestratorConfig DEF TypeOK, InLoops, Target
    <2> QED BY <2>1, JudgedShape DEF Judged, TypeOK, Net, NetHolds
  <1>2. Target(r) # Fallback
    BY TargetType, OrchestratorConfig
  <1>3. CASE Answers(r, outcome)
    <2>1. NetHolds'
      BY <1>1, <1>3 DEF Net, NetHolds, Answers, TypeOK, Busy, Idle
    <2>2. ExtractiveSafetyNet'
      BY <1>2, <1>3 DEF Net, ExtractiveSafetyNet, Answers, TypeOK, Idle
    <2> QED BY <2>1, <2>2 DEF Net
  <1>4. ASSUME NEW d, Sleeps(r, d, outcome)
        PROVE  Net'
    <2>1. /\ task'[r].route = task[r].route /\ task'[r].pos = task[r].pos
          /\ task'[r].source = NoAnswer
          /\ \A s \in Requests \ {r} : task'[s] = task[s]
      BY <1>4 DEF Sleeps, Sleep, TypeOK
    <2>2. NetHolds'
      BY <1>1, <1>4, <2>1 DEF Net, NetHolds, Sleeps, Busy
    <2>3. ExtractiveSafetyNet'
      BY <2>1 DEF Net, ExtractiveSafetyNet, NoAnswer, Fallback
    <2> QED BY <2>2, <2>3 DEF Net
  <1>5. CASE MovesOn(r, outcome)
    <2>1. /\ task[r].route \in Routes /\ task[r].pos + 1 \in Nat \ {0}
          /\ task[r].pos \in Nat
      BY OrchestratorConfig DEF TypeOK, InLoops
    <2>2. \A i \in 1..((task[r].pos + 1) - 1) : task[r].route[i] \notin Extractive
      BY <2>1 DEF Net, NetHolds
    <2> QED BY <1>1, <1>5, <2>1, <2>2, TryFromNet DEF MovesOn
  <1> QED BY <1>3, <1>4, <1>5, SettleCases

\* Every step keeps the safety net in place.
LEMMA NextNet ==
    ASSUME TypeOK, BreakerShape, Net, [Next]_vars
    PROVE  Net'
  <1>1. CASE Tick
    <2>1. \A p \in Providers : breaker'[p].state = breaker[p].state
      BY <1>1 DEF Tick, TypeOK, Breaker, Elapse
    <2>2. \A r \in Requests : /\ task'[r].pc = task[r].pc
                              /\ task'[r].route = task[r].route
                              /\ task'[r].pos = task[r].pos
                              /\ task'[r].source = task[r].source
      BY <1>1 DEF Tick, TypeOK, Task
    <2> QED BY <2>1, <2>2, OrchestratorConfig
            DEF Net, NetHolds, ExtractiveSafetyNet, Busy
  <1>2. ASSUME NEW r \in Requests, Submit(r)
        PROVE  Net'
    <2>1. PICK route \in Routes : TryFrom(r, route, 1, breaker)
      BY <1>2 DEF Submit
    <2> QED BY <2>1, TryFromNet DEF TypeOK, Net, NetHolds
  <1>3. ASSUME NEW r \in Requests, Reply(r) \/ TimeOut(r)
        PROVE  Net'
    <2>1. PICK outcome : Settle(r, outcome)
      BY <1>3 DEF Reply, TimeOut
    <2>2. Busy(r)
      BY <1>3 DEF Reply, TimeOut, Busy
    <2> QED BY <2>1, <2>2, SettleNet
  <1>4. ASSUME NEW r \in Requests, Wake(r)
        PROVE  Net'
    <2>1. /\ task'[r].route = task[r].route /\ task'[r].pos = task[r].pos
          /\ task'[r].source = NoAnswer /\ Busy(r)
          /\ \A s \in Requests \ {r} : task'[s] = task[s]
          /\ breaker' = breaker
      BY <1>4 DEF Wake, Call, TypeOK, Busy
    <2> QED BY <2>1 DEF Net, NetHolds, ExtractiveSafetyNet, Busy, NoAnswer, Fallback
  <1>5. CASE UNCHANGED vars
    BY <1>5 DEF vars, Net, NetHolds, ExtractiveSafetyNet, Busy
  <1> QED BY <1>1, <1>2, <1>3, <1>4, <1>5 DEF Next

\* The safety net is in place initially.
LEMMA InitNet == Init => Net
  BY OrchestratorConfig DEF Init, Net, NetHolds, ExtractiveSafetyNet, Busy, Idle,
     NewBreaker, NoAnswer, Fallback

\* With the extractive adapter on every route, no request ends in the canned
\* fallback answer, whatever the other providers do.
THEOREM SafetyNet == Spec => []ExtractiveSafetyNet
  <1>1. Init => TypeOK /\ BreakerShape /\ Net
    BY InitNet, InitType
  <1>2. TypeOK /\ BreakerShape /\ Net /\ [Next]_vars
           => (TypeOK /\ BreakerShape /\ Net)'
    BY NextType, NextNet
  <1>3. Net => ExtractiveSafetyNet
    BY DEF Net
  <1> QED BY <1>1, <1>2, <1>3, PTL DEF Spec

-----------------------------------------------------------------------------
(***************************************************************************)
(* Orchestrator implements ProviderGate                                    *)
(***************************************************************************)

\* How the gate sees one provider in a step of r.
GateStep(r, p) ==
    \/ /\ breaker[p].state = "closed" /\ r \notin Users(p)
       /\ breaker'[p].state = "closed" /\ Users(p)' = Users(p) \cup {r}
    \/ /\ breaker[p].state = "open" /\ Users(p) = {}
       /\ breaker'[p].state = "half_open" /\ Users(p)' = {r}
    \/ /\ r \in Users(p)
       /\ breaker'[p].state \in {"closed", "open"}
       /\ Users(p)' \in {Users(p), Users(p) \ {r}}
    \/ /\ breaker'[p].state = breaker[p].state /\ Users(p)' = Users(p)

\* A request's step is the gate's if it is so at every provider.
LEMMA GateNext ==
    ASSUME NEW r \in Requests, \A p \in Providers : GateStep(r, p)
    PROVE  Gate!Next
  <1>1. ASSUME NEW p \in Providers
        PROVE  Gate!Enter(r, p) \/ Gate!Probe(r, p) \/ Gate!Report(r, p) \/ Gate!Stay(p)
    <2>1. GateStep(r, p)
      OBVIOUS
    <2> QED BY <2>1 DEF GateStep, Gate!Enter, Gate!Probe, Gate!Report, Gate!Stay
  <1> QED BY <1>1 DEF Gate!Next, Gate!Step

\* The users of a provider after a step that changed r's record only.
LEMMA UsersUpdate ==
    ASSUME TypeOK, NEW r \in Requests, NEW t, task' = [task EXCEPT ![r] = t],
           NEW p
    PROVE  /\ Busy(r)' /\ Target(r)' = p => Users(p)' = Users(p) \cup {r}
           /\ ~(Busy(r)' /\ Target(r)' = p) => Users(p)' = Users(p) \ {r}
  <1>1. \A s \in Requests \ {r} : /\ Busy(s)' <=> Busy(s)
                                  /\ Target(s)' = Target(s)
    BY OthersUnchanged
  <1> QED BY <1>1 DEF Users

\* The outer loop, over breakers b that differ from the shared ones at most by
\* r's verdict on the provider it used.
LEMMA TryFromGate ==
    ASSUME RecoveryOutlastsAttempts, TypeOK, InTime, NEW r \in Requests,
           NEW route \in Routes, NEW from \in Nat \ {0},
           NEW b \in [Providers -> Breaker], \A q \in Providers : Coherent(b[q]),
           Isolated(Requests \ {r}, b),
           \A q \in Extractive : b[q].state = "closed",
           \A q \in Providers :
              \/ r \notin Users(q) /\ b[q] = breaker[q]
              \/ /\ r \in Users(q)
                 /\ b[q].state \in {"closed", "open"}
                 /\ b[q].state = "open" => b[q].openedFor = 0,
           TryFrom(r, route, from, b),
           NEW p \in Providers
    PROVE  GateStep(r, p)
  <1>1. CASE /\ ~(Busy(r)' /\ Target(r)' = p)
             /\ breaker'[p].state = b[p].state
             /\ \E t : task' = [task EXCEPT ![r] = t]
    <2>1. Users(p)' = Users(p) \ {r}
      BY <1>1, UsersUpdate
    <2> QED BY <1>1, <2>1 DEF GateStep
  <1>2. CASE GivesUp(r, b)
    <2>1. ~Busy(r)'
      BY <1>2 DEF GivesUp, Idle, Busy, TypeOK
    <2> QED BY <1>1, <1>2, <2>1 DEF GivesUp
  <1>3. ASSUME NEW e \in Extractive, Extracts(r, e, b)
        PROVE  GateStep(r, p)
    <2>1. ~Busy(r)'
      BY <1>3 DEF Extracts, Idle, Busy, TypeOK
    <2>2. breaker'[p].state = b[p].state
      BY <1>3 DEF Extracts, RecordSuccess
    <2> QED BY <1>1, <1>3, <2>1, <2>2 DEF Extracts
  <1>4. ASSUME NEW i \in 1..Len(route), Calls(r, route, i, b)
        PROVE  GateStep(r, p)
    <2>1. Busy(r)' /\ Target(r)' = route[i] /\ route[i] \in Providers
      BY <1>4 DEF Calls, Call, Busy, Target, TypeOK
    <2>2. CASE p # route[i]
      <3>1. breaker'[p] = b[p]
        BY <1>4, <2>2 DEF Calls
      <3> QED BY <1>1, <1>4, <2>1, <2>2, <3>1 DEF Calls
    <2>3. CASE p = route[i]
      <3>1. Users(p)' = Users(p) \cup {r}
        BY <1>4, <2>1, <2>3, UsersUpdate DEF Calls
      <3>2. breaker'[p] = AllowRequest(b[p]) /\ Admits(b[p])
        BY <1>4, <2>3 DEF Calls
      <3>3. CASE b[p].state = "closed"
        <4>1. breaker'[p].state = "closed"
          BY <3>2, <3>3 DEF AllowRequest
        <4> QED BY <3>1, <3>3, <4>1 DEF GateStep
      <3>4. CASE b[p].state # "closed"
        <4>1. b[p].state = "open" /\ b[p].openedFor >= RecoveryTicks
          BY <3>2, <3>4 DEF Admits, Coherent, RecoveryElapsed
        <4>2. r \notin Users(p) /\ b[p] = breaker[p]
          BY <4>1, OrchestratorConfig, BreakerConfig DEF RecoveryOutlastsAttempts
        <4>3. \A s \in Requests \ {r} : s \notin Users(p)
          BY <3>2, <3>4, NobodyLeft DEF Users
        <4>4. Users(p) = {}
          BY <4>2, <4>3 DEF Users
        <4>5. breaker'[p].state = "half_open"
          BY <3>2, <3>4 DEF AllowRequest, Breaker
        <4> QED BY <3>1, <4>1, <4>2, <4>4, <4>5 DEF GateStep
      <3> QED BY <3>3, <3>4
    <2> QED BY <2>2, <2>3
  <1> QED BY <1>2, <1>3, <1>4, TryFromCases

\* The end of an attempt is a step of the gate.
LEMMA SettleGate ==
    ASSUME RecoveryOutlastsAttempts, TypeOK, BreakerShape, Isolation, NetHolds,
           NEW r \in Requests, Busy(r), NEW outcome, Settle(r, outcome),
           NEW p \in Providers
    PROVE  GateStep(r, p)
  <1> DEFINE b == Judged(r, outcome)
  <1>1. /\ Isolated(Requests \ {r}, b)
        /\ b[Target(r)].state \in {"closed", "open"}
        /\ b[Target(r)].state = "open" => b[Target(r)].openedFor = 0
    BY JudgedIsolated DEF Isolation
  <1>2. b \in [Providers -> Breaker] /\ \A q \in Providers : Coherent(b[q])
    BY JudgedShape
  <1>3. \A q \in Providers : q # Target(r) => b[q] = breaker[q]
    BY DEF Judged, TypeOK
  <1>4. \A q \in Providers : r \in Users(q) <=> q = Target(r)
    BY DEF Users
  <1>5. \A q \in Extractive : b[q].state = "closed"
    <2>1. Target(r) \notin Extractive /\ Extractive \subseteq Providers
      BY OrchestratorConfig DEF TypeOK, InLoops, Target
    <2> QED BY <1>3, <2>1 DEF NetHolds
  <1> HIDE DEF b
  <1>6. CASE /\ breaker' = b
             /\ Users(p)' \in {Users(p), Users(p) \ {r}}
    <2>1. CASE p = Target(r)
      BY <1>1, <1>4, <1>6, <2>1 DEF GateStep
    <2>2. CASE p # Target(r)
      BY <1>3, <1>4, <1>6, <2>2 DEF GateStep
    <2> QED BY <2>1, <2>2
  <1>7. CASE Answers(r, outcome)
    <2>1. ~Busy(r)'
      BY <1>7 DEF Answers, Idle, Busy, TypeOK
    <2>2. Users(p)' = Users(p) \ {r}
      BY <1>7, <2>1, UsersUpdate DEF Answers
    <2> QED BY <1>6, <1>7, <2>2 DEF Answers, b
  <1>8. ASSUME NEW d, Sleeps(r, d, outcome)
        PROVE  GateStep(r, p)
    <2>1. Busy(r)' /\ Target(r)' = Target(r)
      BY <1>8 DEF Sleeps, Sleep, Busy, Target, TypeOK
    <2>2. Users(p)' = Users(p)
      <3> DEFINE t == Sleep(task[r].route, task[r].pos, task[r].attempt, d)
      <3>1. task' = [task EXCEPT ![r] = t]
        BY <1>8 DEF Sleeps
      <3> HIDE DEF t
      <3>2. /\ Target(r) = p => Users(p)' = Users(p) \cup {r}
            /\ Target(r) # p => Users(p)' = Users(p) \ {r}
        BY <2>1, <3>1, UsersUpdate
      <3> QED BY <1>4, <3>2
    <2> QED BY <1>6, <1>8, <2>2 DEF Sleeps, b
  <1>9. CASE MovesOn(r, outcome)
    <2>1. task[r].route \in Routes /\ task[r].pos + 1 \in Nat \ {0}
      BY OrchestratorConfig DEF TypeOK, InLoops
    <2>2. \A q \in Providers :
              \/ r \notin Users(q) /\ b[q] = breaker[q]
              \/ /\ r \in Users(q)
                 /\ b[q].state \in {"closed", "open"}
                 /\ b[q].state = "open" => b[q].openedFor = 0
      BY <1>1, <1>3, <1>4
    <2>3. TryFrom(r, task[r].route, task[r].pos + 1, b)
      BY <1>9 DEF MovesOn, b
    <2> QED BY <1>1, <1>2, <1>5, <2>1, <2>2, <2>3, TryFromGate DEF Isolation
  <1> QED BY <1>7, <1>8, <1>9, SettleCases

\* Every step is a step of the gate or leaves it as it is.
LEMMA NextGate ==
    ASSUME RecoveryOutlastsAttempts, TypeOK, BreakerShape, Isolation, NetHolds,
           [Next]_vars
    PROVE  [Gate!Next]_(Gate!gateVars)
  <1>1. ASSUME \A p \in Providers : /\ breaker'[p].state = breaker[p].state
                                    /\ Users(p)' = Users(p)
        PROVE  UNCHANGED Gate!gateVars
    BY <1>1 DEF Gate!gateVars
  <1>2. CASE Tick
    <2>1. \A p \in Providers : breaker'[p].state = breaker[p].state
      BY <1>2 DEF Tick, TypeOK, Breaker, Elapse
    <2>2. \A r \in Requests : /\ Busy(r)' <=> Busy(r)
                              /\ Target(r)' = Target(r)
      BY <1>2 DEF Tick, TypeOK, Task, Busy, Target
    <2>3. \A p \in Providers : Users(p)' = Users(p)
      BY <2>2 DEF Users
    <2> QED BY <1>1, <2>1, <2>3
  <1>3. ASSUME NEW r \in Requests, Submit(r)
        PROVE  Gate!Next
    <2>1. PICK route \in Routes : TryFrom(r, route, 1, breaker)
      BY <1>3 DEF Submit
    <2>2. \A q \in Providers : r \notin Users(q)
      BY <1>3 DEF Submit, Users
    <2>3. /\ breaker \in [Providers -> Breaker] /\ 1 \in Nat \ {0}
          /\ \A q \in Providers : Coherent(breaker[q])
          /\ \A q \in Extractive : breaker[q].state = "closed"
      BY DEF TypeOK, BreakerShape, NetHolds
    <2>4. Isolated(Requests \ {r}, breaker)
      BY <1>3 DEF Submit, Isolation, Isolated
    <2>5. \A p \in Providers : GateStep(r, p)
      BY <2>1, <2>2, <2>3, <2>4, TryFromGate DEF Isolation
    <2> QED BY <2>5, GateNext
  <1>4. ASSUME NEW r \in Requests, Reply(r) \/ TimeOut(r)
        PROVE  Gate!Next
    <2>1. PICK outcome : Settle(r, outcome)
      BY <1>4 DEF Reply, TimeOut
    <2>2. Busy(r)
      BY <1>4 DEF Reply, TimeOut, Busy
    <2>3. \A p \in Providers : GateStep(r, p)
      BY <2>1, <2>2, SettleGate
    <2> QED BY <2>3, GateNext
  <1>5. ASSUME NEW r \in Requests, Wake(r)
        PROVE  UNCHANGED Gate!gateVars
    <2>1. /\ Busy(r) /\ Busy(r)' /\ Target(r)' = Target(r)
          /\ breaker' = breaker
      BY <1>5 DEF Wake, Call, Busy, Target, TypeOK
    <2>2. \A s \in Requests \ {r} : /\ Busy(s)' <=> Busy(s)
                                    /\ Target(s)' = Target(s)
      BY <1>5, OthersUnchanged DEF Wake
    <2>3. \A p \in Providers : Users(p)' = Users(p)
      BY <2>1, <2>2 DEF Users
    <2> QED BY <1>1, <2>1, <2>3
  <1>6. CASE UNCHANGED vars
    <2>1. \A p \in Providers : Users(p)' = Users(p)
      BY <1>6 DEF vars, Users, Busy, Target
    <2> QED BY <1>1, <1>6, <2>1 DEF vars
  <1> QED BY <1>2, <1>3, <1>4, <1>5, <1>6 DEF Next

\* Initial states are initial states of the gate.
LEMMA InitGate == Init => Gate!Init
  BY DEF Init, Gate!Init, Users, Busy, Idle, NewBreaker

\* generate, over any number of requests and providers, does nothing the gate
\* does not allow, if a circuit stays open longer than any attempt.
THEOREM GateRefinement ==
    ASSUME RecoveryOutlastsAttempts
    PROVE  Spec => GateSpec
  <1> DEFINE IInv == TypeOK /\ BreakerShape /\ Isolation /\ Net
  <1>1. Init => IInv
    BY InitType, InitIsolation, InitNet
  <1>2. IInv /\ [Next]_vars => IInv'
    BY NextType, NextIsolation, NextNet, RecoveryOutlastsAttempts
  <1>3. IInv /\ [Next]_vars => [Gate!Next]_(Gate!gateVars)
    BY NextGate, RecoveryOutlastsAttempts DEF Net
  <1>4. Init => Gate!Init
    BY InitGate
  <1> QED BY <1>1, <1>2, <1>3, <1>4, PTL DEF Spec, GateSpec, Gate!Spec

-----------------------------------------------------------------------------
(***************************************************************************)
(* Managed providers first                                                 *)
(***************************************************************************)

\* Every route has each managed provider ahead of its first extractive one.
ManagedAhead ==
    \A route \in Routes : \A p \in Managed \cap Available :
        \E i \in 1..Len(route) :
            route[i] = p /\ \A j \in 1..i : route[j] \notin Extractive

Router == INSTANCE ModelRouter

\* The routes of ModelRouter have that order, whatever is registered.
LEMMA RouterOrder ==
    ASSUME Routes = {Router!Route(q) : q \in Router!Query},
           Managed = {"openai", "anthropic"}, Extractive \subseteq {"llama"}
    PROVE  ManagedAhead
  <1> SUFFICES ASSUME NEW route \in Routes, NEW p \in Managed
               PROVE  \E i \in 1..Len(route) :
                         route[i] = p /\ \A j \in 1..i : route[j] \notin Extractive
    BY DEF ManagedAhead
  <1>1. \/ route = <<"anthropic", "openai", "llama">>
        \/ route = <<"openai", "anthropic", "llama">>
    BY DEF Router!Route
  <1>2. Len(route) = 3 /\ \A j \in 1..2 : route[j] \notin Extractive
    BY <1>1
  <1>3. \E i \in 1..2 : route[i] = p
    BY <1>1
  <1> QED BY <1>2, <1>3

\* Where a request ends without a model's answer.
Local == Extractive \cup {Fallback}

\* A request inside the loops has no answer yet.
Waiting == \A r \in Requests : Busy(r) => task[r].source = NoAnswer

\* The outer loop comes to the extractive adapter or the fallback only past
\* every managed provider: before its position, or unwilling.
LEMMA TryFromManaged ==
    ASSUME ManagedAhead, TypeOK, NEW r \in Requests, NEW route \in Routes,
           NEW from \in Nat \ {0}, NEW b, TryFrom(r, route, from, b),
           task'[r].source \in Local, NEW p \in Managed \cap Available
    PROVE  \/ \E i \in 1..(from - 1) : route[i] = p
           \/ ~Admits(b[p])
  <1>1. PICK k \in 1..Len(route) :
           route[k] = p /\ \A j \in 1..k : route[j] \notin Extractive
    BY DEF ManagedAhead
  <1>2. Len(route) \in Nat /\ k \in Nat /\ (k < from => k \in 1..(from - 1))
    BY OrchestratorConfig
  <1>3. CASE \A i \in from..Len(route) : ~Willing(b, route[i])
    BY <1>1, <1>2, <1>3 DEF Willing
  <1>4. ASSUME NEW i \in from..Len(route), Engage(r, route, i, b),
               \A j \in from..(i - 1) : ~Willing(b, route[j])
        PROVE  \/ \E h \in 1..(from - 1) : route[h] = p
               \/ ~Admits(b[p])
    <2>1. route[i] \in Extractive
      <3>1. SUFFICES ASSUME route[i] \notin Extractive PROVE FALSE
        OBVIOUS
      <3>2. task'[r].source = NoAnswer
        BY <1>4, <3>1 DEF Engage, Call, TypeOK
      <3> QED BY <3>2, OrchestratorConfig DEF Local, Fallback, NoAnswer
    <2>2. k < i
      BY <1>1, <1>2, <2>1
    <2> QED BY <1>1, <1>2, <1>4, <2>2 DEF Willing
  <1> QED BY <1>3, <1>4 DEF TryFrom

\* One request changes its record, and another one has it as it was.
LEMMA WaitingUpdate ==
    ASSUME TypeOK, Waiting, NEW r \in Requests, NEW t,
           task' = [task EXCEPT ![r] = t], t.pc = "idle" \/ t.source = NoAnswer
    PROVE  Waiting'
  BY DEF TypeOK, Waiting, Busy

\* The outer loop keeps Waiting.
LEMMA TryFromWaiting ==
    ASSUME TypeOK, Waiting, NEW r \in Requests, NEW route \in Routes,
           NEW from \in Nat \ {0}, NEW b, TryFrom(r, route, from, b)
    PROVE  Waiting'
  <1>1. CASE GivesUp(r, b)
    BY <1>1, WaitingUpdate DEF GivesUp, Idle
  <1>2. ASSUME NEW p \in Extractive, Extracts(r, p, b)
        PROVE  Waiting'
    BY <1>2, WaitingUpdate DEF Extracts, Idle
  <1>3. ASSUME NEW i \in 1..Len(route), Calls(r, route, i, b)
        PROVE  Waiting'
    <2> DEFINE t == Call(route, i, 1, 0, b[route[i]].state # "closed")
    <2>1. t.source = NoAnswer
      BY DEF Call
    <2>2. task' = [task EXCEPT ![r] = t]
      BY <1>3 DEF Calls
    <2> HIDE DEF t
    <2> QED BY <2>1, <2>2, WaitingUpdate
  <1> QED BY <1>1, <1>2, <1>3, TryFromCases

\* Every step keeps Waiting.
LEMMA NextWaiting ==
    ASSUME TypeOK, Waiting, [Next]_vars
    PROVE  Waiting'
  <1>1. CASE Tick
    BY <1>1 DEF Tick, TypeOK, Task, Waiting, Busy
  <1>2. ASSUME NEW r \in Requests, Submit(r)
        PROVE  Waiting'
    BY <1>2, TryFromWaiting DEF Submit
  <1>3. ASSUME NEW r \in Requests, Busy(r), NEW outcome, Settle(r, outcome)
        PROVE  Waiting'
    <2>1. task[r].route \in Routes /\ task[r].pos + 1 \in Nat \ {0}
      BY <1>3, OrchestratorConfig DEF TypeOK, InLoops
    <2>2. CASE Answers(r, outcome)
      BY <2>2, WaitingUpdate DEF Answers, Idle
    <2>3. ASSUME NEW d, Sleeps(r, d, outcome)
          PROVE  Waiting'
      BY <2>3, WaitingUpdate DEF Sleeps, Sleep
    <2>4. CASE MovesOn(r, outcome)
      BY <2>1, <2>4, TryFromWaiting DEF MovesOn
    <2> QED BY <1>3, <2>2, <2>3, <2>4, SettleCases
  <1>4. ASSUME NEW r \in Requests, Wake(r)
        PROVE  Waiting'
    BY <1>4, WaitingUpdate DEF Wake, Call
  <1>5. CASE UNCHANGED vars
    BY <1>5 DEF vars, Waiting, Busy
  <1> QED BY <1>1, <1>2, <1>3, <1>4, <1>5 DEF Next, Reply, TimeOut, Busy

\* What ManagedFirst says of a step.
EndsLocally(r) ==
    /\ task'[r] # task[r]
    /\ task'[r].source \in Local

TriedOrRefused(r, p) ==
    \/ ~Admits(breaker[p])
    \/ \E i \in 1..task[r].pos : task[r].route[i] = p

\* A request ends locally in its own Submit, or when a provider has failed it.
LEMMA NextManaged ==
    ASSUME ManagedAhead, TypeOK, Waiting, Next, NEW s \in Requests,
           EndsLocally(s), NEW p \in Managed \cap Available
    PROVE  TriedOrRefused(s, p)
  <1>0. NoAnswer \notin Local
    BY OrchestratorConfig DEF Local, NoAnswer, Fallback
  <1>1. CASE Tick
    <2>1. task'[s].source = task[s].source /\ Busy(s)
      BY <1>1 DEF Tick, TypeOK, Task, EndsLocally
    <2> QED BY <1>0, <2>1 DEF Waiting, EndsLocally
  <1>2. ASSUME NEW r \in Requests, Submit(r)
        PROVE  TriedOrRefused(s, p)
    <2>1. PICK route \in Routes : TryFrom(r, route, 1, breaker)
      BY <1>2 DEF Submit
    <2>2. r = s
      BY <2>1 DEF TryFrom, Engage, EndsLocally, TypeOK
    <2>3. ~Admits(breaker[p])
      BY <2>1, <2>2, TryFromManaged DEF EndsLocally
    <2> QED BY <2>3 DEF TriedOrRefused
  <1>3. ASSUME NEW r \in Requests, Busy(r), NEW outcome, Settle(r, outcome)
        PROVE  TriedOrRefused(s, p)
    <2>1. /\ task[r].route \in Routes /\ task[r].pos \in 1..Len(task[r].route)
          /\ task[r].pos + 1 \in Nat \ {0} /\ Len(task[r].route) \in Nat
      BY <1>3, OrchestratorConfig DEF TypeOK, InLoops
    <2>2. CASE Answers(r, outcome)
      <3>1. Target(r) \notin Local
        BY <1>3, OrchestratorConfig DEF TypeOK, InLoops, Target, Local
      <3> QED BY <2>2, <3>1 DEF Answers, Idle, EndsLocally, TypeOK
    <2>3. ASSUME NEW d, Sleeps(r, d, outcome)
          PROVE  TriedOrRefused(s, p)
      BY <1>0, <2>3 DEF Sleeps, Sleep, EndsLocally, TypeOK
    <2>4. CASE MovesOn(r, outcome)
      <3>1. r = s
        BY <2>4 DEF MovesOn, TryFrom, Engage, EndsLocally, TypeOK
      <3>2. \/ \E i \in 1..((task[s].pos + 1) - 1) : task[s].route[i] = p
            \/ ~Admits(Judged(s, outcome)[p])
        BY <2>1, <2>4, <3>1, TryFromManaged DEF MovesOn, EndsLocally
      <3>3. CASE p = Target(s)
        BY <2>1, <3>1, <3>3 DEF Target, TriedOrRefused
      <3>4. CASE p # Target(s)
        <4>1. Judged(s, outcome)[p] = breaker[p]
          BY <3>4, OrchestratorConfig DEF Judged, TypeOK
        <4>2. (task[s].pos + 1) - 1 = task[s].pos
          BY <2>1, <3>1
        <4> QED BY <3>2, <4>1, <4>2 DEF TriedOrRefused
      <3> QED BY <3>3, <3>4
    <2> QED BY <1>3, <2>2, <2>3, <2>4, SettleCases
  <1>4. ASSUME NEW r \in Requests, Wake(r)
        PROVE  TriedOrRefused(s, p)
    BY <1>0, <1>4 DEF Wake, Call, EndsLocally, TypeOK
  <1> QED BY <1>1, <1>2, <1>3, <1>4 DEF Next, Reply, TimeOut, Busy

\* If routes have the managed providers first, which the router's do
\* (RouterOrder), then a request ends in the extractive adapter or in the canned
\* answer only when each of them has refused or failed it.
THEOREM ManagedComeFirst ==
    ASSUME ManagedAhead
    PROVE  Spec => ManagedFirst
  <1>1. Init => TypeOK /\ BreakerShape /\ Waiting
    BY InitType DEF Init, Waiting, Busy, Idle
  <1>2. TypeOK /\ BreakerShape /\ Waiting /\ [Next]_vars
           => (TypeOK /\ BreakerShape /\ Waiting)'
    BY NextType, NextWaiting
  <1> DEFINE Step == \A r \in Requests :
                        /\ task'[r] # task[r]
                        /\ task'[r].source \in Extractive \cup {Fallback}
                        => \A p \in Managed \cap Available :
                              \/ ~Admits(breaker[p])
                              \/ \E i \in 1..task[r].pos : task[r].route[i] = p
  <1>3. TypeOK /\ Waiting /\ [Next]_vars => [Step]_vars
    BY NextManaged, ManagedAhead DEF EndsLocally, TriedOrRefused, Local
  <1> QED BY <1>1, <1>2, <1>3, PTL DEF Spec, ManagedFirst

-----------------------------------------------------------------------------
(***************************************************************************)
(* How long generate takes                                                 *)
(***************************************************************************)

\* When the call or the sleep of a request ends at the latest.
Due(t) == IF t.pc = "calling" THEN CallTicks ELSE t.delay

\* A retry with the longest back-off, and all attempts at one provider.
Round  == BackoffCap + CallTicks
Budget == CallTicks + (RetryAttempts - 1) * Round

\* What is left of a request's time at its provider, and on its whole route.
Here(t) ==
    Due(t) - t.age +
      (IF t.pc = "calling" THEN (RetryAttempts - t.attempt) * Round
       ELSE CallTicks + (RetryAttempts - t.attempt - 1) * Round)

TimeLeft(t) ==
    IF t.pc = "idle" THEN 0 ELSE Here(t) + (Len(t.route) - t.pos) * Budget

\* The calls it may still start, and the ends of calls and sleeps before it is
\* answered.
CallsLeft(t) ==
    RetryAttempts - t.attempt + (Len(t.route) - t.pos) * RetryAttempts

StepsLeft(t) ==
    IF t.pc = "idle" THEN 0
    ELSE 2 * CallsLeft(t) + (IF t.pc = "calling" THEN 1 ELSE 0)

\* Nobody is past the end of the call or sleep it is in.
OnTime(t) == t.age <= Due(t) /\ t.delay <= BackoffCap

AllOnTime == \A r \in Requests : Busy(r) => OnTime(task[r])

\* A request inside the loops, as the lemmas below need it.
AtWork(t) == t \in Task /\ t.pc # "idle" /\ InLoops(t) /\ OnTime(t)

\* What the end of a call or of a sleep makes of a request.
Retry(t, u) ==
    /\ t.pc = "calling" /\ t.attempt < RetryAttempts
    /\ \E d \in 0..BackoffCap : u = Sleep(t.route, t.pos, t.attempt, d)

Onward(t, u) ==
    /\ t.pc = "calling"
    /\ \E i \in (t.pos + 1)..Len(t.route), probe \in BOOLEAN :
          u = Call(t.route, i, 1, 0, probe)

Again(t, u) ==
    /\ t.pc = "sleeping" /\ t.age = t.delay
    /\ u = Call(t.route, t.pos, t.attempt + 1, t.delay, FALSE)

Moves(t, u) == u.pc = "idle" \/ Retry(t, u) \/ Onward(t, u) \/ Again(t, u)

LEMMA Multiples ==
    ASSUME NEW k \in Nat, NEW m \in Nat, NEW n \in Nat
    PROVE  /\ m * k \in Nat
           /\ m <= n => m * k <= n * k
           /\ m < n => m * k + k <= n * k
  <1>1. m * k \in Nat /\ n * k \in Nat
    OBVIOUS
  <1>2. ASSUME m <= n
        PROVE  m * k <= n * k
    <2>1. (n - m) * k >= 0
      BY <1>2
    <2>2. (n - m) * k = n * k - m * k
      OBVIOUS
    <2> QED BY <2>1, <2>2, <1>1
  <1>3. ASSUME m < n
        PROVE  m * k + k <= n * k
    <2>1. (n - (m + 1)) * k >= 0
      BY <1>3
    <2>2. (n - (m + 1)) * k = n * k - m * k - k
      OBVIOUS
    <2> QED BY <2>1, <2>2, <1>1
  <1> QED BY <1>1, <1>2, <1>3

LEMMA Budgets == Round \in Nat /\ Budget \in Nat /\ CallTicks <= Budget
  <1>1. Round \in Nat /\ RetryAttempts - 1 \in Nat /\ CallTicks \in Nat
    BY OrchestratorConfig DEF Round
  <1>2. (RetryAttempts - 1) * Round \in Nat
    BY <1>1, Multiples
  <1> QED BY <1>1, <1>2 DEF Budget

\* The attempts that a request at work has left at its provider fit the budget.
LEMMA HereFacts ==
    ASSUME NEW t, AtWork(t)
    PROVE  Here(t) \in 0..Budget
  <1> DEFINE left == RetryAttempts - t.attempt
  <1>1. /\ left \in Nat /\ left <= RetryAttempts - 1 /\ RetryAttempts - 1 \in Nat
        /\ t.age \in Nat /\ t.delay \in Nat /\ t.pc \in {"calling", "sleeping"}
        /\ t.pc = "sleeping" => left - 1 \in Nat
        /\ {CallTicks, BackoffCap} \subseteq Nat
        /\ t.age <= Due(t) /\ t.delay <= BackoffCap
    BY OrchestratorConfig DEF AtWork, Task, InLoops, OnTime
  <1>2. Round \in Nat
    BY Budgets
  <1> HIDE DEF left
  <1>3. left * Round \in Nat /\ left * Round <= (RetryAttempts - 1) * Round
    BY <1>1, <1>2, Multiples
  <1>4. (RetryAttempts - 1) * Round \in Nat
    BY <1>1, <1>2, Multiples
  <1>5. CASE t.pc = "calling"
    <2>1. Here(t) = CallTicks - t.age + left * Round /\ t.age <= CallTicks
      BY <1>1, <1>5 DEF Here, Due, left
    <2> QED BY <1>1, <1>3, <1>4, <2>1 DEF Budget
  <1>6. CASE t.pc = "sleeping"
    <2>1. /\ Here(t) = t.delay - t.age + (CallTicks + (left - 1) * Round)
          /\ t.age <= t.delay
      BY <1>1, <1>6 DEF Here, Due, left
    <2>2. (left - 1) * Round \in Nat /\ (left - 1) * Round + Round <= left * Round
      BY <1>1, <1>2, <1>6, Multiples
    <2>3. Round = BackoffCap + CallTicks
      BY DEF Round
    <2> QED BY <1>1, <1>2, <1>3, <1>4, <2>1, <2>2, <2>3 DEF Budget
  <1> QED BY <1>1, <1>5, <1>6

\* So does the time left on the whole route.
LEMMA LeftFacts ==
    ASSUME NEW t, AtWork(t)
    PROVE  /\ TimeLeft(t) = Here(t) + (Len(t.route) - t.pos) * Budget
           /\ TimeLeft(t) \in 0..(Len(t.route) * Budget)
           /\ StepsLeft(t) \in Nat \ {0}
  <1> DEFINE on == Len(t.route) - t.pos
             left == RetryAttempts - t.attempt
  <1>1. /\ on \in Nat /\ Len(t.route) \in Nat /\ on < Len(t.route)
        /\ left \in Nat /\ t.pc \in {"calling", "sleeping"}
        /\ t.pc = "sleeping" => left \in Nat \ {0}
        /\ RetryAttempts \in Nat
    BY OrchestratorConfig DEF AtWork, Task, InLoops
  <1>2. Here(t) \in 0..Budget /\ Budget \in Nat
    BY HereFacts, Budgets
  <1>3. TimeLeft(t) = Here(t) + on * Budget
    BY DEF TimeLeft, AtWork
  <1>4. StepsLeft(t) = 2 * (left + on * RetryAttempts)
                         + (IF t.pc = "calling" THEN 1 ELSE 0)
    BY DEF StepsLeft, CallsLeft, AtWork
  <1> HIDE DEF on, left
  <1>5. /\ on * Budget \in Nat /\ on * Budget + Budget <= Len(t.route) * Budget
        /\ on * RetryAttempts \in Nat /\ Len(t.route) * Budget \in Nat
    BY <1>1, <1>2, Multiples
  <1>6. TimeLeft(t) \in 0..(Len(t.route) * Budget)
    BY <1>2, <1>3, <1>5
  <1>7. StepsLeft(t) \in Nat \ {0}
    BY <1>1, <1>4, <1>5
  <1> QED BY <1>3, <1>6, <1>7 DEF on

\* A retry takes its sleep and its call from the time left at the provider.
LEMMA RetryShrinks ==
    ASSUME NEW t, AtWork(t), NEW u, Retry(t, u)
    PROVE  /\ OnTime(u) /\ u.route = t.route /\ u.pos = t.pos /\ u.pc # "idle"
           /\ Here(u) <= Here(t)
           /\ StepsLeft(u) < StepsLeft(t)
  <1> DEFINE left == RetryAttempts - t.attempt
  <1>1. PICK d \in 0..BackoffCap : u = Sleep(t.route, t.pos, t.attempt, d)
    BY DEF Retry
  <1>2. /\ u.route = t.route /\ u.pos = t.pos /\ u.pc = "sleeping"
        /\ u.age = 0 /\ u.delay = d /\ u.attempt = t.attempt
    BY <1>1 DEF Sleep
  <1>3. /\ t.pc = "calling" /\ left \in Nat \ {0} /\ t.age \in Nat
        /\ t.age <= CallTicks /\ {CallTicks, BackoffCap} \subseteq Nat
        /\ Round \in Nat
    BY OrchestratorConfig, Budgets DEF AtWork, Task, InLoops, OnTime, Due, Retry
  <1>4. OnTime(u)
    BY <1>2, <1>3 DEF OnTime, Due
  <1>5. /\ Here(u) = d + (CallTicks + (left - 1) * Round)
        /\ Here(t) = CallTicks - t.age + left * Round
    BY <1>2, <1>3 DEF Here, Due
  <1>6. CallsLeft(u) = CallsLeft(t) /\ CallsLeft(t) \in Int
    <2>1. Len(t.route) - t.pos \in Nat /\ RetryAttempts \in Nat
      BY OrchestratorConfig DEF AtWork, InLoops
    <2>2. (Len(t.route) - t.pos) * RetryAttempts \in Nat
      BY <2>1, Multiples
    <2> QED BY <1>2, <1>3, <2>2 DEF CallsLeft
  <1>7. StepsLeft(u) < StepsLeft(t)
    BY <1>2, <1>3, <1>6 DEF StepsLeft
  <1> HIDE DEF left
  <1>8. (left - 1) * Round \in Nat /\ (left - 1) * Round + Round <= left * Round
    BY <1>3, Multiples
  <1>9. left * Round \in Nat
    BY <1>3, Multiples
  <1>10. Here(u) <= Here(t)
    BY <1>3, <1>5, <1>8, <1>9 DEF Round
  <1> QED BY <1>2, <1>4, <1>7, <1>10

\* The call after a sleep was accounted for.
LEMMA AgainShrinks ==
    ASSUME NEW t, AtWork(t), NEW u, Again(t, u)
    PROVE  /\ OnTime(u) /\ u.route = t.route /\ u.pos = t.pos /\ u.pc # "idle"
           /\ Here(u) <= Here(t)
           /\ StepsLeft(u) < StepsLeft(t)
  <1> DEFINE left == RetryAttempts - t.attempt
  <1>1. /\ u.route = t.route /\ u.pos = t.pos /\ u.pc = "calling"
        /\ u.age = 0 /\ u.delay = t.delay /\ u.attempt = t.attempt + 1
    BY DEF Again, Call
  <1>2. /\ t.pc = "sleeping" /\ t.age = t.delay /\ t.delay <= BackoffCap
        /\ left \in Nat \ {0} /\ t.delay \in Nat /\ t.attempt \in Nat
        /\ RetryAttempts \in Nat /\ CallTicks \in Nat /\ Round \in Nat
    BY OrchestratorConfig, Budgets DEF AtWork, Task, InLoops, OnTime, Again
  <1>3. OnTime(u)
    BY <1>1, <1>2 DEF OnTime, Due
  <1>4. RetryAttempts - u.attempt = left - 1
    BY <1>1, <1>2
  <1>5. /\ Here(u) = CallTicks + (left - 1) * Round
        /\ Here(t) = 0 + (CallTicks + (left - 1) * Round)
    BY <1>1, <1>2, <1>4 DEF Here, Due
  <1>6. CallsLeft(u) = CallsLeft(t) - 1 /\ CallsLeft(t) \in Int
    <2>1. Len(t.route) - t.pos \in Nat
      BY OrchestratorConfig DEF AtWork, InLoops
    <2>2. (Len(t.route) - t.pos) * RetryAttempts \in Nat
      BY <1>2, <2>1, Multiples
    <2> QED BY <1>1, <1>2, <1>4, <2>2 DEF CallsLeft
  <1>7. StepsLeft(u) < StepsLeft(t)
    BY <1>1, <1>2, <1>6 DEF StepsLeft
  <1>8. (left - 1) * Round \in Nat
    BY <1>2, Multiples
  <1> QED BY <1>1, <1>2, <1>3, <1>5, <1>7, <1>8

\* A later provider of the route has a budget of its own.
LEMMA OnwardShrinks ==
    ASSUME NEW t, AtWork(t), NEW u, Onward(t, u)
    PROVE  /\ OnTime(u) /\ u.pc # "idle"
           /\ TimeLeft(u) <= TimeLeft(t)
           /\ StepsLeft(u) < StepsLeft(t)
  <1> DEFINE on == Len(t.route) - t.pos
             then == Len(t.route) - u.pos
  <1>1. PICK i \in (t.pos + 1)..Len(t.route), probe \in BOOLEAN :
           u = Call(t.route, i, 1, 0, probe)
    BY DEF Onward
  <1>2. /\ u.route = t.route /\ u.pos = i /\ u.pc = "calling"
        /\ u.age = 0 /\ u.delay = 0 /\ u.attempt = 1
    BY <1>1 DEF Call
  <1>3. /\ on \in Nat /\ then \in Nat /\ then < on
        /\ RetryAttempts \in Nat \ {0} /\ t.attempt \in 1..RetryAttempts
        /\ t.pc = "calling" /\ t.pc # "idle" /\ {CallTicks, BackoffCap} \subseteq Nat
    <2>1. /\ RetryAttempts \in Nat \ {0} /\ CallTicks \in Nat /\ BackoffCap \in Nat
      BY OrchestratorConfig
    <2>2. t.pc = "calling" /\ t.attempt \in 1..RetryAttempts
      BY DEF AtWork, Task, InLoops, Onward
    <2>3. Len(t.route) \in Nat /\ t.pos \in 1..Len(t.route)
      <3>1. t.route \in Seq(Providers)
        BY OrchestratorConfig DEF AtWork, InLoops
      <3> QED BY <3>1 DEF AtWork, InLoops
    <2>4. i \in (t.pos + 1)..Len(t.route) /\ then = Len(t.route) - i
      BY <1>1, <1>2
    <2>5. on \in Nat /\ then \in Nat /\ then < on
      BY <2>3, <2>4
    <2> QED BY <2>1, <2>2, <2>5
  <1>4. OnTime(u)
    BY <1>2, <1>3 DEF OnTime, Due
  <1>5. Here(u) = Budget
    <2>1. (RetryAttempts - 1) * Round \in Nat
      BY <1>3, Budgets, Multiples
    <2> QED BY <1>2, <1>3, <2>1 DEF Here, Due, Budget
  <1>6. /\ TimeLeft(t) = Here(t) + on * Budget
        /\ TimeLeft(u) = Budget + then * Budget
    BY <1>2, <1>3, <1>5 DEF TimeLeft
  <1>7. /\ StepsLeft(t) = 2 * (RetryAttempts - t.attempt + on * RetryAttempts) + 1
        /\ StepsLeft(u) = 2 * (RetryAttempts - 1 + then * RetryAttempts) + 1
    BY <1>2, <1>3 DEF StepsLeft, CallsLeft
  <1>8. Here(t) \in 0..Budget /\ Budget \in Nat
    BY HereFacts, Budgets
  <1> HIDE DEF on, then
  <1>9. /\ then * Budget \in Nat /\ then * Budget + Budget <= on * Budget
        /\ on * Budget \in Nat
    BY <1>3, <1>8, Multiples
  <1>10. /\ then * RetryAttempts \in Nat
         /\ then * RetryAttempts + RetryAttempts <= on * RetryAttempts
         /\ on * RetryAttempts \in Nat
    BY <1>3, Multiples
  <1>11. TimeLeft(u) <= TimeLeft(t)
    BY <1>6, <1>8, <1>9
  <1>12. StepsLeft(u) < StepsLeft(t)
    <2>1. \A x, y \in Nat : x + RetryAttempts <= y =>
             2 * (RetryAttempts - 1 + x) + 1 < 2 * (RetryAttempts - t.attempt + y) + 1
      BY <1>3
    <2> QED BY <1>7, <1>10, <2>1
  <1> QED BY <1>2, <1>4, <1>11, <1>12

\* However a call or a sleep ends, the time left does not grow, and there is a
\* step less to go.
LEMMA MovesShrink ==
    ASSUME NEW t, AtWork(t), NEW u, Moves(t, u)
    PROVE  /\ u.pc # "idle" => OnTime(u)
           /\ TimeLeft(u) <= TimeLeft(t)
           /\ StepsLeft(u) < StepsLeft(t)
  <1>1. TimeLeft(t) \in Nat /\ StepsLeft(t) \in Nat \ {0}
    BY LeftFacts, Budgets
  <1>2. CASE u.pc = "idle"
    BY <1>1, <1>2 DEF TimeLeft, StepsLeft
  <1>3. CASE Onward(t, u)
    BY <1>3, OnwardShrinks
  <1>4. CASE Retry(t, u) \/ Again(t, u)
    <2>1. /\ OnTime(u) /\ u.route = t.route /\ u.pos = t.pos /\ u.pc # "idle"
          /\ Here(u) <= Here(t) /\ StepsLeft(u) < StepsLeft(t)
      BY <1>4, RetryShrinks, AgainShrinks
    <2> DEFINE on == Len(t.route) - t.pos
    <2>2. /\ TimeLeft(u) = Here(u) + on * Budget
          /\ TimeLeft(t) = Here(t) + on * Budget
      BY <2>1 DEF TimeLeft, AtWork
    <2>3. on * Budget \in Nat
      <3>1. on \in Nat
        BY OrchestratorConfig DEF AtWork, InLoops
      <3> HIDE DEF on
      <3> QED BY <3>1, Budgets, Multiples
    <2>4. Here(u) \in Int /\ Here(t) \in Int
      <3>1. Here(t) \in Int
        BY HereFacts
      <3>2. u.age \in Int /\ Due(u) \in Int /\ u.attempt \in Int
        BY <1>4, OrchestratorConfig
           DEF AtWork, Task, Retry, Again, Sleep, Call, Due
      <3>3. /\ RetryAttempts - u.attempt \in Int
            /\ CallTicks \in Int /\ Round \in Int
        BY <3>2, OrchestratorConfig, Budgets
      <3>4. /\ (RetryAttempts - u.attempt) * Round \in Int
            /\ (RetryAttempts - u.attempt - 1) * Round \in Int
        BY <3>3
      <3> QED BY <3>1, <3>2, <3>3, <3>4 DEF Here
    <2> QED BY <2>1, <2>2, <2>3, <2>4
  <1> QED BY <1>2, <1>3, <1>4 DEF Moves

-----------------------------------------------------------------------------
\* What the steps of one request do to the requests.
LEMMA TryFromMoves ==
    ASSUME TypeOK, NEW r \in Requests, NEW route \in Routes,
           NEW from \in Nat \ {0}, NEW b, TryFrom(r, route, from, b)
    PROVE  /\ \/ task'[r].pc = "idle"
              \/ \E i \in from..Len(route), probe \in BOOLEAN :
                    task'[r] = Call(route, i, 1, 0, probe)
           /\ \A s \in Requests \ {r} : task'[s] = task[s]
  <1>1. r \in DOMAIN task
    BY DEF TypeOK
  <1>2. CASE GivesUp(r, b)
    BY <1>1, <1>2 DEF GivesUp, Idle
  <1>3. ASSUME NEW p \in Extractive, Extracts(r, p, b)
        PROVE  task'[r].pc = "idle" /\ \A s \in Requests \ {r} : task'[s] = task[s]
    BY <1>1, <1>3 DEF Extracts, Idle, TypeOK
  <1>4. ASSUME NEW i \in 1..Len(route), from <= i, Calls(r, route, i, b)
        PROVE  /\ \E probe \in BOOLEAN : task'[r] = Call(route, i, 1, 0, probe)
               /\ \A s \in Requests \ {r} : task'[s] = task[s]
               /\ i \in from..Len(route)
    <2> DEFINE probe == b[route[i]].state # "closed"
               t     == Call(route, i, 1, 0, probe)
    <2>1. task' = [task EXCEPT ![r] = t] /\ probe \in BOOLEAN
      BY <1>4 DEF Calls
    <2> HIDE DEF probe
    <2>2. \E given \in BOOLEAN : t = Call(route, i, 1, 0, given)
      BY <2>1
    <2> HIDE DEF t
    <2>3. task'[r] = t /\ \A s \in Requests \ {r} : task'[s] = task[s]
      BY <1>1, <2>1 DEF TypeOK
    <2>4. i \in from..Len(route)
      BY <1>4, OrchestratorConfig
    <2> QED BY <2>2, <2>3, <2>4
  <1>5. GivesUp(r, b) => \A s \in Requests \ {r} : task'[s] = task[s]
    BY DEF GivesUp, TypeOK
  <1> QED BY <1>2, <1>3, <1>4, <1>5, TryFromCases

LEMMA SettleMoves ==
    ASSUME TypeOK, NEW r \in Requests, task[r].pc = "calling", NEW outcome,
           Settle(r, outcome)
    PROVE  /\ Moves(task[r], task'[r])
           /\ \A s \in Requests \ {r} : task'[s] = task[s]
  <1>1. InLoops(task[r]) /\ r \in DOMAIN task
    BY DEF TypeOK, Busy
  <1>2. CASE Answers(r, outcome)
    BY <1>1, <1>2 DEF Answers, Idle, Moves
  <1>3. ASSUME NEW d \in BackoffDelays(task[r].attempt), Sleeps(r, d, outcome)
        PROVE  /\ Retry(task[r], task'[r])
               /\ \A s \in Requests \ {r} : task'[s] = task[s]
    <2>1. d \in 0..BackoffCap
      BY DEF BackoffDelays
    <2>2. task'[r] = Sleep(task[r].route, task[r].pos, task[r].attempt, d)
      BY <1>1, <1>3 DEF Sleeps
    <2> QED BY <1>3, <2>1, <2>2 DEF Sleeps, Retry
  <1>4. CASE MovesOn(r, outcome)
    <2>1. task[r].route \in Routes /\ task[r].pos + 1 \in Nat \ {0}
      BY <1>1, OrchestratorConfig DEF InLoops
    <2> QED BY <1>4, <2>1, TryFromMoves DEF MovesOn, Moves, Onward
  <1>5. Answers(r, outcome) => \A s \in Requests \ {r} : task'[s] = task[s]
    BY DEF Answers
  <1> QED BY <1>2, <1>3, <1>4, <1>5, SettleCases DEF Moves

LEMMA OwnMoves ==
    ASSUME TypeOK, NEW r \in Requests, Reply(r) \/ TimeOut(r) \/ Wake(r)
    PROVE  /\ Busy(r) /\ Moves(task[r], task'[r])
           /\ \A s \in Requests \ {r} : task'[s] = task[s]
  <1>1. CASE Reply(r) \/ TimeOut(r)
    BY <1>1, SettleMoves DEF Reply, TimeOut, Busy
  <1>2. CASE Wake(r)
    BY <1>2 DEF Wake, Busy, Moves, Again, TypeOK
  <1> QED BY <1>1, <1>2

\* A tick takes one off what every request has left.
LEMMA TickShrinks ==
    ASSUME TypeOK, AllOnTime, Tick, NEW r \in Requests, Busy(r)
    PROVE  /\ Busy(r)' /\ OnTime(task'[r]) /\ Target(r)' = Target(r)
           /\ task'[r].pc = task[r].pc
           /\ Here(task'[r]) = Here(task[r]) - 1
           /\ TimeLeft(task'[r]) = TimeLeft(task[r]) - 1
           /\ StepsLeft(task'[r]) = StepsLeft(task[r])
  <1> DEFINE t == task[r]
             u == task'[r]
  <1>1. /\ AtWork(t) /\ u = [t EXCEPT !.age = @ + 1] /\ t.age < Due(t)
    BY DEF AllOnTime, AtWork, Tick, TypeOK, Busy, Deadline, Due
  <1> HIDE DEF t, u
  <1>2. /\ u.pc = t.pc /\ u.route = t.route /\ u.pos = t.pos
        /\ u.attempt = t.attempt /\ u.delay = t.delay /\ u.age = t.age + 1
        /\ t.age \in Nat /\ t.pc # "idle" /\ Due(u) = Due(t) /\ Due(t) \in Nat
        /\ t.delay <= BackoffCap
    BY <1>1, OrchestratorConfig DEF AtWork, Task, OnTime, Due
  <1>3. OnTime(u)
    BY <1>1, <1>2 DEF OnTime
  <1>4. Here(t) \in Int /\ Here(u) = Here(t) - 1
    <2>1. Here(t) \in Int
      BY <1>1, HereFacts
    <2> DEFINE rest == IF t.pc = "calling" THEN (RetryAttempts - t.attempt) * Round
                       ELSE CallTicks + (RetryAttempts - t.attempt - 1) * Round
    <2>2. /\ Here(t) = Due(t) - t.age + rest
          /\ Here(u) = Due(t) - (t.age + 1) + rest
      BY <1>2 DEF Here
    <2>3. rest \in Int
      BY <1>1, OrchestratorConfig, Budgets DEF AtWork, Task
    <2> HIDE DEF rest
    <2> QED BY <1>2, <2>1, <2>2, <2>3
  <1>5. TimeLeft(u) = TimeLeft(t) - 1
    <2>1. /\ TimeLeft(t) = Here(t) + (Len(t.route) - t.pos) * Budget
          /\ TimeLeft(u) = Here(u) + (Len(t.route) - t.pos) * Budget
      BY <1>2 DEF TimeLeft
    <2>2. (Len(t.route) - t.pos) * Budget \in Int
      BY <1>1, OrchestratorConfig, Budgets DEF AtWork, InLoops
    <2> QED BY <1>4, <2>1, <2>2
  <1>6. StepsLeft(u) = StepsLeft(t)
    BY <1>2 DEF StepsLeft, CallsLeft
  <1> QED BY <1>2, <1>3, <1>4, <1>5, <1>6 DEF t, u, Busy, Target

LEMMA BusyAtWork ==
    ASSUME TypeOK, AllOnTime, NEW r \in Requests, Busy(r)
    PROVE  AtWork(task[r])
  BY DEF TypeOK, AllOnTime, AtWork, Busy

LEMMA FreshOnTime ==
    ASSUME NEW route, NEW i, NEW probe
    PROVE  OnTime(Call(route, i, 1, 0, probe))
  BY OrchestratorConfig DEF OnTime, Due, Call

\* No request is ever past its deadline.
LEMMA NextOnTime ==
    ASSUME TypeOK, AllOnTime, [Next]_vars
    PROVE  AllOnTime'
  <1>1. CASE Tick
    <2>1. \A r \in Requests : Busy(r)' => Busy(r)
      BY <1>1 DEF Tick, TypeOK, Busy
    <2> QED BY <1>1, <2>1, TickShrinks DEF AllOnTime
  <1>2. ASSUME NEW r \in Requests, Submit(r)
        PROVE  AllOnTime'
    <2>1. PICK route \in Routes : TryFrom(r, route, 1, breaker)
      BY <1>2 DEF Submit
    <2>2. /\ task'[r].pc = "idle" \/ OnTime(task'[r])
          /\ \A s \in Requests \ {r} : task'[s] = task[s]
      BY <2>1, TryFromMoves, FreshOnTime
    <2> QED BY <2>2 DEF AllOnTime, Busy
  <1>3. ASSUME NEW r \in Requests, Reply(r) \/ TimeOut(r) \/ Wake(r)
        PROVE  AllOnTime'
    <2>1. /\ AtWork(task[r]) /\ Moves(task[r], task'[r])
          /\ \A s \in Requests \ {r} : task'[s] = task[s]
      BY <1>3, OwnMoves, BusyAtWork
    <2>2. task'[r].pc = "idle" \/ OnTime(task'[r])
      BY <2>1, MovesShrink
    <2> QED BY <2>1, <2>2 DEF AllOnTime, Busy
  <1>4. CASE UNCHANGED vars
    BY <1>4 DEF vars, AllOnTime, Busy
  <1> QED BY <1>1, <1>2, <1>3, <1>4 DEF Next

LEMMA OnTimeAlways == Spec => [](TypeOK /\ AllOnTime)
  <1>1. Init => AllOnTime
    BY DEF Init, AllOnTime, Busy, Idle
  <1> QED BY <1>1, TypeCorrect, NextOnTime, PTL DEF Spec

\* What a request is granted: for every provider of its route all attempts, each
\* up to its timeout, and the longest back-offs between them.
WithinBudget ==
    \A r \in Requests : Busy(r) =>
        /\ TimeLeft(task[r]) \in 0..(Len(task[r].route) * Budget)
        /\ StepsLeft(task[r]) \in Nat

\* Time and steps run out: no step gives a request that is not answered yet more
\* time, whatever other requests do to the breakers; every tick takes of it, and
\* every reply, timeout and wake-up takes a step.
RunsOut ==
    [][\A r \in Requests : Busy(r) =>
          /\ TimeLeft(task'[r]) <= TimeLeft(task[r])
          /\ Tick => TimeLeft(task'[r]) < TimeLeft(task[r])
          /\ IF Reply(r) \/ TimeOut(r) \/ Wake(r)
             THEN StepsLeft(task'[r]) < StepsLeft(task[r])
             ELSE StepsLeft(task'[r]) = StepsLeft(task[r])]_vars

LEMMA NextRunsOut ==
    ASSUME TypeOK, AllOnTime, [Next]_vars, NEW r \in Requests, Busy(r)
    PROVE  /\ TimeLeft(task'[r]) <= TimeLeft(task[r])
           /\ Tick => TimeLeft(task'[r]) < TimeLeft(task[r])
           /\ IF Reply(r) \/ TimeOut(r) \/ Wake(r)
              THEN StepsLeft(task'[r]) < StepsLeft(task[r])
              ELSE StepsLeft(task'[r]) = StepsLeft(task[r])
  <1>1. AtWork(task[r])
    BY BusyAtWork
  <1>2. TimeLeft(task[r]) \in Nat /\ StepsLeft(task[r]) \in Nat
    BY <1>1, LeftFacts, Budgets
  <1>3. CASE task'[r] = task[r]
    <2>1. ~Tick
      BY <1>2, <1>3, TickShrinks
    <2>2. ~(Reply(r) \/ TimeOut(r) \/ Wake(r))
      BY <1>1, <1>2, <1>3, OwnMoves, MovesShrink
    <2> QED BY <1>2, <1>3, <2>1, <2>2
  <1>4. CASE Tick
    <2>1. ~(Reply(r) \/ TimeOut(r) \/ Wake(r))
      BY <1>1, <1>2, <1>4, TickShrinks, OwnMoves, MovesShrink
    <2> QED BY <1>2, <1>4, <2>1, TickShrinks
  <1>5. CASE Reply(r) \/ TimeOut(r) \/ Wake(r)
    <2>1. ~Tick
      BY <1>1, <1>2, <1>5, TickShrinks, OwnMoves, MovesShrink
    <2>2. /\ TimeLeft(task'[r]) <= TimeLeft(task[r])
          /\ StepsLeft(task'[r]) < StepsLeft(task[r])
      BY <1>1, <1>5, OwnMoves, MovesShrink
    <2> QED BY <1>5, <2>1, <2>2
  <1>6. ASSUME NEW s \in Requests, Submit(s)
        PROVE  task'[r] = task[r]
    <2>1. s # r
      BY <1>6 DEF Submit
    <2> QED BY <1>6, <2>1, TryFromMoves DEF Submit
  <1>7. ASSUME NEW s \in Requests \ {r}, Reply(s) \/ TimeOut(s) \/ Wake(s)
        PROVE  task'[r] = task[r]
    BY <1>7, OwnMoves
  <1>8. CASE UNCHANGED vars
    BY <1>3, <1>8 DEF vars
  <1> QED BY <1>3, <1>4, <1>5, <1>6, <1>7, <1>8 DEF Next

\* generate is answered within the budget of its route: at every moment at most
\* Len(route) * Budget ticks remain, and they run out.
THEOREM AnsweredWithinBudget == Spec => []WithinBudget /\ RunsOut
  <1>1. ASSUME TypeOK, AllOnTime PROVE WithinBudget
    BY <1>1, BusyAtWork, LeftFacts DEF WithinBudget
  <1>2. ASSUME TypeOK, AllOnTime, [Next]_vars
        PROVE  [\A r \in Requests : Busy(r) =>
                  /\ TimeLeft(task'[r]) <= TimeLeft(task[r])
                  /\ Tick => TimeLeft(task'[r]) < TimeLeft(task[r])
                  /\ IF Reply(r) \/ TimeOut(r) \/ Wake(r)
                     THEN StepsLeft(task'[r]) < StepsLeft(task[r])
                     ELSE StepsLeft(task'[r]) = StepsLeft(task[r])]_vars
    BY <1>2, NextRunsOut
  <1> QED BY <1>1, <1>2, OnTimeAlways, PTL DEF Spec, RunsOut

-----------------------------------------------------------------------------
(***************************************************************************)
(* How long a circuit refuses                                              *)
(***************************************************************************)

\* A circuit that refuses does so for at most n more ticks: it is open and its
\* recovery time is over by then, or a call is under way whose verdict ends the
\* half-open phase; and if one of its users should open it afresh, it has the
\* time for that and for another recovery.
Shut(p, n) ==
    /\ breaker[p].state = "open" => RecoveryTicks - breaker[p].openedFor <= n
    /\ breaker[p].state = "half_open" => \E r \in Users(p) : task[r].pc = "calling"
    /\ \A r \in Users(p) : Here(task[r]) + RecoveryTicks <= n

ShutFor(p, n) == Admits(breaker[p]) \/ Shut(p, n)

\* A half-open circuit waits for a call that is under way.
HasCaller ==
    \A p \in Providers : breaker[p].state = "half_open" =>
        \E r \in Users(p) : task[r].pc = "calling"

\* A verdict on a provider that refuses closes the circuit or opens it afresh.
LEMMA VerdictShut ==
    ASSUME NEW b \in Breaker, Coherent(b), ~Admits(b), NEW outcome
    PROVE  Verdict(b, outcome).state = "closed" \/ Verdict(b, outcome) = Tripped
  <1>1. RecordSuccess(b).state = "closed"
    BY DEF RecordSuccess
  <1>2. \/ RecordFailure(RecordSuccess(b)).state = "closed"
        \/ RecordFailure(RecordSuccess(b)) = Tripped
    BY <1>1 DEF RecordFailure, Counted
  <1>3. RecordFailure(b) = Tripped
    BY BreakerConfig DEF Admits, Coherent, RecordFailure, Trips, Breaker, CircuitState
  <1> QED BY <1>1, <1>2, <1>3 DEF Verdict

\* The outer loop passes over a provider that refuses.
LEMMA PassesShut ==
    ASSUME TypeOK, NEW r \in Requests, NEW route \in Routes,
           NEW from \in Nat \ {0}, NEW b \in [Providers -> Breaker],
           TryFrom(r, route, from, b),
           NEW p \in Providers, ~Admits(b[p])
    PROVE  breaker'[p] = b[p] /\ ~(Busy(r)' /\ Target(r)' = p)
  <1>1. r \in DOMAIN task
    BY DEF TypeOK
  <1>2. CASE GivesUp(r, b)
    BY <1>1, <1>2 DEF GivesUp, Idle, Busy
  <1>3. ASSUME NEW q \in Extractive, Extracts(r, q, b)
        PROVE  breaker'[p] = b[p] /\ ~Busy(r)'
    BY <1>1, <1>3 DEF Extracts, Idle, Busy
  <1>4. ASSUME NEW i \in 1..Len(route), Calls(r, route, i, b)
        PROVE  breaker'[p] = b[p] /\ Target(r)' # p
    <2>1. route[i] # p
      BY <1>4 DEF Calls
    <2>2. Target(r)' = route[i]
      BY <1>1, <1>4 DEF Calls, Call, Target
    <2> QED BY <1>4, <2>1, <2>2 DEF Calls
  <1> QED BY <1>2, <1>3, <1>4, TryFromCases

\* It leaves a closed circuit closed.
LEMMA KeepsClosed ==
    ASSUME NEW r, NEW route \in Routes, NEW from \in Nat \ {0},
           NEW b \in [Providers -> Breaker], TryFrom(r, route, from, b),
           NEW p \in Providers, b[p].state = "closed"
    PROVE  breaker'[p].state = "closed"
  <1>1. CASE GivesUp(r, b)
    BY <1>1 DEF GivesUp
  <1>2. ASSUME NEW q \in Extractive, Extracts(r, q, b)
        PROVE  breaker'[p].state = "closed"
    BY <1>2 DEF Extracts, RecordSuccess
  <1>3. ASSUME NEW i \in 1..Len(route), Calls(r, route, i, b)
        PROVE  breaker'[p].state = "closed"
    BY <1>3 DEF Calls, AllowRequest
  <1> QED BY <1>1, <1>2, <1>3, TryFromCases

\* What the end of an attempt does to a circuit that refuses.
LEMMA SettleShut ==
    ASSUME 0 < RecoveryTicks, TypeOK, BreakerShape, AllOnTime,
           NEW r \in Requests, task[r].pc = "calling", NEW outcome,
           Settle(r, outcome), NEW p \in Providers, ~Admits(breaker[p])
    PROVE  \/ breaker'[p].state = "closed"
           \/ /\ Target(r) # p /\ breaker'[p] = breaker[p]
              /\ ~(Busy(r)' /\ Target(r)' = p)
           \/ /\ Target(r) = p /\ breaker'[p] = Tripped
              /\ Busy(r)' /\ Target(r)' = p => Here(task'[r]) <= Here(task[r])
  <1> DEFINE b == Judged(r, outcome)
             q == Target(r)
  <1>1. /\ AtWork(task[r]) /\ InLoops(task[r]) /\ r \in DOMAIN task /\ Busy(r)
        /\ q \in Providers
    BY BusyAtWork, TargetType DEF TypeOK, Busy
  <1>2. b \in [Providers -> Breaker] /\ b = [breaker EXCEPT ![q] = Verdict(breaker[q], outcome)]
    BY <1>1, JudgedShape DEF Judged
  <1>3. q # p => b[p] = breaker[p]
    BY <1>2
  <1>4. q = p => b[p].state = "closed" \/ b[p] = Tripped
    <2>1. q = p => b[p] = Verdict(breaker[p], outcome)
      BY <1>2 DEF TypeOK
    <2> QED BY <2>1, VerdictShut DEF TypeOK, BreakerShape
  <1>5. ~Admits(Tripped)
    BY BreakerConfig DEF Tripped, Admits, RecoveryElapsed, NotOpened
  <1>6. CASE Answers(r, outcome)
    <2>1. breaker' = b /\ ~Busy(r)'
      BY <1>1, <1>6 DEF Answers, Idle, Busy
    <2> QED BY <1>3, <1>4, <2>1
  <1>7. ASSUME NEW d \in BackoffDelays(task[r].attempt), Sleeps(r, d, outcome)
        PROVE  /\ breaker' = b /\ Target(r)' = q
               /\ Here(task'[r]) <= Here(task[r])
    <2>1. d \in 0..BackoffCap /\ breaker' = b
      BY <1>7 DEF BackoffDelays, Sleeps
    <2>2. task'[r] = Sleep(task[r].route, task[r].pos, task[r].attempt, d)
      BY <1>1, <1>7 DEF Sleeps
    <2>3. Retry(task[r], task'[r])
      BY <1>7, <2>1, <2>2 DEF Sleeps, Retry
    <2> QED BY <1>1, <2>1, <2>3, RetryShrinks DEF Target
  <1>8. CASE MovesOn(r, outcome)
    <2>1. task[r].route \in Routes /\ task[r].pos + 1 \in Nat \ {0}
      BY <1>1, OrchestratorConfig DEF InLoops
    <2>2. TryFrom(r, task[r].route, task[r].pos + 1, b)
      BY <1>8 DEF MovesOn
    <2>5. b \in [Providers -> Breaker]
      BY <1>2
    <2> HIDE DEF b, q
    <2>3. ASSUME b[p].state = "closed" PROVE breaker'[p].state = "closed"
      BY ONLY <2>1, <2>2, <2>3, <2>5, p \in Providers, KeepsClosed
    <2>4. ASSUME ~Admits(b[p])
          PROVE  breaker'[p] = b[p] /\ ~(Busy(r)' /\ Target(r)' = p)
      BY ONLY TypeOK, r \in Requests, <2>1, <2>2, <2>4, <2>5, p \in Providers, PassesShut
    <2> QED BY <1>3, <1>4, <1>5, <2>3, <2>4 DEF q
  <1> QED BY <1>3, <1>4, <1>6, <1>7, <1>8, SettleCases

\* Whoever is left alone by a step stays where it is.
LEMMA StaysThere ==
    ASSUME NEW p, NEW s \in Users(p), task'[s] = task[s]
    PROVE  s \in Users(p)' /\ task'[s].pc = task[s].pc
  BY DEF Users, Busy, Target

\* Whoever turns a circuit half-open is the call that it waits for.
LEMMA TryFromHasCaller ==
    ASSUME TypeOK, NEW r \in Requests, NEW route \in Routes,
           NEW from \in Nat \ {0}, NEW b \in [Providers -> Breaker],
           TryFrom(r, route, from, b), \A q \in Providers : Coherent(b[q]),
           \A q \in Providers : b[q].state = "half_open" =>
              \E s \in Users(q) \ {r} : task[s].pc = "calling"
    PROVE  HasCaller'
  <1>1. \A s \in Requests \ {r} : task'[s] = task[s]
    BY TryFromMoves
  <1>2. ASSUME NEW p \in Providers, b[p].state = "half_open"
        PROVE  \E s \in Users(p)' : task'[s].pc = "calling"
    <2>1. PICK s \in Users(p) \ {r} : task[s].pc = "calling"
      BY <1>2
    <2>2. s \in Requests \ {r}
      BY DEF Users
    <2> QED BY <1>1, <2>1, <2>2, StaysThere
  <1>3. ASSUME NEW p \in Providers, b[p].state # "half_open",
               breaker'[p].state = "half_open"
        PROVE  \E s \in Users(p)' : task'[s].pc = "calling"
    <2>1. CASE GivesUp(r, b)
      BY <1>3, <2>1 DEF GivesUp
    <2>2. ASSUME NEW q \in Extractive, Extracts(r, q, b)
          PROVE  FALSE
      BY <1>3, <2>2 DEF Extracts, RecordSuccess
    <2>3. ASSUME NEW i \in 1..Len(route), Calls(r, route, i, b)
          PROVE  r \in Users(p)' /\ task'[r].pc = "calling"
      <3>1. route[i] = p
        BY <1>3, <2>3 DEF Calls
      <3>2. /\ task'[r].route = route /\ task'[r].pos = i
            /\ task'[r].pc = "calling"
        BY <2>3 DEF Calls, Call, TypeOK
      <3> QED BY <3>1, <3>2 DEF Users, Busy, Target
    <2> QED BY <2>1, <2>2, <2>3, TryFromCases
  <1> QED BY <1>2, <1>3 DEF HasCaller

LEMMA SettleHasCaller ==
    ASSUME TypeOK, BreakerShape, HasCaller, NEW r \in Requests,
           task[r].pc = "calling", NEW outcome, Settle(r, outcome)
    PROVE  HasCaller'
  <1> DEFINE b == Judged(r, outcome)
             q == Target(r)
  <1>1. Busy(r) /\ InLoops(task[r]) /\ q \in Providers
    BY TargetType DEF Busy, TypeOK
  <1>2. b \in [Providers -> Breaker] /\ \A p \in Providers : Coherent(b[p])
    BY <1>1, JudgedShape
  <1>3. b[q].state # "half_open" /\ \A p \in Providers \ {q} : b[p] = breaker[p]
    BY <1>1, VerdictSettles DEF Judged, TypeOK, BreakerShape
  <1>4. \A p \in Providers : b[p].state = "half_open" =>
           \E s \in Users(p) \ {r} : task[s].pc = "calling"
    <2>1. \A p \in Providers \ {q} : r \notin Users(p)
      BY DEF Users
    <2> QED BY <1>3, <2>1 DEF HasCaller
  <1>5. CASE breaker' = b
    <2>1. \A s \in Requests \ {r} : task'[s] = task[s]
      BY SettleMoves
    <2>2. ASSUME NEW p \in Providers, b[p].state = "half_open"
          PROVE  \E s \in Users(p)' : task'[s].pc = "calling"
      <3>1. PICK s \in Users(p) \ {r} : task[s].pc = "calling"
        BY <1>4, <2>2
      <3>2. s \in Requests \ {r}
        BY DEF Users
      <3> QED BY <2>1, <3>1, <3>2, StaysThere
    <2> QED BY <1>5, <2>2 DEF HasCaller
  <1>6. CASE MovesOn(r, outcome)
    <2>1. task[r].route \in Routes /\ task[r].pos + 1 \in Nat \ {0}
      BY <1>1, OrchestratorConfig DEF InLoops
    <2>2. TryFrom(r, task[r].route, task[r].pos + 1, b)
      BY <1>6 DEF MovesOn
    <2>3. b \in [Providers -> Breaker]
      BY <1>2
    <2>4. \A p \in Providers : Coherent(b[p])
      BY <1>2
    <2> HIDE DEF b, q
    <2> QED BY ONLY TypeOK, r \in Requests, <1>4, <2>1, <2>2, <2>3, <2>4,
                    TryFromHasCaller
  <1> QED BY <1>5, <1>6, SettleCases DEF Answers, Sleeps

LEMMA TickStates ==
    ASSUME TypeOK, Tick, NEW p \in Providers
    PROVE  /\ breaker'[p].state = breaker[p].state
           /\ breaker'[p].failures = breaker[p].failures
           /\ breaker[p].openedFor \in 0..(RecoveryTicks - 1) =>
                 breaker'[p].openedFor = breaker[p].openedFor + 1
  BY BreakerConfig DEF Tick, TypeOK, Elapse, Breaker, NotOpened

LEMMA NextHasCaller ==
    ASSUME TypeOK, BreakerShape, AllOnTime, HasCaller, [Next]_vars
    PROVE  HasCaller'
  <1>1. CASE Tick
    <2>1. ASSUME NEW p \in Providers, NEW s \in Users(p)
          PROVE  s \in Users(p)' /\ task'[s].pc = task[s].pc
      BY <1>1, TickShrinks DEF Users
    <2> QED BY <1>1, <2>1, TickStates DEF HasCaller
  <1>2. ASSUME NEW r \in Requests, Submit(r)
        PROVE  HasCaller'
    <2>1. PICK route \in Routes : TryFrom(r, route, 1, breaker)
      BY <1>2 DEF Submit
    <2>2. \A q \in Providers : r \notin Users(q)
      BY <1>2 DEF Submit, Users
    <2>3. \A q \in Providers : breaker[q].state = "half_open" =>
             \E s \in Users(q) \ {r} : task[s].pc = "calling"
      BY <2>2 DEF HasCaller
    <2>4. /\ breaker \in [Providers -> Breaker] /\ 1 \in Nat \ {0}
          /\ \A q \in Providers : Coherent(breaker[q])
      BY DEF TypeOK, BreakerShape
    <2> QED BY ONLY TypeOK, r \in Requests, <2>1, <2>3, <2>4, TryFromHasCaller
  <1>3. ASSUME NEW r \in Requests, Reply(r) \/ TimeOut(r)
        PROVE  HasCaller'
    BY <1>3, SettleHasCaller DEF Reply, TimeOut
  <1>4. ASSUME NEW r \in Requests, Wake(r)
        PROVE  HasCaller'
    <2>1. breaker' = breaker /\ task[r].pc = "sleeping"
      BY <1>4 DEF Wake
    <2>2. \A s \in Requests \ {r} : task'[s] = task[s]
      BY <1>4, OwnMoves
    <2>3. ASSUME NEW p \in Providers, NEW s \in Users(p), task[s].pc = "calling"
          PROVE  s \in Users(p)' /\ task'[s].pc = "calling"
      <3>1. s \in Requests \ {r}
        BY <2>1, <2>3 DEF Users
      <3> QED BY <2>2, <2>3, <3>1, StaysThere
    <2> QED BY <2>1, <2>3 DEF HasCaller
  <1>5. CASE UNCHANGED vars
    BY <1>5 DEF vars, HasCaller, Users, Busy, Target
  <1> QED BY <1>1, <1>2, <1>3, <1>4, <1>5 DEF Next

LEMMA CallerAlways == Spec => [](TypeOK /\ BreakerShape /\ AllOnTime /\ HasCaller)
  <1>1. Init => HasCaller
    BY DEF Init, HasCaller, NewBreaker
  <1> QED BY <1>1, TypeCorrect, OnTimeAlways, NextHasCaller, PTL DEF Spec

-----------------------------------------------------------------------------
LEMMA UserFacts ==
    ASSUME TypeOK, AllOnTime, NEW p, NEW s \in Users(p)
    PROVE  s \in Requests /\ Busy(s) /\ Here(task[s]) \in 0..Budget
  BY BusyAtWork, HereFacts DEF Users

\* A step that lets nobody in, and after which those who stay have no more time
\* than before, does not put the end off.
LEMMA StepKeepsShut ==
    ASSUME TypeOK, AllOnTime, HasCaller',
           NEW p \in Providers, NEW n \in Nat, Shut(p, n),
           \/ breaker'[p] = breaker[p]
           \/ breaker'[p] = Tripped /\ Users(p) # {},
           \A s \in Users(p)' : /\ s \in Users(p)
                                /\ Here(task'[s]) \in Int
                                /\ Here(task'[s]) <= Here(task[s])
    PROVE  Shut(p, n)'
  <1>1. \A s \in Users(p) : Here(task[s]) \in 0..Budget /\ Here(task[s]) + RecoveryTicks <= n
    BY UserFacts DEF Shut
  <1>2. RecoveryTicks \in Nat /\ Budget \in Nat
    BY BreakerConfig, Budgets
  <1>3. \A s \in Users(p)' : Here(task'[s]) + RecoveryTicks <= n
    BY <1>1, <1>2
  <1>4. breaker'[p].state = "half_open" => \E s \in Users(p)' : task'[s].pc = "calling"
    BY DEF HasCaller
  <1>5. breaker'[p].state = "open" => RecoveryTicks - breaker'[p].openedFor <= n
    <2>1. CASE breaker'[p] = breaker[p]
      BY <2>1 DEF Shut
    <2>2. CASE breaker'[p] = Tripped /\ Users(p) # {}
      <3>1. RecoveryTicks <= n
        BY <1>1, <1>2, <2>2
      <3>2. breaker'[p].openedFor = 0
        BY <2>2 DEF Tripped
      <3> QED BY <1>2, <3>1, <3>2
    <2> QED BY <2>1, <2>2
  <1> QED BY <1>3, <1>4, <1>5 DEF Shut

LEMMA LaterUser ==
    ASSUME TypeOK', AllOnTime', NEW p, NEW s \in Users(p)'
    PROVE  s \in Requests /\ Busy(s)' /\ Target(s)' = p /\ Here(task'[s]) \in Int
  <1>1. s \in Requests /\ Busy(s)' /\ Target(s)' = p
    BY DEF Users
  <1>2. AtWork(task'[s])
    BY <1>1 DEF TypeOK, AllOnTime, AtWork, Busy
  <1> QED BY <1>1, <1>2, HereFacts

\* Those whom a step leaves alone use what they used, and have as much time.
LEMMA LeftAlone ==
    ASSUME NEW p, NEW s \in Users(p)', s \in Requests, task'[s] = task[s],
           Here(task'[s]) \in Int
    PROVE  s \in Users(p) /\ Here(task'[s]) <= Here(task[s])
  BY DEF Users, Busy, Target

\* The steps of the requests do not put off the end of the refusal.
LEMMA RequestKeepsShut ==
    ASSUME 0 < RecoveryTicks, TypeOK, BreakerShape, AllOnTime,
           TypeOK', AllOnTime', HasCaller',
           NEW r \in Requests, Submit(r) \/ Reply(r) \/ TimeOut(r) \/ Wake(r),
           NEW p \in Providers, NEW n \in Nat, ~Admits(breaker[p]), Shut(p, n)
    PROVE  ShutFor(p, n)'
  <1>1. ASSUME \A s \in Requests \ {r} : task'[s] = task[s],
               r \in Users(p)' => r \in Users(p) /\ Here(task'[r]) <= Here(task[r])
        PROVE  \A s \in Users(p)' : /\ s \in Users(p)
                                    /\ Here(task'[s]) \in Int
                                    /\ Here(task'[s]) <= Here(task[s])
    BY <1>1, LaterUser, LeftAlone
  <1>2. CASE Submit(r)
    <2>1. PICK route \in Routes : TryFrom(r, route, 1, breaker)
      BY <1>2 DEF Submit
    <2>2. breaker \in [Providers -> Breaker] /\ 1 \in Nat \ {0}
      BY DEF TypeOK
    <2>3. breaker'[p] = breaker[p] /\ ~(Busy(r)' /\ Target(r)' = p)
      BY ONLY TypeOK, r \in Requests, <2>1, <2>2, p \in Providers,
              ~Admits(breaker[p]), PassesShut
    <2>4. \A s \in Requests \ {r} : task'[s] = task[s]
      BY <2>1, <2>2, TryFromMoves
    <2>5. r \notin Users(p)'
      BY <2>3 DEF Users
    <2> QED BY <1>1, <2>3, <2>4, <2>5, StepKeepsShut DEF ShutFor
  <1>3. CASE Reply(r) \/ TimeOut(r)
    <2>1. PICK outcome : Settle(r, outcome)
      BY <1>3 DEF Reply, TimeOut
    <2>2. task[r].pc = "calling" /\ Busy(r)
      BY <1>3 DEF Reply, TimeOut, Busy
    <2>3. \A s \in Requests \ {r} : task'[s] = task[s]
      BY <2>1, <2>2, SettleMoves
    <2>4. CASE breaker'[p].state = "closed"
      BY <2>4 DEF ShutFor, Admits
    <2>5. CASE breaker'[p] = breaker[p] /\ ~(Busy(r)' /\ Target(r)' = p)
      <3>1. r \notin Users(p)'
        BY <2>5 DEF Users
      <3> QED BY <1>1, <2>3, <2>5, <3>1, StepKeepsShut DEF ShutFor
    <2>6. CASE /\ Target(r) = p /\ breaker'[p] = Tripped
               /\ Busy(r)' /\ Target(r)' = p => Here(task'[r]) <= Here(task[r])
      <3>1. r \in Users(p)
        BY <2>2, <2>6 DEF Users
      <3>2. r \in Users(p)' => Here(task'[r]) <= Here(task[r])
        BY <2>6 DEF Users
      <3> QED BY <1>1, <2>3, <2>6, <3>1, <3>2, StepKeepsShut DEF ShutFor
    <2> QED BY <2>1, <2>2, <2>4, <2>5, <2>6, SettleShut
  <1>4. CASE Wake(r)
    <2>1. /\ Again(task[r], task'[r]) /\ breaker' = breaker /\ Busy(r)
          /\ AtWork(task[r])
      BY <1>4, BusyAtWork DEF Wake, Again, Busy, TypeOK
    <2>2. \A s \in Requests \ {r} : task'[s] = task[s]
      BY <1>4, OwnMoves
    <2>3. Target(r)' = Target(r) /\ Here(task'[r]) <= Here(task[r])
      BY <2>1, AgainShrinks DEF Target
    <2>4. r \in Users(p)' => r \in Users(p) /\ Here(task'[r]) <= Here(task[r])
      BY <2>1, <2>3 DEF Users
    <2> QED BY <1>1, <2>1, <2>2, <2>4, StepKeepsShut DEF ShutFor
  <1> QED BY <1>2, <1>3, <1>4

\* A tick brings it nearer.
LEMMA TickShortensShut ==
    ASSUME TypeOK, BreakerShape, AllOnTime, Tick, TypeOK', AllOnTime',
           NEW p \in Providers, NEW n \in Nat, ~Admits(breaker[p]), Shut(p, n)
    PROVE  n > 0 /\ Shut(p, n - 1)'
  <1>1. /\ breaker'[p].state = breaker[p].state
        /\ breaker[p].state \in {"open", "half_open"}
        /\ breaker[p].state = "open" =>
              /\ breaker[p].openedFor \in 0..(RecoveryTicks - 1)
              /\ breaker'[p].openedFor = breaker[p].openedFor + 1
    BY TickStates, BreakerConfig
       DEF TypeOK, BreakerShape, Coherent, Admits, RecoveryElapsed, Breaker,
           CircuitState, NotOpened
  <1>2. \A s \in Users(p)' : /\ s \in Users(p) /\ Here(task[s]) \in 0..Budget
                             /\ Here(task'[s]) = Here(task[s]) - 1
    <2>1. ASSUME NEW s \in Users(p)' PROVE s \in Users(p)
      <3>1. s \in Requests /\ Busy(s)
        BY LaterUser DEF Tick, TypeOK, Busy
      <3> QED BY <3>1, LaterUser, TickShrinks DEF Users
    <2> QED BY <2>1, UserFacts, TickShrinks
  <1>3. \A s \in Users(p) : /\ s \in Users(p)' /\ task'[s].pc = task[s].pc
                            /\ Here(task'[s]) = Here(task[s]) - 1
                            /\ Here(task'[s]) \in 0..Budget
    <2>1. ASSUME NEW s \in Users(p)
          PROVE  /\ s \in Users(p)' /\ task'[s].pc = task[s].pc
                 /\ Here(task'[s]) = Here(task[s]) - 1
                 /\ AtWork(task'[s])
      <3>1. s \in Requests /\ Busy(s) /\ Target(s) = p
        BY DEF Users
      <3>2. /\ Busy(s)' /\ Target(s)' = p /\ task'[s].pc = task[s].pc
            /\ Here(task'[s]) = Here(task[s]) - 1
        BY <3>1, TickShrinks
      <3>3. AtWork(task'[s])
        BY <3>1, <3>2 DEF TypeOK, AllOnTime, AtWork, Busy
      <3> QED BY <3>1, <3>2, <3>3 DEF Users
    <2> QED BY <2>1, HereFacts
  <1>4. \A s \in Users(p) : Here(task[s]) + RecoveryTicks <= n
    BY DEF Shut
  <1>5. RecoveryTicks \in Nat /\ Budget \in Nat
    BY BreakerConfig, Budgets
  <1>6. n > 0
    <2>1. CASE breaker[p].state = "open"
      BY <1>1, <1>5, <2>1 DEF Shut
    <2>2. CASE breaker[p].state = "half_open"
      <3>1. PICK s \in Users(p) : task[s].pc = "calling"
        BY <2>2 DEF Shut
      <3>2. Here(task[s]) - 1 \in 0..Budget /\ Here(task[s]) \in 0..Budget
        BY <1>3, UserFacts
      <3> QED BY <1>4, <1>5, <3>2
    <2> QED BY <1>1, <2>1, <2>2
  <1>7. \A s \in Users(p)' : Here(task'[s]) + RecoveryTicks <= n - 1
    BY <1>2, <1>4, <1>5
  <1>8. breaker'[p].state = "half_open" => \E s \in Users(p)' : task'[s].pc = "calling"
    BY <1>1, <1>3 DEF Shut
  <1>9. breaker'[p].state = "open" => RecoveryTicks - breaker'[p].openedFor <= n - 1
    BY <1>1, <1>5 DEF Shut
  <1> QED BY <1>6, <1>7, <1>8, <1>9 DEF Shut

-----------------------------------------------------------------------------
\* A circuit that refuses does so for at most the recovery time and the budget
\* of the last request that was let through.
NeverShutForLong == \A p \in Providers : ShutFor(p, Budget + RecoveryTicks)

\* The bound counts down until the circuit admits: nothing that requests do puts
\* it off, no straggler's failure and no failed probe, and every tick takes one.
ShutRunsOut ==
    [][\A p \in Providers, n \in Nat : ~Admits(breaker[p]) /\ ShutFor(p, n) =>
          IF Tick THEN n > 0 /\ ShutFor(p, n - 1)' ELSE ShutFor(p, n)']_vars

\* No circuit refuses for longer than that, if the recovery time is not zero.
THEOREM AdmitsAgain ==
    0 < RecoveryTicks => (Spec => []NeverShutForLong /\ ShutRunsOut)
  <1> DEFINE Inv == TypeOK /\ BreakerShape /\ AllOnTime /\ HasCaller
             Down == \A p \in Providers, n \in Nat :
                        ~Admits(breaker[p]) /\ ShutFor(p, n) =>
                           IF Tick THEN n > 0 /\ ShutFor(p, n - 1)' ELSE ShutFor(p, n)'
  <1>1. ASSUME Inv PROVE NeverShutForLong
    <2>1. ASSUME NEW p \in Providers
          PROVE  Admits(breaker[p]) \/ Shut(p, Budget + RecoveryTicks)
      <3>1. \A s \in Users(p) : Here(task[s]) + RecoveryTicks <= Budget + RecoveryTicks
        BY <1>1, UserFacts, BreakerConfig, Budgets
      <3>2. breaker[p].state = "open" => breaker[p].openedFor \in Nat
        BY <1>1, BreakerConfig
           DEF TypeOK, BreakerShape, Coherent, Breaker, NotOpened
      <3>3. breaker[p].state = "open"
               => RecoveryTicks - breaker[p].openedFor <= Budget + RecoveryTicks
        BY <3>2, BreakerConfig, Budgets
      <3> QED BY <1>1, <3>1, <3>3 DEF Shut, HasCaller
    <2> QED BY <2>1 DEF NeverShutForLong, ShutFor
  <1>2. ASSUME 0 < RecoveryTicks, Inv, [Next]_vars PROVE [Down]_vars
    <2>1. TypeOK' /\ BreakerShape' /\ AllOnTime' /\ HasCaller'
      BY <1>2, NextType, NextOnTime, NextHasCaller
    <2>2. ASSUME NEW p \in Providers, NEW n \in Nat, ~Admits(breaker[p]),
                 ShutFor(p, n), vars' # vars
          PROVE  IF Tick THEN n > 0 /\ ShutFor(p, n - 1)' ELSE ShutFor(p, n)'
      <3>1. Shut(p, n)
        BY <2>2 DEF ShutFor
      <3>2. CASE Tick
        BY <1>2, <2>1, <2>2, <3>1, <3>2, TickShortensShut DEF ShutFor
      <3>3. CASE ~Tick
        <4>1. PICK r \in Requests : Submit(r) \/ Reply(r) \/ TimeOut(r) \/ Wake(r)
          BY <1>2, <2>2, <3>3 DEF Next
        <4> QED BY <1>2, <2>1, <2>2, <3>1, <3>3, <4>1, RequestKeepsShut
      <3> QED BY <3>2, <3>3
    <2> QED BY <2>2
  <1>3. Spec => []Inv
    BY CallerAlways, PTL
  <1>4. CASE 0 < RecoveryTicks
    <2>1. Inv /\ [Next]_vars => [Down]_vars
      BY <1>2, <1>4
    <2> HIDE DEF Inv, Down
    <2>2. Spec => []NeverShutForLong
      BY <1>1, <1>3, PTL
    <2>3. Spec => [][Down]_vars
      BY <1>3, <2>1, PTL DEF Spec
    <2> QED BY <2>2, <2>3 DEF ShutRunsOut, Down
  <1> QED BY <1>4

=============================================================================
