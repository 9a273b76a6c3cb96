---------------------------- MODULE ProviderGate ----------------------------
(***************************************************************************)
(* What the circuit breakers of all providers promise together, without    *)
(* thresholds, clocks, retries or routes: who may start using a provider,  *)
(* and what a request's verdict may do to its circuit.                     *)
(***************************************************************************)

CONSTANTS Requests, Providers

VARIABLES
    mode,       \* the state of each provider's circuit
    users       \* the requests that use each provider

gateVars == <<mode, users>>

Init ==
    /\ mode = [p \in Providers |-> "closed"]
    /\ users = [p \in Providers |-> {}]

\* A closed circuit admits anyone.
Enter(r, p) ==
    /\ mode[p] = "closed"
    /\ r \notin users[p]
    /\ mode'[p] = "closed"
    /\ users'[p] = users[p] \cup {r}

\* An open circuit admits one request, once everybody else has left.
Probe(r, p) ==
    /\ mode[p] = "open"
    /\ users[p] = {}
    /\ mode'[p] = "half_open"
    /\ users'[p] = {r}

\* A user reports on a call; it leaves, or stays to try again.
Report(r, p) ==
    /\ r \in users[p]
    /\ mode'[p] \in {"closed", "open"}
    /\ users'[p] \in {users[p], users[p] \ {r}}

Stay(p) ==
    /\ mode'[p] = mode[p]
    /\ users'[p] = users[p]

\* One step of one request: it may report to a provider and enter the next.
Step(r) ==
    \A p \in Providers : Enter(r, p) \/ Probe(r, p) \/ Report(r, p) \/ Stay(p)

Next == \E r \in Requests : Step(r)

Spec == Init /\ [][Next]_gateVars

=============================================================================
