--------------------------- MODULE MCOrchestrator ---------------------------
(***************************************************************************)
(* Small instances of Orchestrator with the real providers, over the       *)
(* routes that ModelRouter gives to every kind of query.                   *)
(***************************************************************************)
EXTENDS Orchestrator, ModelRouter, TLC

CONSTANTS r1, r2, r3

Requests2 == {r1, r2}
Requests3 == {r1, r2, r3}

AllProviders     == {"openai", "anthropic", "llama"}
ManagedProviders == {"openai", "anthropic"}

RouterRoutes  == {Route(q) : q \in Query}
\* The same without the local model.
ManagedRoutes == {SubSeq(route, 1, 2) : route \in RouterRoutes}

\* No LLAMA_API_URL.
LocalExtractive  == {"llama"}
None == {}

RequestSymmetry == Permutations(Requests)

=============================================================================
