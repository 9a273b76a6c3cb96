-------------------------- MODULE ProviderAdapters --------------------------
(***************************************************************************)
(* What the three adapters (adapters/openai.py, anthropic.py, llama.py)    *)
(* and normalize_answer turn a provider's reply into: an answer, or one of *)
(* the two classes of exception LLMOrchestrator.generate tells apart.      *)
(*                                                                         *)
(* Abstraction: a reply is its kind, never its text.                       *)
(***************************************************************************)

CONSTANT Managed    \* the providers behind the OpenAI and Anthropic adapters

\* text          2xx, the expected shape, text that normalize_answer accepts
\* untidy        the same, but json.loads in normalize_answer fails with
\*               something other than JSONDecodeError (nesting too deep, an
\*               integer too long)
\* blank         2xx, the expected shape, no text in it
\* reshaped      2xx, JSON whose shape fails a check the parser makes or an
\*               exception it expects (KeyError, IndexError, TypeError)
\* mistyped      2xx, JSON with another type where the parser calls .get or
\*               .items: an AttributeError, which no parser expects
\* not_json      2xx, not JSON
\* rejected      4xx other than 429
\* throttled     429
\* server_error  5xx
\* timed_out     httpx.TimeoutException
\* unreachable   any other httpx.TransportError
Replies == {"text", "untidy", "blank", "reshaped", "mistyped", "not_json",
            "rejected", "throttled", "server_error", "timed_out", "unreachable"}

\* answered       generate returns and the answer is normalized
\* garbled        generate returns, normalize_answer raises
\* deterministic  NonRetryableError, ProviderUnavailable, APIDriftError
\* transient      every other Exception
Outcomes == {"answered", "garbled", "deterministic", "transient"}

\* _handle_http_error: a 4xx other than 429 is a NonRetryableError.
HttpError(status) == IF status = "rejected" THEN "deterministic" ELSE "transient"

\* normalize_answer: a text that is not JSON, or JSON of any shape, is an answer,
\* and so is no text at all; only what json.loads chokes on otherwise is raised.
Normalized(text) == IF text = "untidy" THEN "garbled" ELSE "answered"

ManagedOutcome(reply) ==
    CASE reply \in {"text", "untidy"}       -> Normalized(reply)
      [] reply \in {"blank", "reshaped"}    -> "deterministic"
      [] reply \in {"rejected", "throttled", "server_error"} -> HttpError(reply)
      [] OTHER                              -> "transient"

\* The Llama adapter accepts an empty text and has no NonRetryableError: a
\* 4xx leaves raise_for_status as an HTTPStatusError.
LlamaOutcome(reply) ==
    CASE reply \in {"text", "untidy", "blank"} -> Normalized(reply)
      [] reply = "reshaped"                    -> "deterministic"
      [] OTHER                                 -> "transient"

\* Which adapter a provider has.
Outcome(p, reply) ==
    IF p \in Managed THEN ManagedOutcome(reply) ELSE LlamaOutcome(reply)

=============================================================================
