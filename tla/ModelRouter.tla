----------------------------- MODULE ModelRouter -----------------------------
(***************************************************************************)
(* The rules-based router (orchestration/router.py).                       *)
(*                                                                         *)
(* Abstraction: a query is the explicit type its sender gave ("none" when  *)
(* absent or empty) and which of the router's patterns its text matches.   *)
(***************************************************************************)

QueryType == {"legal_research", "drafting", "case_law",
              "statutory_interpretation", "complex_analysis"}

\* An explicit type is a QueryType or any other string ("other").
Query == [explicit  : QueryType \cup {"other", "none"},
          drafting  : BOOLEAN,      \* _DRAFTING_RE matches
          caseLaw   : BOOLEAN,      \* _CASE_LAW_RE matches
          statutory : BOOLEAN,      \* _STATUTORY_RE matches
          long      : BOOLEAN]      \* more than 80 words

Classify(q) ==
    CASE q.explicit # "none" -> q.explicit
      [] q.explicit = "none" /\ q.drafting -> "drafting"
      [] q.explicit = "none" /\ ~q.drafting /\ q.caseLaw -> "case_law"
      [] q.explicit = "none" /\ ~q.drafting /\ ~q.caseLaw /\ q.statutory
            -> "statutory_interpretation"
      [] OTHER -> IF q.long THEN "complex_analysis" ELSE "legal_research"

\* Mutant: the extractive adapter is tried before the second managed model.
Route_LlamaSecond(q) ==
    IF Classify(q) \in {"case_law", "complex_analysis",
                        "statutory_interpretation"}
    THEN <<"anthropic", "llama", "openai">>
    ELSE <<"openai", "llama", "anthropic">>

Route(q) ==
    IF Classify(q) \in {"case_law", "complex_analysis",
                        "statutory_interpretation"}
    THEN <<"anthropic", "openai", "llama">>
    ELSE <<"openai", "anthropic", "llama">>

=============================================================================
