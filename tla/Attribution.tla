---------------------------- MODULE Attribution ----------------------------
(***************************************************************************)
(* A query after its retrieval: AttributionService (attribution/           *)
(* service.py) in QueryService.query (api/query_service.py), with the      *)
(* numbering of sources in the prompt (orchestration/prompts.py) and in    *)
(* the two answers that are made without a model.                          *)
(*                                                                         *)
(* Abstraction: scores are gone, results come in any order; an answer is   *)
(* the set of source numbers it cites.                                     *)
(***************************************************************************)
EXTENDS Integers, Sequences, Functions

CONSTANTS
    Asked,          \* values of max_citations that clients may send
    RetrievalLimit, \* settings.retrieval_limit
    Quoted          \* n for which a text of the corpus has "Cn" in it

\* The schema admits 1 to 12.
ASSUME AttributionConfig ==
    /\ Asked \subseteq Nat \ {0}
    /\ RetrievalLimit \in Nat
    /\ Quoted \subseteq Nat

VARIABLES
    index,      \* the chunks that search may find
    phase,      \* "idle", "citing", "prompting", "asking" or "answered"
    max,        \* the client's max_citations
    results,    \* what retrieve returned
    rank,       \* the result build_citations looks at
    seen,       \* documents and sections it has cited
    citations,
    blocks,     \* context_blocks
    source,     \* who wrote the answer
    cited,      \* cited_source_ids
    unsupported \* unsupported_source_ids

queryVars == <<phase, max, results, rank, seen, citations, blocks, source,
               cited, unsupported>>
attributionVars == <<index, queryVars>>

-----------------------------------------------------------------------------
Smaller(a, b) == IF a < b THEN a ELSE b
Larger(a, b)  == IF a < b THEN b ELSE a

\* RetrievalService.retrieve: filters, an approximate index and the cut-offs of
\* hybrid_search and rerank leave some of the chunks, each once.
Rankings(limit) ==
    UNION {{s \in [1..n -> index] : IsInjective(s)} : n \in 0..limit}

NoQuery ==
    /\ phase = "idle"
    /\ max = 1
    /\ results = <<>>
    /\ rank = 1
    /\ seen = {}
    /\ citations = <<>>
    /\ blocks = <<>>
    /\ source = "nobody"
    /\ cited = {}
    /\ unsupported = {}

\* A query at its start, with nothing of another one.
Begin(p, m, rs) ==
    /\ phase' = p
    /\ max' = m
    /\ results' = rs
    /\ rank' = 1
    /\ seen' = {}
    /\ citations' = <<>>
    /\ blocks' = <<>>
    /\ source' = "nobody"
    /\ cited' = {}
    /\ unsupported' = {}
    /\ UNCHANGED index

\* QueryService.query, up to the loop of build_citations.
Retrieve ==
    /\ phase = "idle"
    /\ \E m \in Asked : \E rs \in Rankings(Larger(m, RetrievalLimit)) :
          Begin("citing", m, rs)

\* Mutant: sections are told apart by their label alone.
Key_SectionOnly(result) == <<result.section>>

Key(result) == <<result.document_id, result.section>>

\* build_citations: a result whose section is cited already.
PassOver ==
    /\ phase = "citing"
    /\ rank \in DOMAIN results
    /\ Key(results[rank]) \in seen
    /\ rank' = rank + 1
    /\ UNCHANGED <<index, phase, max, results, seen, citations, blocks, source,
                   cited, unsupported>>

\* build_citations: the best result of its section.
Cite ==
    /\ phase = "citing"
    /\ rank \in DOMAIN results
    /\ LET result == results[rank]
       IN /\ Key(result) \notin seen
          /\ seen' = seen \union {Key(result)}
          /\ citations' = Append(citations,
                [citation_id |-> Len(citations) + 1,
                 doc_id      |-> result.document_id,
                 chunk_id    |-> result.chunk_id,
                 section     |-> result.section,
                 rank        |-> rank])
    /\ IF Len(citations') >= max THEN phase' = "prompting" /\ rank' = rank
                                 ELSE phase' = phase /\ rank' = rank + 1
    /\ UNCHANGED <<index, max, results, blocks, source, cited, unsupported>>

EndOfResults ==
    /\ phase = "citing"
    /\ rank \notin DOMAIN results
    /\ phase' = "prompting"
    /\ UNCHANGED <<index, max, results, rank, seen, citations, blocks, source,
                   cited, unsupported>>

\* Mutant: the blocks are the results (the branch for citations = None).
ContextBlocks_OfResults(n) ==
    [i \in 1..Smaller(n, Len(results)) |->
        [citation_id |-> i, result |-> results[i]]]

\* context_blocks: the results behind the citations.  The branch for a citation
\* whose chunk is not among the results is never taken.
ContextBlocks(n) ==
    [i \in 1..Smaller(n, Len(citations)) |->
        [citation_id |-> citations[i].citation_id,
         result |-> CHOOSE r \in Range(results) :
                       r.chunk_id = citations[i].chunk_id]]

Prompt ==
    /\ phase = "prompting"
    /\ blocks' = ContextBlocks(RetrievalLimit)
    /\ phase' = "asking"
    /\ UNCHANGED <<index, max, results, rank, seen, citations, source, cited,
                   unsupported>>

\* The blocks that _extractive_response and _graceful_fallback number themselves.
Numbered == 1..Smaller(4, Len(blocks))

\* What an answer cites, for the regular expression that looks for it.  A model
\* writes what it likes; the other two quote the blocks' texts, and what there
\* looks like a citation counts as one.
Answers(s) ==
    CASE s = "model"   -> SUBSET (1..(Len(citations) + 1))
      [] blocks = <<>> -> {{}}
      [] OTHER         -> {Numbered \union q : q \in SUBSET Quoted}

\* Mutant: what was retrieved counts as a source.
Unsupported_ByResults(ids) == ids \ DOMAIN results

\* validate_answer_citations.
Unsupported(ids) == ids \ {c.citation_id : c \in Range(citations)}

\* generate returns, the answer is validated.
Answer ==
    /\ phase = "asking"
    /\ source' \in {"model", "extractive", "fallback"}
    /\ cited' \in Answers(source')
    /\ unsupported' = Unsupported(cited')
    /\ phase' = "answered"
    /\ UNCHANGED <<index, max, results, rank, seen, citations, blocks>>

\* The response is out.
Respond == phase = "answered" /\ Begin("idle", 1, <<>>)

AttributionNext ==
    \/ Retrieve \/ PassOver \/ Cite \/ EndOfResults \/ Prompt \/ Answer \/ Respond

-----------------------------------------------------------------------------
(***************************************************************************)
(* Properties                                                              *)
(***************************************************************************)
Cited == phase \in {"prompting", "asking", "answered"}

\* Citations are numbered from one.  Each is the best-ranked result of its
\* section and no section is cited twice.  They are complete: a result that is
\* not there comes after as many citations as the client asked for, or shares
\* its section with a better one that is.
CitationsSound ==
    /\ Len(citations) <= max
    /\ \A i \in DOMAIN citations :
          LET c == citations[i]
          IN /\ c.citation_id = i
             /\ c.rank \in DOMAIN results
             /\ results[c.rank].chunk_id = c.chunk_id
             /\ Key(results[c.rank]) = <<c.doc_id, c.section>>
             /\ \A m \in 1..(c.rank - 1) :
                   Key(results[m]) # <<c.doc_id, c.section>>
             /\ i > 1 => citations[i - 1].rank < c.rank
    /\ Cited => \A m \in DOMAIN results :
          \/ \E i \in DOMAIN citations :
                /\ Key(results[m]) = <<citations[i].doc_id, citations[i].section>>
                /\ citations[i].rank <= m
          \/ Len(citations) = max /\ citations[max].rank < m

\* The prompt and the answers made without a model number the blocks 1, 2, ... by
\* their place (build_user_prompt), the response numbers citations: source n
\* that the model reads is the chunk the client finds under Cn.
PromptMatches ==
    \A n \in DOMAIN blocks :
        /\ n \in DOMAIN citations
        /\ blocks[n].citation_id = n
        /\ blocks[n].result.chunk_id = citations[n].chunk_id
        /\ Key(blocks[n].result) = <<citations[n].doc_id, citations[n].section>>

\* A citation that passes the validation was in the prompt, if the client asks
\* for no more citations than the prompt may have blocks; and the numbers that an
\* answer made without a model gives itself always pass.
SupportedWasShown ==
    phase = "answered" =>
        /\ max <= RetrievalLimit => cited \ unsupported \subseteq DOMAIN blocks
        /\ source # "model" => Numbered \subseteq cited \ unsupported

=============================================================================
