-------------------------- MODULE MCEmbeddingCache --------------------------
(***************************************************************************)
(* Small instances of EmbeddingCache.                                      *)
(***************************************************************************)
EXTENDS EmbeddingCache

CONSTANTS r1, r2, hash, small, large, a, b, c

TwoRequests  == {r1, r2}
ThreeTexts   == {a, b, c}
\* Queries have one text; the document has three chunks, one of them twice.
QueryAndDocument == [r \in TwoRequests |-> IF r = r1 THEN {<<a>>, <<b>>}
                                                    ELSE {<<b, c, b>>}]
AllConfigs   == {hash, small, large}
HashProvider == {hash}
\* Two OpenAI models with the same number of dimensions.
ClassOf      == [x \in AllConfigs |-> IF x = hash THEN "hash" ELSE "openai"]

=============================================================================
