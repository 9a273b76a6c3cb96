----------------------------- MODULE Documents -----------------------------
(***************************************************************************)
(* From a text to a citation: ingest_document (rag/ingestion.py) chunks a  *)
(* document, has the chunks embedded in batches, and stores them next to   *)
(* those of a document that is there already; queries then cite them.      *)
(*                                                                         *)
(* Ingestions and queries that overlap are the subject of Corpus; here     *)
(* queries come after the document is stored.  A vector is the text it was *)
(* made from.                                                              *)
(***************************************************************************)
EXTENDS Chunker, Attribution

CONSTANT BatchSize  \* settings.embedding_batch_size

ASSUME DocumentsConfig == BatchSize \in Nat \ {0}

VARIABLES
    embeddings, \* of ingest_document
    stored      \* replace_document has returned

vars == <<chunkerVars, attributionVars, embeddings, stored>>

-----------------------------------------------------------------------------
\* A row of legal_chunks, joined with its document.
Row(document, chunk, embedding) ==
    [document_id |-> document,
     chunk_id    |-> <<document, chunk.chunk_index>>,
     section     |-> chunk.section,
     text        |-> chunk.words,
     embedding   |-> embedding]

\* The other document has two chunks before its first heading.
OtherRows ==
    {Row("other", [chunk_index |-> n, section |-> NoHeading, words |-> <<>>], <<>>)
        : n \in {0, 1}}

Init ==
    /\ ChunkerInit
    /\ index = OtherRows
    /\ NoQuery
    /\ embeddings = <<>>
    /\ stored = FALSE

ChunkDocument ==
    /\ ChunkerNext
    /\ UNCHANGED <<attributionVars, embeddings, stored>>

\* The texts of chunks[start : start + batch_size].
Batch ==
    LET upTo == Smaller(Len(chunks), Len(embeddings) + BatchSize)
    IN [i \in 1..(upTo - Len(embeddings)) |-> chunks[Len(embeddings) + i].words]

\* Mutant: batches are put together in the wrong order.
EmbedBatch_Prepends ==
    /\ pc = "chunked"
    /\ Len(embeddings) < Len(chunks)
    /\ embeddings' = Batch \o embeddings
    /\ UNCHANGED <<chunkerVars, attributionVars, stored>>

\* The loop over batches; embed_texts returns a vector for every text.
EmbedBatch ==
    /\ pc = "chunked"
    /\ Len(embeddings) < Len(chunks)
    /\ embeddings' = embeddings \o Batch
    /\ UNCHANGED <<chunkerVars, attributionVars, stored>>

\* replace_document: as many vectors as chunks, or it raises.
Store ==
    /\ pc = "chunked"
    /\ ~stored
    /\ Len(embeddings) = Len(chunks)
    /\ index' = index \union
                {Row("new", chunks[i], embeddings[i]) : i \in DOMAIN chunks}
    /\ stored' = TRUE
    /\ UNCHANGED <<chunkerVars, queryVars, embeddings>>

Query ==
    /\ stored
    /\ AttributionNext
    /\ UNCHANGED <<chunkerVars, embeddings, stored>>

Next == ChunkDocument \/ EmbedBatch \/ Store \/ Query

Spec == Init /\ [][Next]_vars

-----------------------------------------------------------------------------
(***************************************************************************)
(* Properties                                                              *)
(***************************************************************************)
Rows == OtherRows \union
        {Row("new", c, e) : c \in Chunk, e \in Seq(Word)}

\* Every variable has its type.
TypeOK ==
    /\ ChunkerTypes
    /\ \A row \in index \ OtherRows :
          /\ row.document_id = "new" /\ row.section \in AllLabels
          /\ row.text \in Seq(Word) /\ row.embedding \in Seq(Word)
    /\ phase \in {"idle", "citing", "prompting", "asking", "answered"}
    /\ max \in Nat \ {0}
    /\ results \in Seq(index) /\ Len(results) <= Larger(max, RetrievalLimit)
    /\ rank \in 1..(Len(results) + 1)
    /\ seen \subseteq {"new", "other"} \X AllLabels
    /\ Len(blocks) <= RetrievalLimit
    /\ source \in {"nobody", "model", "extractive", "fallback"}
    /\ cited \subseteq Nat /\ unsupported \subseteq cited
    /\ embeddings \in Seq(Seq(Word)) /\ Len(embeddings) <= Len(chunks)
    /\ stored \in BOOLEAN

\* Every stored chunk has the vector of its own text, however chunks fall into
\* batches.
OwnVector == \A row \in index : row.embedding = row.text

\* What a client is shown under a citation of the document is text of that
\* document, and stands under the heading the citation names.
CitedTextTraceable ==
    \A i \in DOMAIN citations : \A row \in index :
        row.chunk_id = citations[i].chunk_id /\ row.document_id = "new" =>
            /\ row.document_id = citations[i].doc_id
            /\ \A k \in DOMAIN row.text :
                  /\ IsWord(row.text[k])
                  /\ Under(row.text[k][1], citations[i].section)

=============================================================================
