------------------------------- MODULE Corpus -------------------------------
(***************************************************************************)
(* The legal corpus: the tables legal_documents and legal_chunks, filled   *)
(* from a directory of JSON files by ingestion processes (rag/ingestion.py,*)
(* DocumentRepository.replace_document), and searched by POST /query       *)
(* (hybrid_search).                                                        *)
(*                                                                         *)
(* replace_document is one transaction at PostgreSQL's READ COMMITTED: it  *)
(* selects the document of the same source, deletes it and inserts a new   *)
(* one with a new id.  Two transactions about one source meet at the lock  *)
(* of the row they both delete, and at the unique index on source_uri.     *)
(*                                                                         *)
(* Abstraction: a document with its chunks and embeddings is the version   *)
(* of the file it was made from; all of it becomes visible at the commit.  *)
(***************************************************************************)
EXTENDS Naturals, Sequences, FiniteSets

CONSTANTS
    Ingesters,  \* processes that run ingest_json_dir
    FileOrder,  \* the *.json files of the directory, sorted
    SourceUri,  \* file -> the source_uri in it
    MaxEdits,   \* bound: changes of a file
    MaxRuns     \* bound: runs of ingest_json_dir

CONSTANT Broken \* content that is unreadable, no JSON, or lacks a field

Files   == {FileOrder[i] : i \in 1..Len(FileOrder)}
Uris    == {SourceUri[f] : f \in Files}
Version == 0..MaxEdits
Content == Version \union {Broken}

ASSUME CorpusConfig ==
    /\ MaxEdits \in Nat /\ MaxRuns \in Nat
    /\ Files # {} /\ FileOrder \in Seq(Files) /\ DOMAIN SourceUri = Files
    /\ Broken \notin Nat

NoId == 0
Document == [id : Nat \ {NoId}, uri : Uris, version : Version]

VARIABLES
    file,       \* what each file holds
    edits,      \* how often a file was changed
    documents,  \* the committed documents
    lastId,     \* the last document id given
    ingester,   \* what each process is doing
    started,    \* how often ingest_json_dir was started
    overlapped, \* have two of its runs overlapped?
    confirmed,  \* files reported ingested since they last changed
    cited       \* the documents cited in the last answer given

corpusVars ==
    <<file, edits, documents, lastId, ingester, started, overlapped, confirmed,
      cited>>

\* A process in the middle of a directory: the files left, the content read from
\* the first of them, and the row it found for that source.
Busy == [pc : {"reading", "embedding", "selecting", "deleting", "inserting",
               "committing"},
         todo : Seq(Files), content : Content, old : Nat]

Idle == [pc |-> "idle"]

At(todo, pc, content, old) ==
    [pc |-> pc, todo |-> todo, content |-> content, old |-> old]

FileOf(w) == Head(ingester[w].todo)
UriOf(w) == SourceUri[FileOf(w)]

\* The document of a source, if there is one.
Of(uri) == {d \in documents : d.uri = uri}

Init ==
    /\ file = [f \in Files |-> 0]
    /\ edits = 0
    /\ documents = {}
    /\ lastId = NoId
    /\ ingester = [w \in Ingesters |-> Idle]
    /\ started = 0
    /\ overlapped = FALSE
    /\ confirmed = {}
    /\ cited = {}

-----------------------------------------------------------------------------
\* Somebody changes a file of the directory.
Edit(f) ==
    /\ edits < MaxEdits
    /\ edits' = edits + 1
    /\ file' \in {[file EXCEPT ![f] = edits + 1], [file EXCEPT ![f] = Broken]}
    /\ confirmed' = confirmed \ {f}
    /\ UNCHANGED <<documents, lastId, ingester, started, overlapped, cited>>

\* POST /query: one SELECT, over the rows committed by now, whose citations go
\* into the answer.
Retrieve ==
    /\ \E hits \in SUBSET documents : hits # {} /\ cited' = hits
    /\ UNCHANGED <<file, edits, documents, lastId, ingester, started,
                   overlapped, confirmed>>

-----------------------------------------------------------------------------
Start(w) ==
    /\ ingester[w] = Idle
    /\ started < MaxRuns
    /\ started' = started + 1
    /\ overlapped' = (overlapped \/ \E v \in Ingesters : ingester[v] # Idle)
    /\ ingester' = [ingester EXCEPT ![w] =
                      At(FileOrder, "reading", Broken, NoId)]
    /\ UNCHANGED <<file, edits, documents, lastId, confirmed, cited>>

\* Mutant: the loop comes back to the file that failed.
NextFile_Again(w) ==
    ingester' = [ingester EXCEPT ![w] =
                   At(ingester[w].todo, "reading", Broken, NoId)]

\* The for loop goes on with the next file.
NextFile(w) ==
    LET rest == Tail(ingester[w].todo) IN
    ingester' = [ingester EXCEPT ![w] =
                   IF rest = <<>> THEN Idle
                   ELSE At(rest, "reading", Broken, NoId)]

Goes(w, pc, content, old) ==
    /\ ingester' = [ingester EXCEPT ![w] = At(@.todo, pc, content, old)]
    /\ UNCHANGED <<file, edits, documents, lastId, started, overlapped,
                   confirmed, cited>>

\* Mutant: the payload is not validated.
Read_Unchecked(w) ==
    /\ ingester[w].pc = "reading"
    /\ Goes(w, "embedding", file[FileOf(w)], NoId)

\* read_text, json.loads, _validate_payload.
Read(w) ==
    /\ ingester[w].pc = "reading"
    /\ file[FileOf(w)] # Broken
    /\ Goes(w, "embedding", file[FileOf(w)], NoId)

\* All batches of chunks are embedded.
Embed(w) ==
    /\ ingester[w].pc = "embedding"
    /\ Goes(w, "selecting", ingester[w].content, NoId)

\* The SELECT of the document with the same source_uri.
Select(w) ==
    /\ ingester[w].pc = "selecting"
    /\ \/ Of(UriOf(w)) = {} /\ Goes(w, "inserting", ingester[w].content, NoId)
       \/ \E d \in Of(UriOf(w)) :
             Goes(w, "deleting", ingester[w].content, d.id)

\* A transaction that deleted a row, or inserted one, holds it until it ends.
Deleted(w, d) ==
    ingester[w].pc \in {"inserting", "committing"} /\ ingester[w].old = d.id
Inserted(w, uri) == ingester[w].pc = "committing" /\ UriOf(w) = uri

\* Mutant: the deletion is committed by itself.
Delete_Commits(w) ==
    /\ ingester[w].pc = "deleting"
    /\ documents' = {d \in documents : d.id # ingester[w].old}
    /\ ingester' = [ingester EXCEPT ![w] =
                      At(@.todo, "inserting", @.content, @.old)]
    /\ UNCHANGED <<file, edits, lastId, started, overlapped, confirmed, cited>>

\* DELETE ... WHERE id = existing.id waits for the row's lock.  When the row is
\* gone by then it deletes nothing, and nobody looks at the row count.
Delete(w) ==
    /\ ingester[w].pc = "deleting"
    /\ \A d \in documents, v \in Ingesters \ {w} :
          d.id = ingester[w].old => ~Deleted(v, d)
    /\ Goes(w, "inserting", ingester[w].content, ingester[w].old)

\* The unique index makes the INSERT wait for a transaction that deleted or
\* inserted a row of the same source.
InsertMayGo(w) ==
    \A v \in Ingesters \ {w} :
        /\ ~Inserted(v, UriOf(w))
        /\ \A d \in Of(UriOf(w)) : ~Deleted(v, d)

Conflicts(w) == \E d \in Of(UriOf(w)) : d.id # ingester[w].old

\* Mutant: no unique constraint on source_uri.
Insert_NotUnique(w) ==
    /\ ingester[w].pc = "inserting"
    /\ Goes(w, "committing", ingester[w].content, ingester[w].old)

\* The INSERT of the document; the chunks follow.  Fails on a duplicate.
Insert(w) ==
    /\ ingester[w].pc = "inserting"
    /\ InsertMayGo(w)
    /\ ~Conflicts(w)
    /\ Goes(w, "committing", ingester[w].content, ingester[w].old)

\* Mutant: a source that is there already is left alone.
Commit_KeepsOld(w) ==
    /\ ingester[w].pc = "committing"
    /\ \/ /\ Of(UriOf(w)) # {}
          /\ UNCHANGED <<documents, lastId>>
       \/ /\ Of(UriOf(w)) = {}
          /\ lastId' = lastId + 1
          /\ documents' = documents \union
               {[id |-> lastId', uri |-> UriOf(w),
                 version |-> ingester[w].content]}
    /\ confirmed' = IF file[FileOf(w)] = ingester[w].content
                    THEN confirmed \union {FileOf(w)} ELSE confirmed
    /\ NextFile(w)
    /\ UNCHANGED <<file, edits, started, overlapped, cited>>

\* The transaction commits; the connection may be lost before it says so, and
\* the file is then reported as failed.
Commit(w) ==
    /\ ingester[w].pc = "committing"
    /\ lastId' = lastId + 1
    /\ documents' =
         {d \in documents : d.id # ingester[w].old} \union
         {[id |-> lastId', uri |-> UriOf(w), version |-> ingester[w].content]}
    /\ confirmed' \in
         {confirmed,
          IF file[FileOf(w)] = ingester[w].content
          THEN confirmed \union {FileOf(w)} ELSE confirmed}
    /\ NextFile(w)
    /\ UNCHANGED <<file, edits, started, overlapped, cited>>

\* An invalid file, or a duplicate source: the exception is logged, the
\* transaction rolled back, the file reported as failed, and the loop goes on.
Reject(w) ==
    /\ \/ ingester[w].pc = "reading" /\ file[FileOf(w)] = Broken
       \/ ingester[w].pc = "inserting" /\ InsertMayGo(w) /\ Conflicts(w)
    /\ NextFile(w)
    /\ UNCHANGED <<file, edits, documents, lastId, started, overlapped,
                   confirmed, cited>>

\* The same when a call to the provider or the database fails.
Fail(w) ==
    /\ ingester[w] # Idle
    /\ ingester[w].pc # "reading"
    /\ NextFile(w)
    /\ UNCHANGED <<file, edits, documents, lastId, started, overlapped,
                   confirmed, cited>>

\* The process is killed; the server rolls its transaction back.
Kill(w) ==
    /\ ingester[w] # Idle
    /\ ingester' = [ingester EXCEPT ![w] = Idle]
    /\ UNCHANGED <<file, edits, documents, lastId, started, overlapped,
                   confirmed, cited>>

Step(w) ==
    Read(w) \/ Embed(w) \/ Select(w) \/ Delete(w) \/ Insert(w) \/ Commit(w)
      \/ Reject(w)

Next ==
    \/ \E f \in Files : Edit(f)
    \/ Retrieve
    \/ \E w \in Ingesters : Start(w) \/ Step(w) \/ Fail(w) \/ Kill(w)

Spec == Init /\ [][Next]_corpusVars

\* Every call to the file system, the embedding provider and the database
\* returns once the locks it waits for are free.  Nothing has to fail.
FairSpec == Spec /\ \A w \in Ingesters : WF_corpusVars(Step(w))

-----------------------------------------------------------------------------
\* Every variable has its type, and ids are never given twice.
TypeOK ==
    /\ file \in [Files -> Content]
    /\ edits \in 0..MaxEdits
    /\ documents \subseteq Document
    /\ lastId \in Nat
    /\ \A d \in documents : d.id <= lastId
    /\ ingester \in [Ingesters -> Busy \union {Idle}]
    /\ started \in 0..MaxRuns
    /\ overlapped \in BOOLEAN
    /\ confirmed \subseteq Files
    /\ cited \subseteq Document

\* However many ingestions overlap, a source has at most one document: a search
\* never returns two versions of it.
OneDocumentPerSource == \A d, e \in documents : d.uri = e.uri => d = e

\* However ingestions overlap, fail or are killed, the transactions of
\* replace_document replace the document of a source at once: a search finds the
\* old one or the new one, and a source that can be found stays findable.
Table == INSTANCE SourceTable WITH Versions <- Version
ReplacesAtomically == Table!Spec

\* As long as ingestions do not overlap, a file reported as ingested, and not
\* changed since, is what the corpus holds for its source, whatever failed or was
\* killed before.  (Of two at once the one that read the file first may commit
\* last.)
InSync ==
    ~overlapped => \A f \in confirmed :
        \E d \in Of(SourceUri[f]) : d.version = file[f]

\* A run over the directory ends: files that fail do not stop it, and ingestions
\* that wait for each other's locks do not wait forever.
IngestionEnds == \A w \in Ingesters : ingester[w] # Idle ~> ingester[w] = Idle

\* README.md:36: "every claim links back to doc_id": the documents cited in the
\* last answer can be found under the id the citation gives.
CitationsResolve == \A d \in cited : \E e \in documents : e.id = d.id

=============================================================================
