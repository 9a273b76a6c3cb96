---------------------------- MODULE Corpus_proofs ----------------------------
(***************************************************************************)
(* Theorems about Corpus, for any number of ingestion processes, files and *)
(* sources, edits and runs.                                                *)
(***************************************************************************)
EXTENDS Corpus, TLAPS

-----------------------------------------------------------------------------
(***************************************************************************)
(* The inductive invariant.                                                *)
(***************************************************************************)
\* An id belongs to one document.
UniqueIds == \A d, e \in documents : d.id = e.id => d = e

\* The file an ingester read was no broken one, and the row it found is of its
\* source, as long as it is there.
MidFile(w) ==
    ingester[w] # Idle =>
        /\ ingester[w].todo # <<>>
        /\ ingester[w].pc # "reading" => ingester[w].content \in Version
        /\ ingester[w].old <= lastId
        /\ \A d \in documents : d.id = ingester[w].old => d.uri = UriOf(w)

\* An ingester that has inserted its document is the only one for its source,
\* and the one it replaces is the only one there.
HoldsSource(w) ==
    ingester[w].pc = "committing" =>
        /\ \A d \in Of(UriOf(w)) : d.id = ingester[w].old
        /\ \A v \in Ingesters : Inserted(v, UriOf(w)) => v = w

Inv ==
    /\ TypeOK
    /\ UniqueIds
    /\ OneDocumentPerSource
    /\ \A w \in Ingesters : MidFile(w)
    /\ \A w \in Ingesters : HoldsSource(w)

-----------------------------------------------------------------------------
(***************************************************************************)
(* How an ingester goes on.                                                *)
(***************************************************************************)
\* Every way to go on with a file, or with the next one, leaves an ingester
\* something it can be.
LEMMA AtBusy ==
    ASSUME NEW todo \in Seq(Files), NEW content \in Content, NEW old \in Nat,
           NEW pc \in {"reading", "embedding", "selecting", "deleting", "inserting",
                       "committing"}
    PROVE  /\ At(todo, pc, content, old) \in Busy
           /\ At(todo, pc, content, old) # Idle
           /\ At(todo, pc, content, old).pc = pc
           /\ At(todo, pc, content, old).todo = todo
           /\ At(todo, pc, content, old).old = old
           /\ At(todo, pc, content, old).content = content
  <1>1. At(todo, pc, content, old).pc # Idle.pc
    BY DEF At, Idle
  <1> QED BY <1>1 DEF At, Busy

LEMMA BusyFields ==
    ASSUME TypeOK, NEW w \in Ingesters, ingester[w] # Idle
    PROVE  /\ ingester[w] \in Busy
           /\ ingester[w].todo \in Seq(Files)
           /\ ingester[w].content \in Content /\ ingester[w].old \in Nat
  BY DEF TypeOK, Busy

LEMMA IdleElsewhere == Idle.pc = "idle"
  BY DEF Idle

LEMMA SourceOfFile ==
    ASSUME Inv, NEW w \in Ingesters, ingester[w] # Idle
    PROVE  FileOf(w) \in Files /\ UriOf(w) \in Uris
  <1>1. ingester[w].todo \in Seq(Files) /\ ingester[w].todo # <<>>
    BY BusyFields DEF Inv, MidFile
  <1>2. FileOf(w) \in Files
    BY <1>1 DEF FileOf
  <1> QED BY <1>2 DEF UriOf, Uris

\* NextFile leaves an ingester idle or about to read, and the others alone.
LEMMA NextFileShape ==
    ASSUME Inv, NEW w \in Ingesters, ingester[w] # Idle, NextFile(w)
    PROVE  /\ ingester' \in [Ingesters -> Busy \union {Idle}]
           /\ ingester'[w].pc \in {"idle", "reading"}
           /\ ingester'[w] # Idle => /\ ingester'[w].todo # <<>>
                                     /\ ingester'[w].old = NoId
                                     /\ ingester'[w].pc = "reading"
           /\ \A v \in Ingesters \ {w} : ingester'[v] = ingester[v]
  <1> DEFINE rest == Tail(ingester[w].todo)
  <1>1. ingester \in [Ingesters -> Busy \union {Idle}]
    BY DEF Inv, TypeOK
  <1>2. rest \in Seq(Files)
    BY BusyFields DEF Inv, MidFile
  <1>3. Broken \in Content /\ NoId \in Nat
    BY DEF Content, NoId
  <1>4. CASE rest = <<>>
    BY <1>1, <1>4, IdleElsewhere DEF NextFile
  <1>5. CASE rest # <<>>
    <2>1. ingester' = [ingester EXCEPT ![w] = At(rest, "reading", Broken, NoId)]
      BY <1>5 DEF NextFile
    <2> HIDE DEF rest
    <2> QED BY <1>1, <1>2, <1>3, <1>5, <2>1, AtBusy
  <1> QED BY <1>4, <1>5

\* Goes keeps the directory and the place in it.
LEMMA GoesShape ==
    ASSUME Inv, NEW w \in Ingesters, ingester[w] # Idle,
           NEW pc \in {"embedding", "selecting", "deleting", "inserting", "committing"},
           NEW content \in Version, NEW old \in Nat, Goes(w, pc, content, old)
    PROVE  /\ ingester' \in [Ingesters -> Busy \union {Idle}]
           /\ ingester'[w] # Idle /\ ingester'[w].pc = pc
           /\ ingester'[w].old = old /\ ingester'[w].content = content
           /\ ingester'[w].todo = ingester[w].todo
           /\ \A v \in Ingesters \ {w} : ingester'[v] = ingester[v]
  <1>1. /\ ingester \in [Ingesters -> Busy \union {Idle}]
        /\ ingester[w].todo \in Seq(Files)
    BY BusyFields DEF Inv, TypeOK
  <1>2. ingester' = [ingester EXCEPT ![w] = At(ingester[w].todo, pc, content, old)]
    BY DEF Goes
  <1>3. content \in Content
    BY DEF Content
  <1> QED BY <1>1, <1>2, <1>3, AtBusy

-----------------------------------------------------------------------------
(***************************************************************************)
(* Steps that leave the documents alone.                                   *)
(***************************************************************************)
\* What remains to show of one: the ingester that takes it.
LEMMA LocalStep ==
    ASSUME Inv, NEW w \in Ingesters, UNCHANGED <<documents, lastId>>,
           ingester' \in [Ingesters -> Busy \union {Idle}],
           \A v \in Ingesters \ {w} : ingester'[v] = ingester[v],
           MidFile(w)', HoldsSource(w)',
           ingester'[w].pc = "committing" =>
               \A v \in Ingesters \ {w} : ~Inserted(v, UriOf(w)'),
           file' \in [Files -> Content], edits' \in 0..MaxEdits,
           started' \in 0..MaxRuns, overlapped' \in BOOLEAN,
           confirmed' \subseteq Files, cited' \subseteq Document
    PROVE  Inv'
  <1>1. TypeOK'
    BY DEF Inv, TypeOK
  <1>2. UniqueIds' /\ OneDocumentPerSource'
    BY DEF Inv, UniqueIds, OneDocumentPerSource
  <1>3. ASSUME NEW v \in Ingesters \ {w} PROVE MidFile(v)'
    BY <1>3 DEF Inv, MidFile, UriOf, FileOf
  <1>4. ASSUME NEW v \in Ingesters \ {w} PROVE HoldsSource(v)'
    <2> SUFFICES ASSUME ingester'[v].pc = "committing"
                 PROVE  /\ \A d \in Of(UriOf(v))' : d.id = ingester'[v].old
                        /\ \A u \in Ingesters : Inserted(u, UriOf(v))' => u = v
      BY DEF HoldsSource
    <2>1. ingester'[v] = ingester[v] /\ HoldsSource(v) /\ UriOf(v)' = UriOf(v)
      BY <1>4 DEF Inv, UriOf, FileOf
    <2>2. \A d \in Of(UriOf(v))' : d.id = ingester'[v].old
      BY <2>1 DEF HoldsSource, Of
    <2>3. ASSUME NEW u \in Ingesters, Inserted(u, UriOf(v))' PROVE u = v
      <3>1. CASE u = w
        BY <2>1, <2>3, <3>1 DEF Inserted
      <3>2. CASE u # w
        BY <2>1, <2>3, <3>2 DEF Inserted, HoldsSource, UriOf, FileOf
      <3> QED BY <3>1, <3>2
    <2> QED BY <2>2, <2>3
  <1> QED BY <1>1, <1>2, <1>3, <1>4 DEF Inv

\* An ingester that goes idle, or on to a file, holds nothing.
LEMMA NextFileKeeps ==
    ASSUME Inv, NEW w \in Ingesters, ingester[w] # Idle, NextFile(w),
           UNCHANGED <<file, edits, documents, lastId, started, overlapped,
                       confirmed, cited>>
    PROVE  Inv'
  <1>1. /\ ingester' \in [Ingesters -> Busy \union {Idle}]
        /\ ingester'[w].pc \in {"idle", "reading"}
        /\ ingester'[w] # Idle => /\ ingester'[w].todo # <<>>
                                  /\ ingester'[w].old = NoId
                                  /\ ingester'[w].pc = "reading"
        /\ \A v \in Ingesters \ {w} : ingester'[v] = ingester[v]
    BY NextFileShape
  <1>2. \A d \in documents : d.id # NoId
    BY DEF Inv, TypeOK, Document
  <1>3. MidFile(w)'
    BY <1>1, <1>2 DEF MidFile, Inv, TypeOK, NoId
  <1>4. HoldsSource(w)'
    BY <1>1 DEF HoldsSource
  <1> QED BY <1>1, <1>3, <1>4, LocalStep DEF Inv, TypeOK

-----------------------------------------------------------------------------
(***************************************************************************)
(* The actions.                                                            *)
(***************************************************************************)
\* A step of replace_document, or before it, that goes on with the file.
LEMMA GoesKeeps ==
    ASSUME Inv, NEW w \in Ingesters, ingester[w] # Idle,
           NEW pc \in {"embedding", "selecting", "deleting", "inserting", "committing"},
           NEW content \in Version, NEW old \in Nat, Goes(w, pc, content, old),
           old <= lastId,
           \A d \in documents : d.id = old => d.uri = UriOf(w),
           pc = "committing" =>
               /\ \A d \in Of(UriOf(w)) : d.id = old
               /\ \A v \in Ingesters \ {w} : ~Inserted(v, UriOf(w))
    PROVE  Inv'
  <1>1. /\ ingester' \in [Ingesters -> Busy \union {Idle}]
        /\ ingester'[w] # Idle /\ ingester'[w].pc = pc
        /\ ingester'[w].old = old /\ ingester'[w].content = content
        /\ ingester'[w].todo = ingester[w].todo
        /\ \A v \in Ingesters \ {w} : ingester'[v] = ingester[v]
    BY GoesShape
  <1>2. UNCHANGED <<file, edits, documents, lastId, started, overlapped, confirmed, cited>>
    BY DEF Goes
  <1>3. UriOf(w)' = UriOf(w)
    BY <1>1 DEF UriOf, FileOf
  <1>4. MidFile(w)'
    BY <1>1, <1>2, <1>3 DEF Inv, MidFile
  <1>5. HoldsSource(w)'
    BY <1>1, <1>2, <1>3 DEF HoldsSource, Of, Inserted, UriOf, FileOf
  <1> QED BY <1>1, <1>2, <1>3, <1>4, <1>5, LocalStep DEF Inv, TypeOK

LEMMA StartKeeps ==
    ASSUME Inv, NEW w \in Ingesters, Start(w)
    PROVE  Inv'
  <1>1. /\ ingester \in [Ingesters -> Busy \union {Idle}]
        /\ FileOrder \in Seq(Files) /\ FileOrder # <<>>
        /\ Broken \in Content /\ NoId \in Nat
    BY CorpusConfig DEF Inv, TypeOK, Files, Content, NoId
  <1>2. /\ ingester' \in [Ingesters -> Busy \union {Idle}]
        /\ ingester'[w].pc = "reading" /\ ingester'[w].old = NoId
        /\ ingester'[w].todo # <<>>
        /\ \A v \in Ingesters \ {w} : ingester'[v] = ingester[v]
    BY <1>1, AtBusy DEF Start
  <1>3. \A d \in documents : d.id # NoId
    BY DEF Inv, TypeOK, Document
  <1>4. MidFile(w)'
    BY <1>2, <1>3 DEF MidFile, Inv, TypeOK, NoId, Start
  <1>5. HoldsSource(w)'
    BY <1>2 DEF HoldsSource
  <1>6. /\ started' \in 0..MaxRuns /\ overlapped' \in BOOLEAN
        /\ UNCHANGED <<file, edits, documents, lastId, confirmed, cited>>
    BY CorpusConfig DEF Start, Inv, TypeOK
  <1> QED BY <1>2, <1>4, <1>5, <1>6, LocalStep DEF Inv, TypeOK

LEMMA KillKeeps ==
    ASSUME Inv, NEW w \in Ingesters, Kill(w)
    PROVE  Inv'
  <1>1. /\ ingester' \in [Ingesters -> Busy \union {Idle}]
        /\ ingester'[w] = Idle
        /\ \A v \in Ingesters \ {w} : ingester'[v] = ingester[v]
    BY DEF Kill, Inv, TypeOK
  <1>2. MidFile(w)' /\ HoldsSource(w)'
    BY <1>1, IdleElsewhere DEF MidFile, HoldsSource
  <1> QED BY <1>1, <1>2, LocalStep, IdleElsewhere DEF Inv, TypeOK, Kill

\* Nothing an ingester relies on is a file, a citation or a count.
LEMMA EditKeeps ==
    ASSUME Inv,
           (\E f \in Files : Edit(f)) \/ Retrieve \/ UNCHANGED corpusVars
    PROVE  Inv'
  <1>1. /\ UNCHANGED <<documents, lastId, ingester>>
        /\ file' \in [Files -> Content] /\ edits' \in 0..MaxEdits
        /\ confirmed' \subseteq Files /\ cited' \subseteq Document
        /\ UNCHANGED <<started, overlapped>>
    <2>1. CASE \E f \in Files : Edit(f)
      <3>1. PICK f \in Files : Edit(f)
        BY <2>1
      <3>2. edits' \in 0..MaxEdits /\ edits' \in Content /\ Broken \in Content
        BY <3>1, CorpusConfig DEF Edit, Inv, TypeOK, Content, Version
      <3>3. file' \in [Files -> Content]
        BY <3>1, <3>2 DEF Edit, Inv, TypeOK
      <3> QED BY <3>1, <3>2, <3>3 DEF Edit, Inv, TypeOK
    <2>2. CASE Retrieve
      BY <2>2 DEF Retrieve, Inv, TypeOK
    <2>3. CASE UNCHANGED corpusVars
      BY <2>3 DEF corpusVars, Inv, TypeOK
    <2> QED BY <2>1, <2>2, <2>3
  <1>2. TypeOK'
    BY <1>1 DEF Inv, TypeOK
  <1>3. UniqueIds' /\ OneDocumentPerSource'
    BY <1>1 DEF Inv, UniqueIds, OneDocumentPerSource
  <1>4. ASSUME NEW w \in Ingesters PROVE MidFile(w)' /\ HoldsSource(w)'
    BY <1>1 DEF Inv, MidFile, HoldsSource, Of, Inserted, UriOf, FileOf
  <1> QED BY <1>2, <1>3, <1>4 DEF Inv

\* The commit replaces the one document of the source, if there is one, by a new
\* one; those of other sources stay.
LEMMA CommitShape ==
    ASSUME Inv, NEW w \in Ingesters, Commit(w)
    PROVE  LET new == [id |-> lastId + 1, uri |-> UriOf(w),
                       version |-> ingester[w].content]
           IN /\ new \in Document
              /\ documents' = {d \in documents : d.uri # UriOf(w)} \union {new}
              /\ ingester[w] # Idle
  <1> DEFINE new == [id |-> lastId + 1, uri |-> UriOf(w), version |-> ingester[w].content]
  <1>1. ingester[w] # Idle
    BY IdleElsewhere DEF Commit
  <1>2. ingester[w].content \in Version /\ UriOf(w) \in Uris /\ lastId \in Nat
    BY <1>1, SourceOfFile DEF Inv, TypeOK, MidFile, Commit
  <1>3. \A d \in documents : d.id = ingester[w].old <=> d.uri = UriOf(w)
    BY <1>1 DEF Inv, MidFile, HoldsSource, Of, Commit
  <1>4. documents' = {d \in documents : d.uri # UriOf(w)} \union {new}
    BY <1>3 DEF Commit
  <1>5. new \in Document
    BY <1>2 DEF Document, NoId
  <1> QED BY <1>1, <1>4, <1>5


LEMMA CommitKeeps ==
    ASSUME Inv, NEW w \in Ingesters, Commit(w)
    PROVE  Inv'
  <1> DEFINE new == [id |-> lastId + 1, uri |-> UriOf(w), version |-> ingester[w].content]
  <1>1. /\ new \in Document /\ new.id = lastId + 1 /\ new.uri = UriOf(w)
        /\ documents' = {d \in documents : d.uri # UriOf(w)} \union {new}
        /\ ingester[w] # Idle
    BY CommitShape
  <1> HIDE DEF new
  <1>2. /\ ingester' \in [Ingesters -> Busy \union {Idle}]
        /\ ingester'[w].pc \in {"idle", "reading"}
        /\ ingester'[w] # Idle => /\ ingester'[w].todo # <<>>
                                  /\ ingester'[w].old = NoId
                                  /\ ingester'[w].pc = "reading"
        /\ \A v \in Ingesters \ {w} : ingester'[v] = ingester[v]
    BY <1>1, NextFileShape DEF Commit
  <1>3. /\ documents \subseteq Document /\ lastId \in Nat /\ lastId' = lastId + 1
        /\ \A d \in documents : d.id \in Nat /\ d.id <= lastId
    BY DEF Commit, Inv, TypeOK, Document
  <1>4. TypeOK'
    <2>1. FileOf(w) \in Files
      BY <1>1, SourceOfFile
    <2>2. confirmed' \subseteq Files
      BY <2>1 DEF Commit, Inv, TypeOK
    <2>3. \A d \in documents' : d.id <= lastId'
      BY <1>1, <1>3
    <2>4. documents' \subseteq Document /\ lastId' \in Nat
      BY <1>1, <1>3
    <2> QED BY <1>2, <2>2, <2>3, <2>4 DEF Commit, Inv, TypeOK
  <1>5. UniqueIds' /\ OneDocumentPerSource'
    BY <1>1, <1>3 DEF Inv, UniqueIds, OneDocumentPerSource
  <1>6. ASSUME NEW v \in Ingesters PROVE MidFile(v)'
    <2>1. CASE v = w
      <3>1. \A d \in documents' : d.id # NoId
        BY <1>1, <1>3 DEF Document
      <3> QED BY <1>2, <1>3, <2>1, <3>1 DEF MidFile, NoId
    <2>2. CASE v # w
      <3>1. ingester'[v] = ingester[v] /\ MidFile(v) /\ UriOf(v)' = UriOf(v)
        BY <1>2, <2>2 DEF Inv, UriOf, FileOf
      <3>2. ingester[v] # Idle => ingester[v].old \in Nat /\ new.id # ingester[v].old
        BY <1>1, <1>3, <3>1, BusyFields DEF Inv, MidFile
      <3>3. ingester[v] # Idle => ingester[v].old <= lastId'
        BY <1>3, <3>1, <3>2 DEF MidFile
      <3> QED BY <1>1, <3>1, <3>2, <3>3 DEF MidFile
    <2> QED BY <2>1, <2>2
  <1>7. ASSUME NEW v \in Ingesters PROVE HoldsSource(v)'
    <2>1. CASE v = w
      BY <1>2, <2>1 DEF HoldsSource
    <2>2. CASE v # w
      <3> SUFFICES ASSUME ingester[v].pc = "committing"
                   PROVE  HoldsSource(v)'
        BY <1>2, <2>2 DEF HoldsSource
      <3>1. ingester'[v] = ingester[v] /\ HoldsSource(v) /\ UriOf(v)' = UriOf(v)
        BY <1>2, <2>2 DEF Inv, UriOf, FileOf
      <3>2. UriOf(v) # UriOf(w)
        <4>1. HoldsSource(v) /\ Inserted(w, UriOf(w))
          BY <3>1 DEF Commit, Inserted
        <4> QED BY <2>2, <4>1 DEF HoldsSource
      <3>3. \A d \in Of(UriOf(v))' : d.id = ingester'[v].old
        BY <1>1, <3>1, <3>2 DEF HoldsSource, Of
      <3>4. ASSUME NEW u \in Ingesters, Inserted(u, UriOf(v))' PROVE u = v
        <4>1. u # w
          BY <1>2, <3>4 DEF Inserted
        <4>2. Inserted(u, UriOf(v))
          BY <1>2, <3>1, <3>4, <4>1 DEF Inserted, UriOf, FileOf
        <4> QED BY <3>1, <4>2 DEF HoldsSource
      <3> QED BY <3>3, <3>4 DEF HoldsSource
    <2> QED BY <2>1, <2>2
  <1> QED BY <1>4, <1>5, <1>6, <1>7 DEF Inv

LEMMA StepKeeps ==
    ASSUME Inv, NEW w \in Ingesters, Step(w)
    PROVE  Inv'
  <1>1. CASE Read(w)
    <2>1. ingester[w] # Idle
      BY <1>1, IdleElsewhere DEF Read
    <2>2. FileOf(w) \in Files
      BY <2>1, SourceOfFile
    <2>3. file[FileOf(w)] \in Version
      BY <1>1, <2>2 DEF Read, Inv, TypeOK, Content
    <2>4. \A d \in documents : d.id # NoId
      BY DEF Inv, TypeOK, Document
    <2> QED BY <1>1, <2>1, <2>3, <2>4, GoesKeeps DEF Read, Inv, TypeOK, NoId
  <1>2. CASE Embed(w) \/ Select(w)
    <2>1. ingester[w] # Idle /\ ingester[w].content \in Version
      BY <1>2, IdleElsewhere DEF Embed, Select, Inv, MidFile
    <2>2. /\ \A d \in documents : d.id # NoId
          /\ NoId \in Nat /\ NoId <= lastId
      BY DEF Inv, TypeOK, Document, NoId
    <2>3. CASE Embed(w)
      BY <2>1, <2>2, <2>3, GoesKeeps DEF Embed
    <2>4. CASE Goes(w, "inserting", ingester[w].content, NoId)
      BY <2>1, <2>2, <2>4, GoesKeeps
    <2>5. ASSUME NEW d \in Of(UriOf(w)), Goes(w, "deleting", ingester[w].content, d.id)
          PROVE  Inv'
      <3>1. d \in documents /\ d.id \in Nat /\ d.id <= lastId /\ d.uri = UriOf(w)
        BY <2>5 DEF Of, Inv, TypeOK, Document
      <3>2. \A e \in documents : e.id = d.id => e.uri = UriOf(w)
        BY <3>1 DEF Inv, UniqueIds
      <3> QED BY <2>1, <2>5, <3>1, <3>2, GoesKeeps
    <2> QED BY <1>2, <2>3, <2>4, <2>5 DEF Select
  <1>3. CASE Delete(w) \/ Insert(w)
    <2>1. /\ ingester[w] # Idle /\ ingester[w].content \in Version
          /\ ingester[w].old \in Nat /\ ingester[w].old <= lastId
          /\ \A d \in documents : d.id = ingester[w].old => d.uri = UriOf(w)
      BY <1>3, IdleElsewhere, BusyFields DEF Delete, Insert, Inv, MidFile
    <2>2. CASE Delete(w)
      BY <2>1, <2>2, GoesKeeps DEF Delete
    <2>3. CASE Insert(w)
      <3>1. /\ \A d \in Of(UriOf(w)) : d.id = ingester[w].old
            /\ \A v \in Ingesters \ {w} : ~Inserted(v, UriOf(w))
        BY <2>3 DEF Insert, InsertMayGo, Conflicts
      <3> QED BY <2>1, <2>3, <3>1, GoesKeeps DEF Insert
    <2> QED BY <1>3, <2>2, <2>3
  <1>4. CASE Commit(w)
    BY <1>4, CommitKeeps
  <1>5. CASE Reject(w)
    BY <1>5, IdleElsewhere, NextFileKeeps DEF Reject
  <1> QED BY <1>1, <1>2, <1>3, <1>4, <1>5 DEF Step

-----------------------------------------------------------------------------
LEMMA InvInit == Init => Inv
  <1> SUFFICES ASSUME Init PROVE Inv
    OBVIOUS
  <1>1. TypeOK
    <2>1. 0 \in Content /\ 0 \in 0..MaxEdits /\ 0 \in 0..MaxRuns
      BY CorpusConfig DEF Content, Version
    <2>2. documents \subseteq Document /\ cited \subseteq Document /\ confirmed \subseteq Files
      BY DEF Init
    <2>3. file \in [Files -> Content] /\ ingester \in [Ingesters -> Busy \union {Idle}]
      BY <2>1 DEF Init
    <2> QED BY <2>1, <2>2, <2>3 DEF Init, TypeOK, NoId
  <1>2. \A w \in Ingesters : ingester[w] = Idle
    BY DEF Init
  <1>3. UniqueIds /\ OneDocumentPerSource
    BY DEF Init, UniqueIds, OneDocumentPerSource
  <1> QED BY <1>1, <1>2, <1>3, IdleElsewhere DEF Inv, MidFile, HoldsSource

LEMMA InvStep == Inv /\ [Next]_corpusVars => Inv'
  <1> SUFFICES ASSUME Inv, [Next]_corpusVars PROVE Inv'
    OBVIOUS
  <1>1. ASSUME NEW w \in Ingesters, Fail(w) PROVE Inv'
    BY <1>1, NextFileKeeps DEF Fail
  <1> QED BY <1>1, EditKeeps, StartKeeps, StepKeeps, KillKeeps DEF Next

LEMMA Invariant == Spec => []Inv
  BY InvInit, InvStep, PTL DEF Spec

\* Every variable has its type, and ids are never given twice.
THEOREM Types == Spec => []TypeOK
  BY Invariant, PTL DEF Inv

\* A source has at most one document, whatever ingestions overlap
\* (replace_document's lock on the row it deletes, and the unique index).
THEOREM OneDocument == Spec => []OneDocumentPerSource
  BY Invariant, PTL DEF Inv

\* The commit replaces, and no other step touches the table.
LEMMA CommitReplaces ==
    ASSUME Inv, NEW w \in Ingesters, Commit(w)
    PROVE  Table!Replace(UriOf(w), ingester[w].content)
  <1>1. documents' = {d \in documents : d.uri # UriOf(w)} \union
                     {[id |-> lastId + 1, uri |-> UriOf(w),
                       version |-> ingester[w].content]}
    BY CommitShape
  <1> QED BY <1>1 DEF Commit, Table!Replace

LEMMA OnlyCommits ==
    ASSUME [Next]_corpusVars
    PROVE  (\E w \in Ingesters : Commit(w)) \/ UNCHANGED <<documents, lastId>>
  BY DEF Next, Step, Edit, Retrieve, Start, Fail, Kill, Read, Embed, Select,
         Delete, Insert, Reject, Goes, corpusVars

\* The transactions of overlapping ingestions implement a table in which each
\* source's document is replaced in one step (replace_document).
THEOREM ImplementsTable == Spec => ReplacesAtomically
  <1>1. Init => Table!Init
    BY DEF Init, Table!Init, NoId
  <1>2. Inv /\ [Next]_corpusVars => [Table!Next]_<<documents, lastId>>
    <2> SUFFICES ASSUME Inv, NEW w \in Ingesters, Commit(w)
                 PROVE  Table!Next
      BY OnlyCommits
    <2>1. UriOf(w) \in Uris /\ ingester[w].content \in Version
      BY IdleElsewhere, SourceOfFile DEF Inv, MidFile, Commit
    <2>2. Table!Replace(UriOf(w), ingester[w].content)
      BY CommitReplaces
    <2> QED BY <2>1, <2>2 DEF Table!Next
  <1> QED BY <1>1, <1>2, Invariant, PTL DEF Spec, ReplacesAtomically, Table!Spec

\* A source that can be found stays findable: a re-ingestion that fails, is killed
\* halfway or loses a race leaves the document that was there.
NeverLosesSource ==
    [][\A u \in Uris : Of(u) # {} => Of(u)' # {}]_corpusVars

\* replace_document deletes and inserts in one transaction, so no step of any
\* process makes a source disappear.
THEOREM KeepsSources == Spec => NeverLosesSource
  <1>1. ASSUME NEW u \in Uris, Of(u) # {},
               NEW uri, NEW version, Table!Replace(uri, version)
        PROVE  Of(u)' # {}
    <2> DEFINE new == [id |-> lastId', uri |-> uri, version |-> version]
    <2>1. documents' = {d \in documents : d.uri # uri} \union {new} /\ new.uri = uri
      BY <1>1 DEF Table!Replace
    <2> HIDE DEF new
    <2> QED BY <1>1, <2>1 DEF Of
  <1>2. Inv /\ [Next]_corpusVars =>
            [\A u \in Uris : Of(u) # {} => Of(u)' # {}]_corpusVars
    <2> SUFFICES ASSUME Inv, [Next]_corpusVars, NEW u \in Uris, Of(u) # {}
                 PROVE  Of(u)' # {}
      OBVIOUS
    <2>1. CASE documents' = documents
      BY <2>1 DEF Of
    <2>2. ASSUME NEW w \in Ingesters, Commit(w) PROVE Of(u)' # {}
      BY <1>1, <2>2, CommitReplaces
    <2> QED BY <2>1, <2>2, OnlyCommits
  <1> QED BY <1>2, Invariant, PTL DEF Spec, NeverLosesSource

\* What a citation is worth although its id may be gone (CitationsResolve): the
\* corpus holds a document of the same source, the very one cited or a later one.
CitedSuperseded ==
    \A d \in cited : \E e \in documents :
        e.uri = d.uri /\ e.id >= d.id /\ (e.id = d.id => e = d)

\* An answer's citation stays good for its source, whatever is ingested afterwards
\* (replace_document gives the document a new, higher id).
THEOREM CitationsSuperseded == Spec => []CitedSuperseded
  <1>1. Init => CitedSuperseded
    BY DEF Init, CitedSuperseded
  <1>2. Inv /\ CitedSuperseded /\ [Next]_corpusVars => CitedSuperseded'
    <2> SUFFICES ASSUME Inv, CitedSuperseded, [Next]_corpusVars, NEW d \in cited'
                 PROVE  \E e \in documents' :
                          e.uri = d.uri /\ e.id >= d.id /\ (e.id = d.id => e = d)
      BY DEF CitedSuperseded
    <2>1. \A e \in documents : e.id \in Nat /\ e.id <= lastId
      BY DEF Inv, TypeOK, Document
    <2>2. CASE Retrieve
      <3>1. d \in documents /\ documents' = documents
        BY <2>2 DEF Retrieve
      <3> QED BY <2>1, <3>1
    <2>3. CASE cited' = cited
      <3>1. PICK e \in documents :
              e.uri = d.uri /\ e.id >= d.id /\ (e.id = d.id => e = d)
        BY <2>3 DEF CitedSuperseded
      <3>2. CASE documents' = documents
        BY <3>1, <3>2
      <3>3. ASSUME NEW w \in Ingesters, Commit(w)
            PROVE  \E g \in documents' :
                     g.uri = d.uri /\ g.id >= d.id /\ (g.id = d.id => g = d)
        <4> DEFINE new == [id |-> lastId + 1, uri |-> UriOf(w),
                           version |-> ingester[w].content]
        <4>1. /\ documents' = {g \in documents : g.uri # UriOf(w)} \union {new}
              /\ new.uri = UriOf(w) /\ new.id = lastId + 1
          BY <3>3, CommitShape
        <4>2. d.id \in Nat /\ e.id \in Nat /\ e.id <= lastId /\ lastId \in Nat
          BY <2>1, <2>3 DEF Inv, TypeOK, Document
        <4> HIDE DEF new
        <4>3. CASE e.uri = UriOf(w)
          BY <3>1, <4>1, <4>2, <4>3
        <4>4. CASE e.uri # UriOf(w)
          BY <3>1, <4>1, <4>4
        <4> QED BY <4>3, <4>4
      <3> QED BY <3>2, <3>3, OnlyCommits
    <2> QED BY <2>2, <2>3 DEF Next, Step, Edit, Start, Fail, Kill, Read, Embed, Select,
                              Delete, Insert, Commit, Reject, Goes, corpusVars
  <1> QED BY <1>1, <1>2, Invariant, PTL DEF Spec

-----------------------------------------------------------------------------
(***************************************************************************)
(* What a report of success is worth.                                      *)
(***************************************************************************)
\* One ingester at most is at work, and what it read of a file that is still
\* confirmed is what the file still holds.
Solo ==
    /\ \A v, w \in Ingesters : ingester[v] # Idle /\ ingester[w] # Idle => v = w
    /\ \A w \in Ingesters :
          /\ ingester[w].pc \notin {"idle", "reading"}
          /\ FileOf(w) \in confirmed
          => ingester[w].content = file[FileOf(w)]

OwnSources == \A f, g \in Files : SourceUri[f] = SourceUri[g] => f = g

InSyncInv == Inv /\ (~overlapped => Solo) /\ InSync

\* Nothing is forgotten while ingestions overlap, or have.
LEMMA OverlapStays == Next => (overlapped => overlapped')
  BY DEF Next, Step, Edit, Retrieve, Start, Fail, Kill, Read, Embed, Select,
         Delete, Insert, Commit, Reject, Goes

\* A step of one ingester that confirms nothing and writes nothing.
LEMMA SoloStep ==
    ASSUME InSyncInv, NEW w \in Ingesters, ~overlapped', ~overlapped,
           ingester[w] # Idle \/ \A v \in Ingesters : ingester[v] = Idle,
           \A v \in Ingesters \ {w} : ingester'[v] = ingester[v],
           UNCHANGED <<documents, file, confirmed>>,
           ingester'[w].pc \notin {"idle", "reading"} =>
               /\ FileOf(w)' = FileOf(w)
               /\ \/ ingester'[w].content = file[FileOf(w)]
                  \/ /\ ingester'[w].content = ingester[w].content
                     /\ ingester[w].pc \notin {"idle", "reading"}
    PROVE  Solo' /\ InSync'
  <1>1. \A v \in Ingesters \ {w} : ingester[v] = Idle /\ ingester'[v] = Idle
    BY DEF InSyncInv, Solo
  <1>2. Solo'
    BY <1>1, IdleElsewhere DEF InSyncInv, Solo
  <1>3. InSync'
    BY DEF InSyncInv, InSync, Of
  <1> QED BY <1>2, <1>3

LEMMA InSyncStep ==
    ASSUME OwnSources, InSyncInv, Next, ~overlapped'
    PROVE  Solo' /\ InSync'
  <1>1. ~overlapped /\ Solo /\ Inv
    BY OverlapStays DEF InSyncInv
  <1>2. CASE \E f \in Files : Edit(f)
    <2>1. PICK f \in Files : Edit(f)
      BY <1>2
    <2>2. /\ UNCHANGED <<documents, ingester, overlapped>>
          /\ confirmed' = confirmed \ {f}
          /\ \A g \in Files \ {f} : file'[g] = file[g]
      BY <2>1 DEF Edit, Inv, TypeOK, InSyncInv
    <2>3. Solo'
      BY <1>1, <2>2 DEF Solo, FileOf, Inv, TypeOK
    <2>4. InSync'
      BY <1>1, <2>2 DEF InSyncInv, InSync, Of, Inv, TypeOK
    <2> QED BY <2>3, <2>4
  <1>3. CASE Retrieve
    BY <1>1, <1>3 DEF InSyncInv, Retrieve, Solo, InSync, Of, FileOf
  <1>4. ASSUME NEW w \in Ingesters, Start(w) PROVE Solo' /\ InSync'
    <2>1. \A v \in Ingesters : ingester[v] = Idle
      BY <1>1, <1>4 DEF Start
    <2>2. ingester'[w].pc = "reading"
      BY <1>4, <2>1 DEF Start, At, Inv, TypeOK, InSyncInv
    <2>3. \A v \in Ingesters \ {w} : ingester'[v] = ingester[v]
      BY <1>1, <1>4 DEF Start, Inv, TypeOK
    <2> QED BY <1>1, <1>4, <2>1, <2>2, <2>3, SoloStep DEF Start
  <1>5. ASSUME NEW w \in Ingesters, Kill(w) PROVE Solo' /\ InSync'
    <2>1. /\ ingester'[w].pc = "idle" /\ ingester[w] # Idle
          /\ \A v \in Ingesters \ {w} : ingester'[v] = ingester[v]
      BY <1>1, <1>5, IdleElsewhere DEF Kill, Inv, TypeOK
    <2> QED BY <1>1, <1>5, <2>1, SoloStep DEF Kill
  <1>6. ASSUME NEW w \in Ingesters, Fail(w) \/ Reject(w) PROVE Solo' /\ InSync'
    <2>1. ingester[w] # Idle
      BY <1>6, IdleElsewhere DEF Fail, Reject
    <2>2. /\ ingester'[w].pc \in {"idle", "reading"}
          /\ \A v \in Ingesters \ {w} : ingester'[v] = ingester[v]
      BY <1>1, <1>6, <2>1, NextFileShape DEF Fail, Reject
    <2> QED BY <1>1, <1>6, <2>1, <2>2, SoloStep DEF Fail, Reject
  <1>7. ASSUME NEW w \in Ingesters, ingester[w] # Idle, NEW old \in Nat,
               NEW content \in Version,
               NEW pc \in {"embedding", "selecting", "deleting", "inserting", "committing"},
               Goes(w, pc, content, old),
               \/ content = file[FileOf(w)]
               \/ content = ingester[w].content /\ ingester[w].pc # "reading"
        PROVE  Solo' /\ InSync'
    <2>1. /\ ingester'[w].content = content /\ ingester'[w].todo = ingester[w].todo
          /\ \A v \in Ingesters \ {w} : ingester'[v] = ingester[v]
      BY <1>1, <1>7, GoesShape
    <2>2. UNCHANGED <<documents, file, confirmed>> /\ FileOf(w)' = FileOf(w)
      BY <1>7, <2>1 DEF Goes, FileOf
    <2>3. ingester[w].pc # "idle"
      BY <1>1, <1>7, BusyFields DEF Inv, Busy
    <2> QED BY <1>1, <1>7, <2>1, <2>2, <2>3, SoloStep
  <1>8. ASSUME NEW w \in Ingesters,
               Read(w) \/ Embed(w) \/ Select(w) \/ Delete(w) \/ Insert(w)
        PROVE  Solo' /\ InSync'
    <2>1. ingester[w] # Idle
      BY <1>8, IdleElsewhere DEF Read, Embed, Select, Delete, Insert
    <2>2. CASE Read(w)
      <3>1. file[FileOf(w)] \in Version
        BY <1>1, <2>1, <2>2, SourceOfFile DEF Read, Inv, TypeOK, Content
      <3> QED BY <1>7, <2>1, <2>2, <3>1 DEF Read, NoId
    <2>3. CASE Embed(w) \/ Select(w) \/ Delete(w) \/ Insert(w)
      <3>1. /\ ingester[w].content \in Version /\ ingester[w].pc # "reading"
            /\ ingester[w].old \in Nat
        BY <1>1, <2>1, <2>3, BusyFields
           DEF Embed, Select, Delete, Insert, Inv, MidFile
      <3>2. \A d \in documents : d.id \in Nat
        BY <1>1 DEF Inv, TypeOK, Document
      <3> QED BY <1>7, <2>1, <2>3, <3>1, <3>2
           DEF Embed, Select, Delete, Insert, NoId, Of
    <2> QED BY <1>8, <2>2, <2>3
  <1>9. ASSUME NEW w \in Ingesters, Commit(w) PROVE Solo' /\ InSync'
    <2> DEFINE f == FileOf(w)
               new == [id |-> lastId + 1, uri |-> UriOf(w),
                       version |-> ingester[w].content]
    <2>1. /\ documents' = {d \in documents : d.uri # UriOf(w)} \union {new}
          /\ new.uri = SourceUri[f] /\ new.version = ingester[w].content
          /\ ingester[w] # Idle /\ f \in Files
      BY <1>1, <1>9, CommitShape, SourceOfFile DEF UriOf
    <2> HIDE DEF new, f
    <2>2. /\ ingester'[w].pc \in {"idle", "reading"}
          /\ \A v \in Ingesters \ {w} : ingester'[v] = ingester[v]
      BY <1>1, <1>9, <2>1, NextFileShape DEF Commit
    <2>3. \A v \in Ingesters \ {w} : ingester[v] = Idle
      BY <1>1, <2>1 DEF Solo
    <2>4. Solo'
      BY <2>2, <2>3, IdleElsewhere DEF Solo
    <2>5. InSync'
      <3> SUFFICES ASSUME NEW g \in confirmed'
                   PROVE  \E d \in Of(SourceUri[g])' : d.version = file'[g]
        BY DEF InSync
      <3>1. file' = file
        BY <1>9 DEF Commit
      <3>2. CASE g = f
        <4>1. new.version = file[f]
          BY <1>1, <1>9, <2>1, <3>2 DEF Commit, Solo, f
        <4> QED BY <2>1, <3>1, <3>2, <4>1 DEF Of
      <3>3. CASE g # f
        <4>1. g \in confirmed /\ g \in Files
          BY <1>1, <1>9, <3>3 DEF Commit, f, Inv, TypeOK
        <4>2. PICK d \in documents : d.uri = SourceUri[g] /\ d.version = file[g]
          BY <1>1, <4>1 DEF InSyncInv, InSync, Of
        <4>3. SourceUri[g] # UriOf(w)
          BY <2>1, <3>3, <4>1 DEF OwnSources, UriOf, f
        <4> QED BY <2>1, <3>1, <4>2, <4>3 DEF Of
      <3> QED BY <3>2, <3>3
    <2> QED BY <2>4, <2>5
  <1> QED BY <1>2, <1>3, <1>4, <1>5, <1>6, <1>8, <1>9 DEF Next, Step

\* If no two files share a source, and ingestions do not overlap, a file reported
\* as ingested and not changed since is what the corpus holds (ingest_json_dir).
THEOREM StaysInSync ==
    ASSUME OwnSources
    PROVE  Spec => []InSync
  <1>1. Init => InSyncInv
    <2>1. Init => InSync /\ Solo
      BY IdleElsewhere DEF Init, InSync, Solo
    <2> QED BY <2>1, InvInit DEF InSyncInv
  <1>2. InSyncInv /\ [Next]_corpusVars => InSyncInv'
    <2> SUFFICES ASSUME InSyncInv, [Next]_corpusVars PROVE InSyncInv'
      OBVIOUS
    <2>1. CASE UNCHANGED corpusVars
      <3>1. (~overlapped => Solo)' /\ InSync'
        BY <2>1 DEF corpusVars, InSyncInv, InSync, Solo, Of, FileOf
      <3> QED BY <3>1, InvStep DEF InSyncInv
    <2>2. CASE Next
      <3>1. ~overlapped' => Solo' /\ InSync'
        BY <2>2, InSyncStep
      <3>2. overlapped' => InSync'
        BY DEF InSync
      <3> QED BY <3>1, <3>2, InvStep DEF InSyncInv
    <2> QED BY <2>1, <2>2
  <1> QED BY <1>1, <1>2, PTL DEF Spec, InSyncInv

-----------------------------------------------------------------------------
(***************************************************************************)
(* Locks.                                                                  *)
(***************************************************************************)
\* The locks of a document's row: it is deleted by one transaction at a time.
OneHolder ==
    \A d \in documents, v, w \in Ingesters : Deleted(v, d) /\ Deleted(w, d) => v = w

\* w waits until the transaction of v ends: for the lock of the row it deletes,
\* or for the unique index to know whether its source is taken.
WaitsFor(w, v) ==
    /\ v # w
    /\ \/ /\ ingester[w].pc = "deleting"
          /\ \E d \in documents : d.id = ingester[w].old /\ Deleted(v, d)
       \/ /\ ingester[w].pc = "inserting"
          /\ Inserted(v, UriOf(w)) \/ \E d \in Of(UriOf(w)) : Deleted(v, d)

\* Whoever is waited for waits for nobody.
NoChainOfWaits ==
    \A u, v, w \in Ingesters : WaitsFor(w, v) => ~WaitsFor(v, u)

\* An ingester that deletes nothing by this step, or whose row nobody else
\* deletes, keeps the holders apart.
LEMMA HolderLocal ==
    ASSUME OneHolder, NEW w \in Ingesters, documents' \subseteq documents,
           \A v \in Ingesters \ {w} : ingester'[v] = ingester[v],
           \A d \in documents' : Deleted(w, d)' =>
               Deleted(w, d) \/ \A v \in Ingesters \ {w} : ~Deleted(v, d)
    PROVE  OneHolder'
  <1> SUFFICES ASSUME NEW d \in documents', NEW u \in Ingesters, NEW v \in Ingesters,
                      Deleted(u, d)', Deleted(v, d)'
               PROVE  u = v
    BY DEF OneHolder
  <1>1. \A x \in Ingesters \ {w} : Deleted(x, d)' => Deleted(x, d)
    BY DEF Deleted
  <1> QED BY <1>1 DEF OneHolder

LEMMA HolderStep ==
    ASSUME Inv, OneHolder, [Next]_corpusVars
    PROVE  OneHolder'
  <1>1. \A d \in documents : d.id # NoId /\ d.id \in Nat
    BY DEF Inv, TypeOK, Document
  <1>2. ASSUME NEW w \in Ingesters, ingester[w] # Idle, NextFile(w),
               documents' = documents
        PROVE  OneHolder'
    <2>1. /\ ingester'[w].pc \in {"idle", "reading"}
          /\ \A v \in Ingesters \ {w} : ingester'[v] = ingester[v]
      BY <1>2, NextFileShape
    <2> QED BY <1>2, <2>1, HolderLocal DEF Deleted
  <1>3. ASSUME NEW w \in Ingesters, ingester[w] # Idle,
               NEW pc \in {"embedding", "selecting", "deleting", "inserting", "committing"},
               NEW content \in Version, NEW old \in Nat, Goes(w, pc, content, old),
               pc \in {"inserting", "committing"} =>
                  \A d \in documents : d.id = old =>
                     Deleted(w, d) \/ \A v \in Ingesters \ {w} : ~Deleted(v, d)
        PROVE  OneHolder'
    <2>1. /\ ingester'[w].pc = pc /\ ingester'[w].old = old
          /\ \A v \in Ingesters \ {w} : ingester'[v] = ingester[v]
      BY <1>3, GoesShape
    <2>2. documents' = documents
      BY <1>3 DEF Goes
    <2>3. \A d \in documents' : Deleted(w, d)' =>
             Deleted(w, d) \/ \A v \in Ingesters \ {w} : ~Deleted(v, d)
      BY <1>3, <2>1, <2>2 DEF Deleted
    <2> QED BY <2>1, <2>2, <2>3, HolderLocal
  <1>4. ASSUME NEW w \in Ingesters, Step(w)
        PROVE  OneHolder'
    <2>1. ingester[w] # Idle
      BY <1>4, IdleElsewhere
         DEF Step, Read, Embed, Select, Delete, Insert, Commit, Reject
    <2>2. ingester[w].pc # "reading" => ingester[w].content \in Version
      BY <2>1 DEF Inv, MidFile
    <2>3. ingester[w].old \in Nat /\ NoId \in Nat
      BY <2>1, BusyFields DEF Inv, NoId
    <2>4. CASE Read(w)
      <3>1. file[FileOf(w)] \in Version
        BY <2>1, <2>4, SourceOfFile DEF Read, Inv, TypeOK, Content
      <3> QED BY <1>3, <2>1, <2>3, <2>4, <3>1 DEF Read
    <2>5. CASE Embed(w)
      BY <1>3, <2>1, <2>2, <2>3, <2>5 DEF Embed
    <2>6. CASE Select(w)
      <3>1. CASE Goes(w, "inserting", ingester[w].content, NoId)
        BY <1>1, <1>3, <2>1, <2>2, <2>3, <2>6, <3>1 DEF Select
      <3>2. ASSUME NEW d \in Of(UriOf(w)),
                   Goes(w, "deleting", ingester[w].content, d.id)
            PROVE  OneHolder'
        <4>1. d.id \in Nat
          BY <1>1 DEF Of
        <4> QED BY <1>3, <2>1, <2>2, <2>6, <3>2, <4>1 DEF Select
      <3> QED BY <2>6, <3>1, <3>2 DEF Select
    <2>7. CASE Delete(w)
      <3>1. \A d \in documents : d.id = ingester[w].old =>
               \A v \in Ingesters \ {w} : ~Deleted(v, d)
        BY <2>7 DEF Delete
      <3> QED BY <1>3, <2>1, <2>2, <2>3, <2>7, <3>1 DEF Delete
    <2>8. CASE Insert(w)
      <3>1. \A d \in documents : d.id = ingester[w].old => Deleted(w, d)
        BY <2>8 DEF Insert, Deleted
      <3> QED BY <1>3, <2>1, <2>2, <2>3, <2>8, <3>1 DEF Insert
    <2>9. CASE Commit(w)
      <3>1. /\ ingester'[w].pc \in {"idle", "reading"}
            /\ \A v \in Ingesters \ {w} : ingester'[v] = ingester[v]
        BY <2>1, <2>9, NextFileShape DEF Commit
      <3>2. \A v \in Ingesters : ~Deleted(v, [id |-> lastId + 1, uri |-> UriOf(w),
                                              version |-> ingester[w].content])
        <4>1. \A v \in Ingesters : ingester[v] # Idle =>
                 ingester[v].old \in Nat /\ ingester[v].old <= lastId
          BY BusyFields DEF Inv, MidFile
        <4>2. lastId \in Nat
          BY DEF Inv, TypeOK
        <4> QED BY <4>1, <4>2, IdleElsewhere DEF Deleted
      <3>3. \A d \in documents', v \in Ingesters : Deleted(v, d)' =>
               v # w /\ Deleted(v, d)
        BY <3>1 DEF Deleted
      <3>4. \A d \in documents' :
               d \in documents \/ d = [id |-> lastId + 1, uri |-> UriOf(w),
                                       version |-> ingester[w].content]
        BY <2>9 DEF Commit
      <3> QED BY <3>2, <3>3, <3>4 DEF OneHolder
    <2>10. CASE Reject(w)
      BY <1>2, <2>1, <2>10 DEF Reject
    <2> QED BY <1>4, <2>4, <2>5, <2>6, <2>7, <2>8, <2>9, <2>10 DEF Step
  <1>5. ASSUME NEW w \in Ingesters, Fail(w)
        PROVE  OneHolder'
    BY <1>2, <1>5 DEF Fail
  <1>6. ASSUME NEW w \in Ingesters, Start(w) \/ Kill(w)
        PROVE  OneHolder'
    <2>1. /\ ingester'[w].pc \in {"idle", "reading"}
          /\ \A v \in Ingesters \ {w} : ingester'[v] = ingester[v]
          /\ documents' = documents
      BY <1>6, IdleElsewhere DEF Start, Kill, At, Inv, TypeOK
    <2> QED BY <2>1, HolderLocal DEF Deleted
  <1>7. CASE (\E f \in Files : Edit(f)) \/ Retrieve \/ UNCHANGED corpusVars
    <2>1. UNCHANGED <<documents, ingester>>
      BY <1>7 DEF Edit, Retrieve, corpusVars
    <2> QED BY <2>1 DEF OneHolder, Deleted
  <1> QED BY <1>4, <1>5, <1>6, <1>7 DEF Next

LEMMA WaitingEnds ==
    ASSUME Inv, OneHolder
    PROVE  NoChainOfWaits
  <1> SUFFICES ASSUME NEW u \in Ingesters, NEW v \in Ingesters, NEW w \in Ingesters,
                      WaitsFor(w, v), WaitsFor(v, u)
               PROVE  FALSE
    BY DEF NoChainOfWaits
  <1>1. \A x \in Ingesters : ingester[x].pc \in {"deleting", "inserting", "committing"} =>
           \A d \in documents : d.id = ingester[x].old => d.uri = UriOf(x)
    BY IdleElsewhere DEF Inv, MidFile
  \* v has deleted a document and not inserted its own.
  <1>2. PICK d \in documents : Deleted(v, d)
    BY DEF WaitsFor, Deleted, Inserted, Of
  <1>3. ingester[v].pc = "inserting" /\ d.uri = UriOf(v)
    BY <1>1, <1>2 DEF WaitsFor, Deleted
  <1>4. d \in Of(UriOf(v))
    BY <1>3 DEF Of
  <1>5. CASE Inserted(u, UriOf(v))
    <2>1. d.id = ingester[u].old
      BY <1>4, <1>5 DEF Inserted, Inv, HoldsSource
    <2>2. Deleted(u, d)
      BY <1>5, <2>1 DEF Deleted, Inserted
    <2> QED BY <1>2, <2>2 DEF OneHolder, WaitsFor
  <1>6. CASE \E e \in Of(UriOf(v)) : Deleted(u, e)
    <2>1. Deleted(u, d)
      BY <1>4, <1>6 DEF Of, Inv, OneDocumentPerSource
    <2> QED BY <1>2, <2>1 DEF OneHolder, WaitsFor
  <1> QED BY <1>3, <1>5, <1>6 DEF WaitsFor

\* However many ingestions replace documents at once, and whatever each waits for
\* in its DELETE or its INSERT, nobody waits for one that waits: there is no
\* deadlock, and a transaction that is waited for ends by its own next calls.
THEOREM NoDeadlock == Spec => []NoChainOfWaits
  <1>1. Init => OneHolder
    BY IdleElsewhere DEF Init, OneHolder, Deleted
  <1>2. Spec => []OneHolder
    BY <1>1, Invariant, HolderStep, PTL DEF Spec
  <1> QED BY <1>2, Invariant, WaitingEnds, PTL

-----------------------------------------------------------------------------
(***************************************************************************)
(* How long a run takes.                                                   *)
(***************************************************************************)
\* The calls an ingester has yet to make, of the six that a file takes.
Place(pc) ==
    CASE pc = "reading"   -> 6
      [] pc = "embedding" -> 5
      [] pc = "selecting" -> 4
      [] pc = "deleting"  -> 3
      [] pc = "inserting" -> 2
      [] OTHER            -> 1

CallsLeft(i) == IF i = Idle THEN 0 ELSE 6 * (Len(i.todo) - 1) + Place(i.pc)

\* A run over n files takes 6n calls at most.
ShortRuns ==
    \A w \in Ingesters : ingester[w] # Idle =>
        /\ CallsLeft(ingester[w]) \in 1..(6 * Len(FileOrder))
        /\ Len(ingester[w].todo) <= Len(FileOrder)

\* Every call of an ingester, also one that fails, leaves it fewer to make, and
\* nobody else gives it any: no file is taken up a second time.
CallsRunOut ==
    [][\A w \in Ingesters : ingester[w] # Idle =>
          IF Step(w) \/ Fail(w) \/ Kill(w)
          THEN CallsLeft(ingester'[w]) < CallsLeft(ingester[w])
          ELSE ingester'[w] = ingester[w]]_corpusVars

TodoBound ==
    \A w \in Ingesters : ingester[w] # Idle =>
        Len(ingester[w].todo) <= Len(FileOrder)

LEMMA Places ==
    ASSUME NEW pc
    PROVE  /\ Place(pc) \in 1..6
           /\ Place("reading") = 6 /\ Place("embedding") = 5
           /\ Place("selecting") = 4 /\ Place("deleting") = 3
           /\ Place("inserting") = 2 /\ Place("committing") = 1
  BY DEF Place

LEMMA CallsLeftFacts ==
    ASSUME Inv, NEW w \in Ingesters, ingester[w] # Idle
    PROVE  /\ Len(ingester[w].todo) \in Nat \ {0}
           /\ CallsLeft(ingester[w]) = 6 * (Len(ingester[w].todo) - 1) + Place(ingester[w].pc)
           /\ CallsLeft(ingester[w]) \in Nat \ {0}
  <1>1. ingester[w].todo \in Seq(Files) /\ ingester[w].todo # <<>>
    BY BusyFields DEF Inv, MidFile
  <1>2. Len(ingester[w].todo) \in Nat \ {0}
    BY <1>1
  <1>3. CallsLeft(ingester[w]) = 6 * (Len(ingester[w].todo) - 1) + Place(ingester[w].pc)
    BY DEF CallsLeft
  <1> QED BY <1>2, <1>3, Places

\* The next file: all its calls are fewer than those of the files before it.
LEMMA NextFileShortens ==
    ASSUME Inv, NEW w \in Ingesters, ingester[w] # Idle, NextFile(w)
    PROVE  /\ CallsLeft(ingester'[w]) < CallsLeft(ingester[w])
           /\ ingester'[w] # Idle => Len(ingester'[w].todo) <= Len(ingester[w].todo)
  <1> DEFINE todo == ingester[w].todo
             rest == Tail(todo)
  <1>1. todo \in Seq(Files) /\ todo # <<>> /\ w \in DOMAIN ingester
    BY BusyFields DEF Inv, MidFile, TypeOK
  <1>2. /\ rest \in Seq(Files) /\ Len(rest) = Len(todo) - 1
        /\ Len(todo) \in Nat \ {0}
    BY <1>1
  <1>3. /\ CallsLeft(ingester[w]) = 6 * (Len(todo) - 1) + Place(ingester[w].pc)
        /\ Place(ingester[w].pc) \in 1..6
    BY CallsLeftFacts, Places
  <1>4. CASE rest = <<>>
    <2>1. ingester'[w] = Idle
      BY <1>1, <1>4 DEF NextFile
    <2>2. CallsLeft(ingester'[w]) = 0
      BY <2>1 DEF CallsLeft
    <2> QED BY <1>2, <1>3, <2>1, <2>2
  <1>5. CASE rest # <<>>
    <2>1. ingester'[w] = At(rest, "reading", Broken, NoId)
      BY <1>1, <1>5 DEF NextFile
    <2>2. /\ ingester'[w].todo = rest /\ ingester'[w].pc = "reading"
          /\ ingester'[w] # Idle
      BY <2>1, IdleElsewhere DEF At
    <2>3. CallsLeft(ingester'[w]) = 6 * (Len(rest) - 1) + 6
      BY <2>2, Places DEF CallsLeft
    <2> HIDE DEF todo, rest
    <2> QED BY <1>2, <1>3, <2>2, <2>3 DEF todo
  <1> QED BY <1>4, <1>5

LEMMA GoesShortens ==
    ASSUME Inv, NEW w \in Ingesters, ingester[w] # Idle,
           NEW pc \in {"embedding", "selecting", "deleting", "inserting", "committing"},
           NEW content \in Version, NEW old \in Nat, Goes(w, pc, content, old),
           Place(pc) < Place(ingester[w].pc)
    PROVE  /\ CallsLeft(ingester'[w]) < CallsLeft(ingester[w])
           /\ Len(ingester'[w].todo) <= Len(ingester[w].todo)
  <1>1. /\ ingester'[w] # Idle /\ ingester'[w].pc = pc
        /\ ingester'[w].todo = ingester[w].todo
    BY GoesShape
  <1>2. CallsLeft(ingester'[w]) = 6 * (Len(ingester[w].todo) - 1) + Place(pc)
    BY <1>1 DEF CallsLeft
  <1>3. Place(pc) \in 1..6 /\ Place(ingester[w].pc) \in 1..6
    BY Places
  <1>4. /\ Len(ingester[w].todo) \in Nat \ {0}
        /\ CallsLeft(ingester[w]) = 6 * (Len(ingester[w].todo) - 1) + Place(ingester[w].pc)
    BY CallsLeftFacts
  <1>5. Len(ingester'[w].todo) = Len(ingester[w].todo)
    BY <1>1
  <1>6. \A n \in Nat : 6 * (n - 1) + Place(pc) < 6 * (n - 1) + Place(ingester[w].pc)
    BY <1>3
  <1> QED BY <1>2, <1>4, <1>5, <1>6

LEMMA StepShortens ==
    ASSUME Inv, NEW w \in Ingesters, Step(w) \/ Fail(w) \/ Kill(w)
    PROVE  /\ ingester[w] # Idle
           /\ CallsLeft(ingester'[w]) < CallsLeft(ingester[w])
           /\ ingester'[w] # Idle => Len(ingester'[w].todo) <= Len(ingester[w].todo)
           /\ \A v \in Ingesters \ {w} : ingester'[v] = ingester[v]
  <1>1. ingester[w] # Idle
    BY IdleElsewhere
       DEF Step, Read, Embed, Select, Delete, Insert, Commit, Reject, Fail, Kill
  <1>2. /\ ingester[w].pc # "reading" => ingester[w].content \in Version
        /\ ingester[w].old \in Nat /\ NoId \in Nat
    BY <1>1, BusyFields DEF Inv, MidFile, NoId
  <1>3. /\ Place("reading") = 6 /\ Place("embedding") = 5
        /\ Place("selecting") = 4 /\ Place("deleting") = 3
        /\ Place("inserting") = 2 /\ Place("committing") = 1
    BY Places
  <1>4. ASSUME NEW pc \in {"embedding", "selecting", "deleting", "inserting", "committing"},
               NEW content \in Version, NEW old \in Nat, Goes(w, pc, content, old),
               Place(pc) < Place(ingester[w].pc)
        PROVE  /\ CallsLeft(ingester'[w]) < CallsLeft(ingester[w])
               /\ Len(ingester'[w].todo) <= Len(ingester[w].todo)
               /\ \A v \in Ingesters \ {w} : ingester'[v] = ingester[v]
    BY <1>1, <1>4, GoesShortens, GoesShape
  <1>5. CASE NextFile(w)
    BY <1>1, <1>5, NextFileShortens, NextFileShape
  <1>6. CASE Read(w)
    <2>1. file[FileOf(w)] \in Version
      BY <1>1, <1>6, SourceOfFile DEF Read, Inv, TypeOK, Content
    <2> QED BY <1>1, <1>2, <1>3, <1>4, <1>6, <2>1 DEF Read
  <1>7. CASE Embed(w)
    BY <1>1, <1>2, <1>3, <1>4, <1>7 DEF Embed
  <1>8. CASE Select(w)
    <2>1. ASSUME NEW d \in Of(UriOf(w)), Goes(w, "deleting", ingester[w].content, d.id)
          PROVE  /\ CallsLeft(ingester'[w]) < CallsLeft(ingester[w])
                 /\ Len(ingester'[w].todo) <= Len(ingester[w].todo)
                 /\ \A v \in Ingesters \ {w} : ingester'[v] = ingester[v]
      <3>1. d.id \in Nat
        BY DEF Of, Inv, TypeOK, Document
      <3> QED BY <1>2, <1>3, <1>4, <1>8, <2>1, <3>1 DEF Select
    <2>2. CASE Goes(w, "inserting", ingester[w].content, NoId)
      BY <1>1, <1>2, <1>3, <1>4, <1>8, <2>2 DEF Select
    <2> QED BY <1>1, <1>8, <2>1, <2>2 DEF Select
  <1>9. CASE Delete(w) \/ Insert(w)
    BY <1>1, <1>2, <1>3, <1>4, <1>9 DEF Delete, Insert
  <1>10. CASE Kill(w)
    <2>1. ingester'[w] = Idle /\ \A v \in Ingesters \ {w} : ingester'[v] = ingester[v]
      BY <1>10 DEF Kill, Inv, TypeOK
    <2>2. CallsLeft(ingester'[w]) = 0
      BY <2>1 DEF CallsLeft
    <2>3. CallsLeft(ingester[w]) \in Nat \ {0}
      BY <1>1, CallsLeftFacts
    <2> QED BY <1>1, <2>1, <2>2, <2>3
  <1> QED BY <1>5, <1>6, <1>7, <1>8, <1>9, <1>10 DEF Step, Commit, Reject, Fail

LEMMA OtherSteps ==
    ASSUME Inv, [Next]_corpusVars, NEW w \in Ingesters
    PROVE  \/ Step(w) \/ Fail(w) \/ Kill(w)
           \/ ingester'[w] = ingester[w]
           \/ /\ ingester[w] = Idle
              /\ ingester'[w] = At(FileOrder, "reading", Broken, NoId)
  <1>1. ASSUME NEW v \in Ingesters, Step(v) \/ Fail(v) \/ Kill(v), v # w
        PROVE  ingester'[w] = ingester[w]
    BY <1>1, StepShortens
  <1>2. ASSUME NEW v \in Ingesters, Start(v)
        PROVE  \/ ingester'[w] = ingester[w]
               \/ /\ ingester[w] = Idle
                  /\ ingester'[w] = At(FileOrder, "reading", Broken, NoId)
    BY <1>2 DEF Start, Inv, TypeOK
  <1>3. CASE (\E f \in Files : Edit(f)) \/ Retrieve \/ UNCHANGED corpusVars
    BY <1>3 DEF Edit, Retrieve, corpusVars
  <1> QED BY <1>1, <1>2, <1>3 DEF Next

\* A run over a directory takes a bounded number of calls, whatever fails.
THEOREM RunsAreFinite == Spec => []ShortRuns /\ CallsRunOut
  <1>1. Init => TodoBound
    BY DEF Init, TodoBound
  <1>2. Inv /\ TodoBound /\ [Next]_corpusVars => TodoBound'
    <2> SUFFICES ASSUME Inv, TodoBound, [Next]_corpusVars, NEW w \in Ingesters,
                        ingester'[w] # Idle
                 PROVE  Len(ingester'[w].todo) <= Len(FileOrder)
      BY DEF TodoBound
    <2>1. CASE Step(w) \/ Fail(w) \/ Kill(w)
      <3>1. /\ ingester[w] # Idle
            /\ Len(ingester'[w].todo) <= Len(ingester[w].todo)
        BY <2>1, StepShortens
      <3>2. /\ Len(ingester[w].todo) <= Len(FileOrder)
            /\ Len(ingester[w].todo) \in Nat
        BY <3>1, BusyFields DEF TodoBound, Inv
      <3>3. Len(ingester'[w].todo) \in Nat /\ Len(FileOrder) \in Nat
        <4>1. ingester'[w].todo \in Seq(Files)
          BY InvStep DEF Inv, TypeOK, Busy
        <4> QED BY <4>1, CorpusConfig
      <3> QED BY <3>1, <3>2, <3>3
    <2>2. CASE ingester'[w] = ingester[w]
      BY <2>2 DEF TodoBound
    <2>3. CASE ingester'[w] = At(FileOrder, "reading", Broken, NoId)
      BY <2>3, CorpusConfig DEF At
    <2> QED BY <2>1, <2>2, <2>3, OtherSteps
  <1>3. Inv /\ TodoBound => ShortRuns
    <2> SUFFICES ASSUME Inv, TodoBound, NEW w \in Ingesters, ingester[w] # Idle
                 PROVE  CallsLeft(ingester[w]) \in 1..(6 * Len(FileOrder))
      BY DEF ShortRuns, TodoBound
    <2>1. Place(ingester[w].pc) \in 1..6 /\ Len(FileOrder) \in Nat
      BY Places, CorpusConfig
    <2> QED BY <2>1, CallsLeftFacts DEF TodoBound
  <1>4. Inv /\ [Next]_corpusVars =>
           [\A w \in Ingesters : ingester[w] # Idle =>
              IF Step(w) \/ Fail(w) \/ Kill(w)
              THEN CallsLeft(ingester'[w]) < CallsLeft(ingester[w])
              ELSE ingester'[w] = ingester[w]]_corpusVars
    <2> SUFFICES ASSUME Inv, [Next]_corpusVars, NEW w \in Ingesters, ingester[w] # Idle
                 PROVE  IF Step(w) \/ Fail(w) \/ Kill(w)
                        THEN CallsLeft(ingester'[w]) < CallsLeft(ingester[w])
                        ELSE ingester'[w] = ingester[w]
      OBVIOUS
    <2> QED BY StepShortens, OtherSteps
  <1>5. Spec => [](Inv /\ TodoBound)
    BY <1>1, <1>2, Invariant, PTL DEF Spec
  <1> QED BY <1>3, <1>4, <1>5, PTL DEF Spec, CallsRunOut

=============================================================================
