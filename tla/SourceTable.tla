----------------------------- MODULE SourceTable -----------------------------
(***************************************************************************)
(* A table of documents in which a source's document is replaced at once:  *)
(* nobody sees the old one gone and the new one not yet there, nor both.   *)
(***************************************************************************)
EXTENDS Naturals

CONSTANTS Uris, Versions

VARIABLES documents, lastId

Init == documents = {} /\ lastId = 0

\* A version of a source takes the place of the one before, if there is one, under
\* an id that was never given.
Replace(uri, version) ==
    /\ lastId' = lastId + 1
    /\ documents' =
         {d \in documents : d.uri # uri} \union
         {[id |-> lastId', uri |-> uri, version |-> version]}

Next == \E uri \in Uris, version \in Versions : Replace(uri, version)

Spec == Init /\ [][Next]_<<documents, lastId>>

=============================================================================
