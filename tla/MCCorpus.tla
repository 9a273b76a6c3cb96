------------------------------ MODULE MCCorpus ------------------------------
(***************************************************************************)
(* Small instances of Corpus.                                              *)
(***************************************************************************)
EXTENDS Corpus, TLC

CONSTANTS i1, i2, fileA, fileB, uriA, uriB

OneIngester  == {i1}
TwoIngesters == {i1, i2}

OneFile  == <<fileA>>
TwoFiles == <<fileA, fileB>>

UriOfOne  == fileA :> uriA
UriOfEach == fileA :> uriA @@ fileB :> uriB

=============================================================================
