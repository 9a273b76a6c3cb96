--------------------------- MODULE MCFeedbackStore ---------------------------
(***************************************************************************)
(* Small instances of FeedbackStore.                                       *)
(***************************************************************************)
EXTENDS FeedbackStore, TLC

CONSTANTS w1, w2, t1, r1, r2, good, bad, text

OneWorker  == {w1}
TwoWorkers == {w1, w2}
OneTrace   == {t1}
Answers    == {r1, r2}
Verdicts   == {good, bad}
Texts      == {text}

Symmetry == Permutations({w1, w2})
              \union Permutations({r1, r2}) \union Permutations({good, bad})

=============================================================================
