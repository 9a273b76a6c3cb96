---------------------------- MODULE MCDocuments ----------------------------
(***************************************************************************)
(* Small instances of Documents: every text of a few lines.                *)
(***************************************************************************)
EXTENDS Documents

CONSTANTS one, two, MaxLines, Sizes

TwoLabels == {one, two}
SmallTexts ==
    UNION {[1..n -> {Blank} \union {Heading(l) : l \in {one, two}}
                            \union {TextLine(n2) : n2 \in Sizes}]
              : n \in 0..MaxLines}

=============================================================================
