------------------------------ MODULE Chunker ------------------------------
(***************************************************************************)
(* LegalChunker (rag/chunker.py): chunk of one document, as its loops run. *)
(* _split_sections goes through the lines and collects sections; chunk     *)
(* then cuts each section into windows of words that overlap.              *)
(*                                                                         *)
(* Abstraction: a line is blank, a heading (what SECTION_RE matches in at  *)
(* most ten words, which includes a prose line of up to six alphabetic     *)
(* words), or text with a number of words.  A word is its place: line and  *)
(* position in the line.                                                   *)
(***************************************************************************)
EXTENDS Integers, Sequences, Functions

CONSTANTS
    Texts,          \* the texts documents may have: sequences of lines
    Labels,         \* of headings
    NoHeading,      \* "Document", the label of what comes before any heading
    TargetTokens,
    OverlapTokens

Blank       == [kind |-> "blank"]
Heading(l)  == [kind |-> "heading", label |-> l]
TextLine(n) == [kind |-> "text", size |-> n]
Line        == {Blank} \union [kind : {"heading"}, label : Labels]
                       \union [kind : {"text"}, size : Nat \ {0}]

\* The constructor raises unless the overlap is less than the target.
ASSUME ChunkerConfig ==
    /\ Texts \subseteq Seq(Line)
    /\ NoHeading \notin Labels
    /\ TargetTokens \in Nat
    /\ OverlapTokens \in Nat
    /\ OverlapTokens < TargetTokens

VARIABLES
    text,       \* document.text
    pc,         \* "splitting", "cutting" or "chunked"
    next,       \* the line _split_sections reads next
    label,      \* current_label
    buffer,     \* the words in buffer
    sections,   \* what _split_sections has yielded
    section,    \* the section that is being cut, and
    start,      \*   how many of its words come before the next window
    chunks

chunkerVars == <<text, pc, next, label, buffer, sections, section, start, chunks>>

-----------------------------------------------------------------------------
ChunkerInit ==
    /\ text \in Texts
    /\ pc = "splitting"
    /\ next = 1
    /\ label = NoHeading
    /\ buffer = <<>>
    /\ sections = <<>>
    /\ section = 1
    /\ start = 0
    /\ chunks = <<>>

\* The section ends here, if it has any words.
Flushed ==
    IF buffer = <<>> THEN sections
    ELSE Append(sections, [label |-> label, words |-> buffer])

Reads(kind) ==
    /\ pc = "splitting"
    /\ next \in DOMAIN text
    /\ text[next].kind = kind
    /\ next' = next + 1
    /\ UNCHANGED <<text, pc, section, start, chunks>>

\* A blank line only adds white space, which the split into words drops.
ReadBlank == Reads("blank") /\ UNCHANGED <<label, buffer, sections>>

\* Mutant: the label changes before the section is yielded.
ReadHeading_LabelFirst ==
    /\ Reads("heading")
    /\ sections' = IF buffer = <<>> THEN sections
                   ELSE Append(sections, [label |-> text[next].label, words |-> buffer])
    /\ buffer' = <<>>
    /\ label' = text[next].label

ReadHeading ==
    /\ Reads("heading")
    /\ sections' = Flushed
    /\ buffer' = <<>>
    /\ label' = text[next].label

ReadText ==
    /\ Reads("text")
    /\ buffer' = buffer \o [j \in 1..text[next].size |-> <<next, j>>]
    /\ UNCHANGED <<label, sections>>

\* Mutant: the last section is forgotten.
EndOfText_NoFlush ==
    /\ pc = "splitting"
    /\ next \notin DOMAIN text
    /\ pc' = "cutting"
    /\ UNCHANGED <<sections, buffer, text, next, label, section, start, chunks>>

\* The lines are through; what the buffer holds is the last section.
EndOfText ==
    /\ pc = "splitting"
    /\ next \notin DOMAIN text
    /\ sections' = Flushed
    /\ buffer' = <<>>
    /\ pc' = "cutting"
    /\ UNCHANGED <<text, next, label, section, start, chunks>>

-----------------------------------------------------------------------------
\* Mutant: the next window starts at the end of this one.
NextStart_NoOverlap(end) == end

NextStart(end) == IF end - OverlapTokens > 0 THEN end - OverlapTokens ELSE 0

\* One window of the section, and where the next one starts.
Cut ==
    /\ pc = "cutting"
    /\ section \in DOMAIN sections
    /\ LET words == sections[section].words
           end   == IF start + TargetTokens < Len(words) THEN start + TargetTokens
                    ELSE Len(words)
       IN /\ chunks' = Append(chunks, [chunk_index |-> Len(chunks),
                                       section     |-> sections[section].label,
                                       words       |-> SubSeq(words, start + 1, end)])
          /\ IF end >= Len(words)
             THEN section' = section + 1 /\ start' = 0
             ELSE section' = section /\ start' = NextStart(end)
    /\ UNCHANGED <<text, pc, next, label, buffer, sections>>

\* All sections are cut.
Return ==
    /\ pc = "cutting"
    /\ section \notin DOMAIN sections
    /\ pc' = "chunked"
    /\ UNCHANGED <<text, next, label, buffer, sections, section, start, chunks>>

ChunkerNext ==
    \/ ReadBlank \/ ReadHeading \/ ReadText \/ EndOfText
    \/ Cut \/ Return

ChunkerSpec == ChunkerInit /\ [][ChunkerNext]_chunkerVars

-----------------------------------------------------------------------------
(***************************************************************************)
(* Properties                                                              *)
(***************************************************************************)
AllLabels == Labels \union {NoHeading}
Word      == Nat \X Nat
Section   == [label : AllLabels, words : Seq(Word)]
Chunk     == [chunk_index : Nat, section : AllLabels, words : Seq(Word)]

ChunkerTypes ==
    /\ text \in Texts
    /\ pc \in {"splitting", "cutting", "chunked"}
    /\ next \in 1..(Len(text) + 1)
    /\ label \in AllLabels
    /\ buffer \in Seq(Word)
    /\ sections \in Seq(Section)
    /\ section \in 1..(Len(sections) + 1)
    /\ start \in Nat
    /\ chunks \in Seq(Chunk)

\* Word w is a word of the document.
IsWord(w) ==
    /\ w[1] \in DOMAIN text
    /\ text[w[1]].kind = "text"
    /\ w[2] \in 1..text[w[1]].size

\* The heading a line stands under: the last one before it.
Under(i, l) ==
    \/ /\ l = NoHeading
       /\ \A h \in 1..(i - 1) : text[h].kind # "heading"
    \/ \E h \in 1..(i - 1) :
          /\ text[h].kind = "heading"
          /\ l = text[h].label
          /\ \A g \in (h + 1)..(i - 1) : text[g].kind # "heading"

\* chunk returns every word of the document in a chunk labelled with the heading
\* the word stands under, wherever headings, blank lines and window ends fall.
NoWordLost ==
    pc = "chunked" =>
        \A i \in DOMAIN text : text[i].kind = "text" =>
            \A j \in 1..text[i].size :
                \E c \in DOMAIN chunks :
                    /\ Under(i, chunks[c].section)
                    /\ \E k \in DOMAIN chunks[c].words : chunks[c].words[k] = <<i, j>>

\* What a chunk holds are words of the document under the heading it names.
ChunksTraceable ==
    \A c \in DOMAIN chunks : \A k \in DOMAIN chunks[c].words :
        /\ IsWord(chunks[c].words[k])
        /\ Under(chunks[c].words[k][1], chunks[c].section)

\* Word w is the first of its section.
Opens(w) ==
    /\ w[2] = 1
    /\ \A g \in 1..(w[1] - 1) :
          text[g].kind = "text" => \E h \in g..w[1] : text[h].kind = "heading"

\* Chunks are numbered in order and have between one word and the target.  A
\* chunk either opens a section, or starts with the last OverlapTokens words of
\* the one before; and it always has a word that the one before has not, which
\* is what ends the loop.
WindowsOverlap ==
    \A c \in DOMAIN chunks :
        LET words == chunks[c].words
        IN /\ chunks[c].chunk_index = c - 1
           /\ Len(words) \in 1..TargetTokens
           /\ \/ Opens(words[1])
              \/ /\ c > 1
                 /\ Len(words) > OverlapTokens
                 /\ Len(chunks[c - 1].words) = TargetTokens
                 /\ \A k \in 1..OverlapTokens :
                       words[k] = chunks[c - 1].words[TargetTokens - OverlapTokens + k]
           /\ c > 1 => words[Len(words)] \notin Range(chunks[c - 1].words)

=============================================================================
