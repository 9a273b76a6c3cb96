-------------------------- MODULE Documents_proofs --------------------------
(***************************************************************************)
(* Theorems about Documents: from any text, by any target and overlap and  *)
(* any batch size, to the citations of any number of queries.  First what  *)
(* holds of Chunker and of Attribution alone, then what joins them.        *)
(***************************************************************************)
EXTENDS Documents, SequenceTheorems, TLAPS

-----------------------------------------------------------------------------
(***************************************************************************)
(* Chunker: words and the headings they stand under, for any text t.       *)
(***************************************************************************)
WordOf(t, w) ==
    /\ w[1] \in DOMAIN t
    /\ t[w[1]].kind = "text"
    /\ w[2] \in 1..t[w[1]].size

UnderIn(t, i, l) ==
    \/ /\ l = NoHeading
       /\ \A h \in 1..(i - 1) : t[h].kind # "heading"
    \/ \E h \in 1..(i - 1) :
          /\ t[h].kind = "heading"
          /\ l = t[h].label
          /\ \A g \in (h + 1)..(i - 1) : t[g].kind # "heading"

In(words, w) == \E k \in DOMAIN words : words[k] = w

\* These words are t's, and stand under l.
Kept(t, words, l) ==
    \A k \in DOMAIN words : WordOf(t, words[k]) /\ UnderIn(t, words[k][1], l)

LEMMA LineKinds ==
    ASSUME NEW line \in Line
    PROVE  /\ line.kind \in {"blank", "heading", "text"}
           /\ line.kind = "heading" => line.label \in Labels
           /\ line.kind = "text" => line.size \in Nat \ {0}
  BY DEF Line, Blank

\* A line that is no heading has the next one stand under the same heading.
LEMMA UnderTheSame ==
    ASSUME NEW t \in Seq(Line), NEW i \in DOMAIN t, NEW l, UnderIn(t, i, l),
           t[i].kind # "heading"
    PROVE  UnderIn(t, i + 1, l)
  <1>1. i \in 1..Len(t) /\ i \in Int
    OBVIOUS
  <1> DEFINE H(j) == t[j].kind = "heading"
  <1>2. CASE l = NoHeading /\ \A h \in 1..(i - 1) : ~H(h)
    <2>1. \A h \in 1..((i + 1) - 1) : ~H(h)
      <3> SUFFICES ASSUME NEW h \in 1..((i + 1) - 1) PROVE ~H(h)
        OBVIOUS
      <3>1. h = i \/ h \in 1..(i - 1)
        BY <1>1
      <3> QED BY <1>2, <3>1
    <2> QED BY <1>2, <2>1 DEF UnderIn
  <1>3. CASE \E h \in 1..(i - 1) :
                /\ H(h) /\ l = t[h].label
                /\ \A g \in (h + 1)..(i - 1) : ~H(g)
    <2>1. PICK h \in 1..(i - 1) :
                /\ H(h) /\ l = t[h].label
                /\ \A g \in (h + 1)..(i - 1) : ~H(g)
      BY <1>3
    <2>2. h \in 1..((i + 1) - 1)
      BY <1>1
    <2>3. ASSUME NEW g \in (h + 1)..((i + 1) - 1) PROVE ~H(g)
      <3>1. g = i \/ g \in (h + 1)..(i - 1)
        BY <1>1, <2>2
      <3> QED BY <2>1, <3>1
    <2> QED BY <2>1, <2>2, <2>3 DEF UnderIn
  <1> QED BY <1>2, <1>3 DEF UnderIn

LEMMA UnderAHeading ==
    ASSUME NEW t \in Seq(Line), NEW i \in DOMAIN t, t[i].kind = "heading"
    PROVE  UnderIn(t, i + 1, t[i].label)
  <1>1. i \in 1..((i + 1) - 1) /\ (i + 1)..((i + 1) - 1) = {}
    OBVIOUS
  <1> QED BY <1>1 DEF UnderIn

LEMMA KeptConcat ==
    ASSUME NEW t, NEW l, NEW b \in Seq(Word), NEW c \in Seq(Word),
           Kept(t, b, l), Kept(t, c, l)
    PROVE  Kept(t, b \o c, l)
  <1> SUFFICES ASSUME NEW k \in DOMAIN (b \o c)
               PROVE  WordOf(t, (b \o c)[k]) /\ UnderIn(t, (b \o c)[k][1], l)
    BY DEF Kept
  <1>1. k \in 1..(Len(b) + Len(c))
    BY ConcatProperties, LenProperties
  <1>2. CASE k <= Len(b)
    <2>1. k \in DOMAIN b /\ (b \o c)[k] = b[k]
      BY <1>1, <1>2, ConcatProperties
    <2> QED BY <2>1 DEF Kept
  <1>3. CASE k > Len(b)
    <2>1. k - Len(b) \in DOMAIN c /\ (b \o c)[k] = c[k - Len(b)]
      BY <1>1, <1>3, ConcatProperties
    <2> QED BY <2>1 DEF Kept
  <1> QED BY <1>1, <1>2, <1>3

LEMMA InConcat ==
    ASSUME NEW b \in Seq(Word), NEW c \in Seq(Word), NEW w, In(b, w) \/ In(c, w)
    PROVE  In(b \o c, w)
  <1>1. DOMAIN (b \o c) = 1..(Len(b) + Len(c))
    BY ConcatProperties, LenProperties
  <1>2. CASE In(b, w)
    <2>1. PICK k \in DOMAIN b : b[k] = w
      BY <1>2 DEF In
    <2>2. k \in 1..(Len(b) + Len(c)) /\ (b \o c)[k] = b[k]
      BY ConcatProperties
    <2> QED BY <1>1, <2>1, <2>2 DEF In
  <1>3. CASE In(c, w)
    <2>1. PICK k \in DOMAIN c : c[k] = w
      BY <1>3 DEF In
    <2>2. /\ Len(b) + k \in 1..(Len(b) + Len(c))
          /\ (b \o c)[Len(b) + k] = c[k]
      BY ConcatProperties
    <2> QED BY <1>1, <2>1, <2>2 DEF In
  <1> QED BY <1>2, <1>3

\* A line of text as words.
WordsOf(t, i) == [j \in 1..t[i].size |-> <<i, j>>]

LEMMA WordsOfLine ==
    ASSUME NEW t \in Seq(Line), NEW i \in DOMAIN t, NEW l, UnderIn(t, i, l),
           t[i].kind = "text"
    PROVE  /\ WordsOf(t, i) \in Seq(Word)
           /\ Kept(t, WordsOf(t, i), l)
           /\ \A j \in 1..t[i].size : In(WordsOf(t, i), <<i, j>>)
  <1>1. i \in Nat /\ t[i].size \in Nat
    BY LineKinds
  <1>2. WordsOf(t, i) \in Seq(Word)
    BY <1>1 DEF WordsOf, Word
  <1>3. DOMAIN WordsOf(t, i) = 1..t[i].size
        /\ \A j \in 1..t[i].size : WordsOf(t, i)[j] = <<i, j>>
    BY DEF WordsOf
  <1> QED BY <1>2, <1>3 DEF Kept, In, WordOf

\* A window of words.
LEMMA Window ==
    ASSUME NEW t, NEW l, NEW words \in Seq(Word), Kept(t, words, l),
           NEW from \in Nat, NEW end \in Nat, end <= Len(words)
    PROVE  LET part == SubSeq(words, from + 1, end)
           IN /\ part \in Seq(Word)
              /\ Kept(t, part, l)
              /\ \A k \in (from + 1)..end : In(part, words[k])
  <1> DEFINE part == SubSeq(words, from + 1, end)
  <1>1. \A k \in (from + 1)..end : k \in DOMAIN words /\ words[k] \in Word
    BY LenProperties, ElementOfSeq
  <1>2. /\ part \in Seq(Word)
        /\ Len(part) = IF from + 1 <= end THEN end - (from + 1) + 1 ELSE 0
        /\ \A i \in 1..(end - (from + 1) + 1) : part[i] = words[(from + 1) + i - 1]
    BY <1>1, SubSeqProperties
  <1>3. DOMAIN part = 1..Len(part)
    BY <1>2, LenProperties
  <1> HIDE DEF part
  <1>4. Kept(t, part, l)
    <2> SUFFICES ASSUME NEW i \in DOMAIN part
                 PROVE  WordOf(t, part[i]) /\ UnderIn(t, part[i][1], l)
      BY DEF Kept
    <2>1. i \in 1..(end - (from + 1) + 1) /\ (from + 1) + i - 1 \in (from + 1)..end
      BY <1>2, <1>3
    <2>2. part[i] = words[(from + 1) + i - 1] /\ (from + 1) + i - 1 \in DOMAIN words
      BY <1>1, <1>2, <2>1
    <2> QED BY <2>2 DEF Kept
  <1>5. ASSUME NEW k \in (from + 1)..end PROVE In(part, words[k])
    <2>1. k - from \in 1..(end - (from + 1) + 1)
      OBVIOUS
    <2>2. part[k - from] = words[k] /\ k - from \in DOMAIN part
      BY <1>2, <1>3, <2>1
    <2> QED BY <2>2 DEF In
  <1> QED BY <1>2, <1>4, <1>5 DEF part

-----------------------------------------------------------------------------
(***************************************************************************)
(* Chunker: the inductive invariant.                                       *)
(***************************************************************************)
\* While lines are read, every word so far is in the buffer, which stands under
\* the current label, or in a section.
Splitting ==
    pc = "splitting" =>
        /\ chunks = <<>> /\ section = 1 /\ start = 0
        /\ UnderIn(text, next, label)
        /\ Kept(text, buffer, label)
        /\ \A i \in 1..(next - 1) : text[i].kind = "text" =>
              \A j \in 1..text[i].size :
                  \/ In(buffer, <<i, j>>)
                  \/ \E s \in DOMAIN sections : In(sections[s].words, <<i, j>>)

\* Afterwards all words are in sections.
Split ==
    pc # "splitting" =>
        \A i \in DOMAIN text : text[i].kind = "text" =>
            \A j \in 1..text[i].size :
                \E s \in DOMAIN sections : In(sections[s].words, <<i, j>>)

SectionsKept ==
    \A s \in DOMAIN sections : Kept(text, sections[s].words, sections[s].label)

ChunksKept ==
    \A c \in DOMAIN chunks :
        /\ chunks[c].chunk_index = c - 1
        /\ Kept(text, chunks[c].words, chunks[c].section)

\* A word of a section is in a chunk of its label, if the section, or as much of
\* it, is cut.
Cutting ==
    /\ pc # "splitting" =>
          \A s \in DOMAIN sections : \A k \in DOMAIN sections[s].words :
              s < section \/ (s = section /\ k <= start) =>
                  \E c \in DOMAIN chunks :
                      /\ chunks[c].section = sections[s].label
                      /\ In(chunks[c].words, sections[s].words[k])
    /\ pc = "chunked" => section \notin DOMAIN sections

ChunkerInv ==
    /\ ChunkerTypes
    /\ Splitting
    /\ Split
    /\ SectionsKept
    /\ ChunksKept
    /\ Cutting

-----------------------------------------------------------------------------
LEMMA ChunkerInvInit == ChunkerInit => ChunkerInv
  <1> SUFFICES ASSUME ChunkerInit PROVE ChunkerInv
    OBVIOUS
  <1>1. text \in Seq(Line)
    BY ChunkerConfig DEF ChunkerInit
  <1>2. ChunkerTypes
    BY <1>1 DEF ChunkerInit, ChunkerTypes, AllLabels
  <1>3. UnderIn(text, 1, NoHeading)
    BY DEF UnderIn
  <1>4. Kept(text, <<>>, NoHeading)
    BY DEF Kept
  <1> QED
    BY <1>2, <1>3, <1>4 DEF ChunkerInit, ChunkerInv, Splitting, Split, SectionsKept,
                            ChunksKept, Cutting

\* What reading a line, or the end of the text, does to sections: nothing, or
\* the buffer becomes one.
LEMMA FlushedKeeps ==
    ASSUME ChunkerInv, pc = "splitting"
    PROVE  /\ Flushed \in Seq(Section)
           /\ \A s \in DOMAIN Flushed : Kept(text, Flushed[s].words, Flushed[s].label)
           /\ \A w : \/ In(buffer, w)
                     \/ \E s \in DOMAIN sections : In(sections[s].words, w)
                  => \E s \in DOMAIN Flushed : In(Flushed[s].words, w)
  <1> USE DEF ChunkerInv
  <1>1. CASE buffer = <<>>
    <2>1. Flushed = sections
      BY <1>1 DEF Flushed
    <2>2. \A w : ~In(buffer, w)
      BY <1>1 DEF In
    <2> QED BY <2>1, <2>2 DEF ChunkerTypes, SectionsKept
  <1>2. CASE buffer # <<>>
    <2> DEFINE new == [label |-> label, words |-> buffer]
    <2>1. new \in Section /\ sections \in Seq(Section)
      BY DEF ChunkerTypes, Section
    <2>2. Flushed = Append(sections, new)
      BY <1>2 DEF Flushed
    <2>3. new.label = label /\ new.words = buffer
      OBVIOUS
    <2> HIDE DEF new
    <2>4. /\ Flushed \in Seq(Section)
          /\ DOMAIN Flushed = 1..(Len(sections) + 1)
          /\ \A s \in DOMAIN sections : Flushed[s] = sections[s]
          /\ Flushed[Len(sections) + 1] = new
          /\ DOMAIN sections = 1..Len(sections) /\ Len(sections) \in Nat
      BY <2>1, <2>2, AppendProperties, LenProperties
    <2>5. \A s \in DOMAIN Flushed : s \in DOMAIN sections \/ s = Len(sections) + 1
      BY <2>4
    <2>6. Kept(text, buffer, label)
      BY DEF Splitting
    <2>7. \A s \in DOMAIN Flushed : Kept(text, Flushed[s].words, Flushed[s].label)
      BY <2>3, <2>4, <2>5, <2>6 DEF SectionsKept
    <2>8. Len(sections) + 1 \in DOMAIN Flushed /\ DOMAIN sections \subseteq DOMAIN Flushed
      BY <2>4
    <2> QED BY <2>3, <2>4, <2>7, <2>8
  <1> QED BY <1>1, <1>2

\* A word of the lines read so far, and of the one that is read now.
LEMMA OneMoreLine ==
    ASSUME ChunkerInv, NEW i \in 1..next
    PROVE  i \in 1..(next - 1) \/ i = next
  BY DEF ChunkerInv, ChunkerTypes

LEMMA ReadBlankKeeps ==
    ASSUME ChunkerInv, ReadBlank
    PROVE  ChunkerInv'
  <1> USE DEF ChunkerInv
  <1>1. text \in Seq(Line) /\ next \in DOMAIN text /\ next \in Nat
    BY ChunkerConfig DEF ReadBlank, Reads, ChunkerTypes
  <1>2. /\ text' = text /\ pc' = pc /\ pc = "splitting" /\ next' = next + 1
        /\ label' = label /\ buffer' = buffer /\ sections' = sections
        /\ section' = section /\ start' = start /\ chunks' = chunks
        /\ text[next].kind = "blank"
    BY DEF ReadBlank, Reads
  <1>3. ChunkerTypes'
    BY <1>1, <1>2 DEF ChunkerTypes
  <1>4. UnderIn(text, next + 1, label)
    BY <1>1, <1>2, UnderTheSame DEF Splitting
  <1>5. Splitting'
    <2>1. ASSUME NEW i \in 1..next, text[i].kind = "text" PROVE i \in 1..(next - 1)
      BY <1>2, <2>1, OneMoreLine
    <2> QED BY <1>1, <1>2, <1>4, <2>1 DEF Splitting
  <1>6. Split' /\ SectionsKept' /\ ChunksKept' /\ Cutting'
    BY <1>2 DEF Split, SectionsKept, ChunksKept, Cutting
  <1> QED BY <1>3, <1>5, <1>6

LEMMA ReadHeadingKeeps ==
    ASSUME ChunkerInv, ReadHeading
    PROVE  ChunkerInv'
  <1> USE DEF ChunkerInv
  <1>1. text \in Seq(Line) /\ next \in DOMAIN text /\ next \in Nat
    BY ChunkerConfig DEF ReadHeading, Reads, ChunkerTypes
  <1>2. /\ text' = text /\ pc' = pc /\ pc = "splitting" /\ next' = next + 1
        /\ label' = text[next].label /\ buffer' = <<>> /\ sections' = Flushed
        /\ section' = section /\ start' = start /\ chunks' = chunks
        /\ text[next].kind = "heading"
    BY DEF ReadHeading, Reads
  <1>3. text[next].label \in AllLabels
    BY <1>1, <1>2, LineKinds DEF AllLabels
  <1>4. section = 1
    BY <1>2 DEF Splitting
  <1>5. ChunkerTypes'
    <2>1. Flushed \in Seq(Section)
      BY <1>2, FlushedKeeps
    <2> HIDE DEF Flushed
    <2> QED BY <1>1, <1>2, <1>3, <1>4, <2>1 DEF ChunkerTypes
  <1>6. UnderIn(text, next + 1, text[next].label)
    BY <1>1, <1>2, UnderAHeading
  <1>7. Splitting'
    <2>1. Kept(text, <<>>, text[next].label)
      BY DEF Kept
    <2>2. ASSUME NEW i \in 1..next, text[i].kind = "text", NEW j \in 1..text[i].size
          PROVE  \E s \in DOMAIN Flushed : In(Flushed[s].words, <<i, j>>)
      <3>1. i \in 1..(next - 1)
        BY <1>2, <2>2, OneMoreLine
      <3>2. \/ In(buffer, <<i, j>>)
            \/ \E s \in DOMAIN sections : In(sections[s].words, <<i, j>>)
        BY <1>2, <2>2, <3>1 DEF Splitting
      <3> QED BY <1>2, <3>2, FlushedKeeps
    <2>3. chunks' = <<>> /\ section' = 1 /\ start' = 0
      BY <1>2 DEF Splitting
    <2>4. next' - 1 = next
      BY <1>1, <1>2
    <2> QED BY <1>2, <1>6, <2>1, <2>2, <2>3, <2>4 DEF Splitting
  <1>8. SectionsKept'
    BY <1>2, FlushedKeeps DEF SectionsKept
  <1>9. Split' /\ ChunksKept' /\ Cutting'
    BY <1>2 DEF Split, ChunksKept, Cutting
  <1> QED BY <1>5, <1>7, <1>8, <1>9

LEMMA ReadTextKeeps ==
    ASSUME ChunkerInv, ReadText
    PROVE  ChunkerInv'
  <1> USE DEF ChunkerInv
  <1>1. text \in Seq(Line) /\ next \in DOMAIN text /\ next \in Nat
    BY ChunkerConfig DEF ReadText, Reads, ChunkerTypes
  <1> DEFINE more == WordsOf(text, next)
  <1>2. /\ text' = text /\ pc' = pc /\ pc = "splitting" /\ next' = next + 1
        /\ label' = label /\ buffer' = buffer \o more /\ sections' = sections
        /\ section' = section /\ start' = start /\ chunks' = chunks
        /\ text[next].kind = "text"
    BY DEF ReadText, Reads, WordsOf
  <1>3. UnderIn(text, next, label) /\ Kept(text, buffer, label) /\ buffer \in Seq(Word)
    BY <1>2 DEF Splitting, ChunkerTypes
  <1>4. /\ more \in Seq(Word) /\ Kept(text, more, label)
        /\ \A j \in 1..text[next].size : In(more, <<next, j>>)
    BY <1>1, <1>2, <1>3, WordsOfLine
  <1> HIDE DEF more
  <1>5. buffer \o more \in Seq(Word)
    BY <1>3, <1>4, ConcatProperties
  <1>6. ChunkerTypes'
    BY <1>1, <1>2, <1>5 DEF ChunkerTypes
  <1>7. UnderIn(text, next + 1, label)
    BY <1>1, <1>2, <1>3, UnderTheSame
  <1>8. Splitting'
    <2>1. Kept(text, buffer \o more, label)
      BY <1>3, <1>4, KeptConcat
    <2>2. ASSUME NEW i \in 1..next, text[i].kind = "text", NEW j \in 1..text[i].size
          PROVE  \/ In(buffer \o more, <<i, j>>)
                 \/ \E s \in DOMAIN sections : In(sections[s].words, <<i, j>>)
      <3>1. CASE i = next
        BY <1>3, <1>4, <2>2, <3>1, InConcat
      <3>2. CASE i \in 1..(next - 1)
        BY <1>2, <1>3, <1>4, <2>2, <3>2, InConcat DEF Splitting
      <3> QED BY <3>1, <3>2, OneMoreLine
    <2>3. chunks' = <<>> /\ section' = 1 /\ start' = 0
      BY <1>2 DEF Splitting
    <2>4. next' - 1 = next
      BY <1>1, <1>2
    <2> QED BY <1>2, <1>7, <2>1, <2>2, <2>3, <2>4 DEF Splitting
  <1>9. Split' /\ SectionsKept' /\ ChunksKept' /\ Cutting'
    BY <1>2 DEF Split, SectionsKept, ChunksKept, Cutting
  <1> QED BY <1>6, <1>8, <1>9

LEMMA EndOfTextKeeps ==
    ASSUME ChunkerInv, EndOfText
    PROVE  ChunkerInv'
  <1> USE DEF ChunkerInv
  <1>1. text \in Seq(Line) /\ next \in 1..(Len(text) + 1) /\ next \notin DOMAIN text
    BY ChunkerConfig DEF EndOfText, ChunkerTypes
  <1>2. /\ text' = text /\ pc' = "cutting" /\ pc = "splitting" /\ next' = next
        /\ label' = label /\ buffer' = <<>> /\ sections' = Flushed
        /\ section' = section /\ start' = start /\ chunks' = chunks
    BY DEF EndOfText
  <1>3. section = 1 /\ start = 0 /\ chunks = <<>>
    BY <1>2 DEF Splitting
  <1>4. Flushed \in Seq(Section)
    BY <1>2, FlushedKeeps
  <1> HIDE DEF Flushed
  <1>5. ChunkerTypes'
    BY <1>2, <1>3, <1>4 DEF ChunkerTypes
  <1>6. Split'
    <2>1. DOMAIN text = 1..(next - 1)
      BY <1>1
    <2>2. ASSUME NEW i \in DOMAIN text, text[i].kind = "text", NEW j \in 1..text[i].size
          PROVE  \E s \in DOMAIN Flushed : In(Flushed[s].words, <<i, j>>)
      <3>1. \/ In(buffer, <<i, j>>)
            \/ \E s \in DOMAIN sections : In(sections[s].words, <<i, j>>)
        BY <1>2, <2>1, <2>2 DEF Splitting
      <3> QED BY <1>2, <3>1, FlushedKeeps
    <2> QED BY <1>2, <2>2 DEF Split
  <1>7. SectionsKept'
    BY <1>2, FlushedKeeps DEF SectionsKept
  <1>8. Cutting'
    <2>1. \A s \in DOMAIN Flushed : \A k \in DOMAIN Flushed[s].words :
              ~(s < 1) /\ ~(s = 1 /\ k <= 0)
      <3> SUFFICES ASSUME NEW s \in DOMAIN Flushed, NEW k \in DOMAIN Flushed[s].words
                   PROVE  ~(s < 1) /\ ~(s = 1 /\ k <= 0)
        OBVIOUS
      <3>1. s \in 1..Len(Flushed) /\ Flushed[s] \in Section
        BY <1>4, LenProperties, ElementOfSeq
      <3>2. Flushed[s].words \in Seq(Word)
        BY <3>1 DEF Section
      <3>3. k \in 1..Len(Flushed[s].words)
        BY <3>2, LenProperties
      <3> QED BY <3>1, <3>3
    <2> QED BY <1>2, <1>3, <2>1 DEF Cutting
  <1>9. Splitting' /\ ChunksKept'
    BY <1>2, <1>3 DEF Splitting, ChunksKept
  <1> QED BY <1>5, <1>6, <1>7, <1>8, <1>9

\* The section that is cut, and its window.
LEMMA CutFacts ==
    ASSUME ChunkerInv, Cut
    PROVE  LET words == sections[section].words
               end   == IF start + TargetTokens < Len(words) THEN start + TargetTokens
                        ELSE Len(words)
           IN /\ words \in Seq(Word) /\ sections[section].label \in AllLabels
              /\ Kept(text, words, sections[section].label)
              /\ end \in Nat /\ end <= Len(words)
              /\ NextStart(end) \in Nat /\ NextStart(end) <= end
  <1> USE DEF ChunkerInv
  <1>1. sections \in Seq(Section) /\ section \in DOMAIN sections /\ start \in Nat
    BY DEF Cut, ChunkerTypes
  <1>2. sections[section] \in Section
    BY <1>1
  <1>3. TargetTokens \in Nat /\ OverlapTokens \in Nat
    BY ChunkerConfig
  <1>4. sections[section].words \in Seq(Word) /\ sections[section].label \in AllLabels
    BY <1>2 DEF Section
  <1>5. Len(sections[section].words) \in Nat
    BY <1>4, LenProperties
  <1> QED BY <1>1, <1>3, <1>4, <1>5 DEF SectionsKept, NextStart

LEMMA CutKeeps ==
    ASSUME ChunkerInv, Cut
    PROVE  ChunkerInv'
  <1> USE DEF ChunkerInv
  <1> DEFINE words == sections[section].words
             lab   == sections[section].label
             end   == IF start + TargetTokens < Len(words) THEN start + TargetTokens
                      ELSE Len(words)
             part  == SubSeq(words, start + 1, end)
             new   == [chunk_index |-> Len(chunks), section |-> lab, words |-> part]
  <1>1. /\ text' = text /\ pc' = pc /\ pc = "cutting" /\ next' = next
        /\ label' = label /\ buffer' = buffer /\ sections' = sections
        /\ section \in DOMAIN sections
        /\ chunks' = Append(chunks, new)
    BY DEF Cut
  <1>2. \/ end >= Len(words) /\ section' = section + 1 /\ start' = 0
        \/ end < Len(words) /\ section' = section /\ start' = NextStart(end)
    <2>1. IF end >= Len(words) THEN section' = section + 1 /\ start' = 0
                               ELSE section' = section /\ start' = NextStart(end)
      BY DEF Cut
    <2> QED BY <2>1, CutFacts
  <1>3. /\ words \in Seq(Word) /\ lab \in AllLabels /\ Kept(text, words, lab)
        /\ end \in Nat /\ end <= Len(words) /\ start \in Nat
        /\ NextStart(end) \in Nat /\ NextStart(end) <= end
    BY CutFacts DEF ChunkerTypes
  <1> HIDE DEF words, lab, end
  <1>4. /\ part \in Seq(Word) /\ Kept(text, part, lab)
        /\ \A k \in (start + 1)..end : In(part, words[k])
    BY <1>3, Window
  <1> HIDE DEF part
  <1>5. chunks \in Seq(Chunk) /\ new \in Chunk
    BY <1>3, <1>4, LenProperties DEF ChunkerTypes, Chunk
  <1>6. new.chunk_index = Len(chunks) /\ new.section = lab /\ new.words = part
    OBVIOUS
  <1> HIDE DEF new
  <1>7. /\ chunks' \in Seq(Chunk) /\ Len(chunks) \in Nat
        /\ DOMAIN chunks' = 1..(Len(chunks) + 1) /\ DOMAIN chunks = 1..Len(chunks)
        /\ \A c \in DOMAIN chunks : chunks'[c] = chunks[c]
        /\ chunks'[Len(chunks) + 1] = new
    BY <1>1, <1>5, AppendProperties, LenProperties
  <1>8. /\ \A c \in DOMAIN chunks' : c \in DOMAIN chunks \/ c = Len(chunks) + 1
        /\ DOMAIN chunks \subseteq DOMAIN chunks' /\ Len(chunks) + 1 \in DOMAIN chunks'
    BY <1>7
  <1>9. section \in 1..Len(sections) /\ Len(sections) \in Nat
    BY <1>1, LenProperties DEF ChunkerTypes
  <1>10. ChunkerTypes'
    BY <1>1, <1>2, <1>3, <1>7, <1>9 DEF ChunkerTypes
  <1>11. ChunksKept'
    BY <1>1, <1>4, <1>6, <1>7, <1>8 DEF ChunksKept
  <1>12. Cutting'
    <2> SUFFICES ASSUME NEW s \in DOMAIN sections, NEW k \in DOMAIN sections[s].words,
                        s < section' \/ (s = section' /\ k <= start')
                 PROVE  \E c \in DOMAIN chunks' :
                            /\ chunks'[c].section = sections[s].label
                            /\ In(chunks'[c].words, sections[s].words[k])
      BY <1>1 DEF Cutting
    <2>1. s \in 1..Len(sections) /\ sections[s] \in Section
      BY <1>9, LenProperties, ElementOfSeq DEF ChunkerTypes
    <2>2. k \in 1..Len(sections[s].words) /\ Len(sections[s].words) \in Nat
      BY <2>1, LenProperties DEF Section
    <2>3. CASE s < section \/ (s = section /\ k <= start)
      <3>1. PICK c \in DOMAIN chunks :
                /\ chunks[c].section = sections[s].label
                /\ In(chunks[c].words, sections[s].words[k])
        BY <1>1, <2>3 DEF Cutting
      <3> QED BY <1>7, <1>8, <3>1
    <2>4. CASE s = section /\ k > start
      <3>1. k <= end
        BY <1>2, <1>3, <1>9, <2>1, <2>2, <2>4 DEF words
      <3>2. In(part, words[k])
        BY <1>3, <1>4, <2>2, <2>4, <3>1
      <3>3. sections[s].label = lab /\ sections[s].words[k] = words[k]
        BY <2>4 DEF lab, words
      <3> QED BY <1>6, <1>7, <1>8, <3>2, <3>3
    <2> QED BY <1>2, <1>3, <1>9, <2>1, <2>2, <2>3, <2>4
  <1>13. Splitting' /\ Split' /\ SectionsKept'
    BY <1>1 DEF Splitting, Split, SectionsKept
  <1> QED BY <1>10, <1>11, <1>12, <1>13

LEMMA ReturnKeeps ==
    ASSUME ChunkerInv, Return
    PROVE  ChunkerInv'
  BY DEF ChunkerInv, Return, ChunkerTypes, Splitting, Split, SectionsKept, ChunksKept,
         Cutting

LEMMA ChunkerInvStep == ChunkerInv /\ [ChunkerNext]_chunkerVars => ChunkerInv'
  <1> SUFFICES ASSUME ChunkerInv, [ChunkerNext]_chunkerVars PROVE ChunkerInv'
    OBVIOUS
  <1>1. CASE UNCHANGED chunkerVars
    BY <1>1 DEF chunkerVars, ChunkerInv, ChunkerTypes, Splitting, Split, SectionsKept,
                ChunksKept, Cutting
  <1> QED
    BY <1>1, ReadBlankKeeps, ReadHeadingKeeps, ReadTextKeeps, EndOfTextKeeps, CutKeeps,
       ReturnKeeps DEF ChunkerNext

-----------------------------------------------------------------------------
(***************************************************************************)
(* Chunker: what follows from the invariant.                               *)
(***************************************************************************)
LEMMA NothingLostInv == ChunkerInv => NoWordLost
  <1> SUFFICES ASSUME ChunkerInv, pc = "chunked",
                      NEW i \in DOMAIN text, text[i].kind = "text",
                      NEW j \in 1..text[i].size
               PROVE  \E c \in DOMAIN chunks :
                         /\ Under(i, chunks[c].section)
                         /\ \E k \in DOMAIN chunks[c].words : chunks[c].words[k] = <<i, j>>
    BY DEF NoWordLost
  <1> USE DEF ChunkerInv
  <1>1. PICK s \in DOMAIN sections : In(sections[s].words, <<i, j>>)
    BY DEF Split
  <1>2. PICK k \in DOMAIN sections[s].words : sections[s].words[k] = <<i, j>>
    BY <1>1 DEF In
  <1>3. s < section
    <2>1. s \in 1..Len(sections) /\ section \in 1..(Len(sections) + 1)
          /\ DOMAIN sections = 1..Len(sections) /\ section \notin DOMAIN sections
      BY LenProperties DEF ChunkerTypes, Cutting
    <2> QED BY <2>1
  <1>4. PICK c \in DOMAIN chunks : /\ chunks[c].section = sections[s].label
                                   /\ In(chunks[c].words, <<i, j>>)
    BY <1>2, <1>3 DEF Cutting
  <1>5. UnderIn(text, i, sections[s].label)
    BY <1>2 DEF SectionsKept, Kept
  <1>6. Under(i, sections[s].label)
    BY <1>5 DEF Under, UnderIn
  <1> QED BY <1>4, <1>6 DEF In

LEMMA TraceableInv == ChunkerInv => ChunksTraceable
  BY DEF ChunkerInv, ChunksKept, Kept, ChunksTraceable, IsWord, WordOf, Under, UnderIn

-----------------------------------------------------------------------------
(***************************************************************************)
(* Chunker: the order of words, for the windows.                           *)
(***************************************************************************)
Before(v, w) == v[1] < w[1] \/ (v[1] = w[1] /\ v[2] < w[2])

Rising(words) ==
    \A a, b \in DOMAIN words : a < b => Before(words[a], words[b])

\* Every word is of a line before line i.
Above(words, i) == \A k \in DOMAIN words : words[k][1] < i

\* There is a heading after each line of text before line i.
Fresh(t, i) ==
    \A g \in 1..(i - 1) : t[g].kind = "text" =>
        \E h \in g..(i - 1) : t[h].kind = "heading"

OpensIn(t, w) ==
    /\ w[2] = 1
    /\ \A g \in 1..(w[1] - 1) :
          t[g].kind = "text" => \E h \in g..w[1] : t[h].kind = "heading"

\* Sections open where a heading, or the text, does, and follow each other.
InOrder(t, ss) ==
    \A s \in DOMAIN ss :
        /\ ss[s].words # <<>>
        /\ Rising(ss[s].words)
        /\ OpensIn(t, ss[s].words[1])
        /\ \A u \in DOMAIN ss : s < u =>
              \A b \in DOMAIN ss[u].words : Above(ss[s].words, ss[u].words[b][1])

\* The buffer comes after them.
BufferInOrder ==
    pc = "splitting" =>
        /\ Rising(buffer)
        /\ Above(buffer, next)
        /\ buffer = <<>> => Fresh(text, next)
        /\ buffer # <<>> => OpensIn(text, buffer[1])
        /\ \A s \in DOMAIN sections :
              /\ Above(sections[s].words, next)
              /\ \A b \in DOMAIN buffer : Above(sections[s].words, buffer[b][1])

\* Chunks so far hold words of sections so far, of the current one only if its
\* start has been moved.
ChunksBehind ==
    \A c \in DOMAIN chunks : \A k \in DOMAIN chunks[c].words :
        \E s \in DOMAIN sections :
            /\ In(sections[s].words, chunks[c].words[k])
            /\ s < section \/ (s = section /\ start > 0)

\* The chunk before the window that is cut next, if it is of the same section.
LastWindow ==
    pc = "cutting" /\ section \in DOMAIN sections =>
        /\ start < Len(sections[section].words)
        /\ start > 0 =>
              LET e == start + OverlapTokens
              IN /\ chunks # <<>>
                 /\ TargetTokens <= e /\ e < Len(sections[section].words)
                 /\ chunks[Len(chunks)].words =
                       SubSeq(sections[section].words, e - TargetTokens + 1, e)

Layout ==
    /\ InOrder(text, sections)
    /\ BufferInOrder
    /\ ChunksBehind
    /\ LastWindow
    /\ WindowsOverlap

-----------------------------------------------------------------------------
LEMMA LayoutInit == ChunkerInit => Layout
  BY DEF ChunkerInit, Layout, InOrder, BufferInOrder, ChunksBehind, LastWindow,
         WindowsOverlap, Rising, Above, Fresh

\* Reading a line: the other half of the invariant has nothing to say yet.
LEMMA NothingCut ==
    ASSUME ChunkerInv, pc = "splitting", chunks' = chunks,
           pc' = "splitting" \/ (sections' \in Seq(Section) /\ section' = 1 /\ start' = 0
                                 /\ InOrder(text', sections'))
    PROVE  ChunksBehind' /\ LastWindow' /\ WindowsOverlap'
  <1>1. chunks' = <<>>
    BY DEF ChunkerInv, Splitting
  <1>2. ChunksBehind' /\ WindowsOverlap'
    BY <1>1 DEF ChunksBehind, WindowsOverlap
  <1>3. LastWindow'
    <2>1. CASE pc' = "splitting"
      BY <2>1 DEF LastWindow
    <2>2. CASE sections' \in Seq(Section) /\ section' = 1 /\ start' = 0
               /\ InOrder(text', sections')
      <3> SUFFICES ASSUME section' \in DOMAIN sections'
                   PROVE  start' < Len(sections'[section'].words)
        BY <2>2 DEF LastWindow
      <3>1. sections'[section'].words # <<>>
        BY <2>2 DEF InOrder
      <3>2. sections'[section'] \in Section
        BY <2>2
      <3>3. sections'[section'].words \in Seq(Word)
        BY <3>2 DEF Section
      <3> QED BY <2>2, <3>1, <3>3, EmptySeq
    <2> QED BY <2>1, <2>2
  <1> QED BY <1>2, <1>3

LEMMA RisingConcat ==
    ASSUME NEW b \in Seq(Word), NEW c \in Seq(Word), NEW n \in Nat,
           Rising(b), Rising(c), Above(b, n), \A k \in DOMAIN c : c[k][1] >= n
    PROVE  Rising(b \o c)
  <1> SUFFICES ASSUME NEW i \in DOMAIN (b \o c), NEW j \in DOMAIN (b \o c), i < j
               PROVE  Before((b \o c)[i], (b \o c)[j])
    BY DEF Rising
  <1>1. /\ DOMAIN (b \o c) = 1..(Len(b) + Len(c))
        /\ \A k \in DOMAIN b : (b \o c)[k] = b[k]
        /\ \A k \in DOMAIN c : (b \o c)[Len(b) + k] = c[k]
        /\ DOMAIN b = 1..Len(b) /\ DOMAIN c = 1..Len(c)
        /\ Len(b) \in Nat /\ Len(c) \in Nat
    BY ConcatProperties, LenProperties
  <1>2. CASE j <= Len(b)
    <2>1. i \in DOMAIN b /\ j \in DOMAIN b
      BY <1>1, <1>2
    <2> QED BY <1>1, <2>1 DEF Rising
  <1>3. CASE i > Len(b)
    <2>1. i - Len(b) \in DOMAIN c /\ j - Len(b) \in DOMAIN c
      BY <1>1, <1>3
    <2>2. /\ (b \o c)[i] = c[i - Len(b)] /\ (b \o c)[j] = c[j - Len(b)]
          /\ i - Len(b) < j - Len(b)
      <3>1. Len(b) + (i - Len(b)) = i /\ Len(b) + (j - Len(b)) = j
        BY <1>1
      <3> QED BY <1>1, <2>1, <3>1
    <2> QED BY <2>1, <2>2 DEF Rising
  <1>4. CASE i <= Len(b) /\ j > Len(b)
    <2>1. i \in DOMAIN b /\ j - Len(b) \in DOMAIN c /\ Len(b) + (j - Len(b)) = j
      BY <1>1, <1>4
    <2>2. (b \o c)[i] = b[i] /\ (b \o c)[j] = c[j - Len(b)]
      BY <1>1, <2>1
    <2>3. b[i] \in Word /\ c[j - Len(b)] \in Word
      BY <1>1, <2>1
    <2>4. b[i][1] < n /\ c[j - Len(b)][1] >= n
      BY <2>1 DEF Above
    <2>5. b[i][1] \in Nat /\ c[j - Len(b)][1] \in Nat
      BY <2>3 DEF Word
    <2>6. b[i][1] < c[j - Len(b)][1]
      BY <2>4, <2>5
    <2> QED BY <2>2, <2>6 DEF Before
  <1> QED BY <1>1, <1>2, <1>3, <1>4

LEMMA WordsOfRise ==
    ASSUME NEW t \in Seq(Line), NEW i \in DOMAIN t, t[i].kind = "text"
    PROVE  /\ WordsOf(t, i) \in Seq(Word) /\ Len(WordsOf(t, i)) > 0
           /\ WordsOf(t, i)[1] = <<i, 1>>
           /\ Rising(WordsOf(t, i))
           /\ \A k \in DOMAIN WordsOf(t, i) : WordsOf(t, i)[k][1] = i
  <1>1. t[i].size \in Nat \ {0} /\ i \in Nat
    BY LineKinds
  <1>2. WordsOf(t, i) \in Seq(Word) /\ Len(WordsOf(t, i)) = t[i].size
    BY <1>1 DEF WordsOf, Word
  <1>3. /\ DOMAIN WordsOf(t, i) = 1..t[i].size
        /\ \A j \in 1..t[i].size : WordsOf(t, i)[j] = <<i, j>>
    BY DEF WordsOf
  <1> HIDE DEF WordsOf
  <1> QED BY <1>1, <1>2, <1>3 DEF Rising, Before

\* Words above a line are above the next one.
LEMMA AboveNext ==
    ASSUME NEW words \in Seq(Word), NEW n \in Nat, Above(words, n)
    PROVE  Above(words, n + 1)
  <1> SUFFICES ASSUME NEW k \in DOMAIN words PROVE words[k][1] < n + 1
    BY DEF Above
  <1>1. words[k] \in Word /\ words[k][1] < n
    BY DEF Above
  <1> QED BY <1>1 DEF Word

LEMMA SectionWords ==
    ASSUME ChunkerInv, NEW s \in DOMAIN sections
    PROVE  sections[s].words \in Seq(Word) /\ sections[s].label \in AllLabels
  <1>1. sections[s] \in Section
    BY DEF ChunkerInv, ChunkerTypes
  <1> QED BY <1>1 DEF Section

LEMMA ReadBlankLayout ==
    ASSUME ChunkerInv, Layout, ReadBlank
    PROVE  Layout'
  <1>1. /\ text' = text /\ pc' = pc /\ pc = "splitting" /\ next' = next + 1
        /\ buffer' = buffer /\ sections' = sections /\ chunks' = chunks
        /\ text[next].kind = "blank"
    BY DEF ReadBlank, Reads
  <1>2. next \in Nat \ {0} /\ buffer \in Seq(Word)
    BY DEF ChunkerInv, ChunkerTypes
  <1>3. ChunksBehind' /\ LastWindow' /\ WindowsOverlap'
    BY <1>1, NothingCut
  <1>4. Above(buffer, next + 1) /\ \A s \in DOMAIN sections : Above(sections[s].words, next + 1)
    BY <1>1, <1>2, AboveNext, SectionWords DEF Layout, BufferInOrder
  <1>5. Fresh(text, next) => Fresh(text, next + 1)
    <2> SUFFICES ASSUME Fresh(text, next), NEW g \in 1..((next + 1) - 1),
                        text[g].kind = "text"
                 PROVE  \E h \in g..((next + 1) - 1) : text[h].kind = "heading"
      BY DEF Fresh
    <2>1. g \in 1..(next - 1)
      BY <1>1, <1>2
    <2>2. PICK h \in g..(next - 1) : text[h].kind = "heading"
      BY <2>1 DEF Fresh
    <2>3. h \in g..((next + 1) - 1)
      BY <1>2
    <2> QED BY <2>2, <2>3
  <1> QED BY <1>1, <1>3, <1>4, <1>5 DEF Layout, BufferInOrder

LEMMA ReadTextLayout ==
    ASSUME ChunkerInv, Layout, ReadText
    PROVE  Layout'
  <1> DEFINE more == WordsOf(text, next)
  <1>1. /\ text' = text /\ pc' = pc /\ pc = "splitting" /\ next' = next + 1
        /\ buffer' = buffer \o more /\ sections' = sections /\ chunks' = chunks
        /\ text[next].kind = "text" /\ next \in DOMAIN text
    BY DEF ReadText, Reads, WordsOf
  <1>2. next \in Nat \ {0} /\ buffer \in Seq(Word) /\ text \in Seq(Line)
    BY ChunkerConfig DEF ChunkerInv, ChunkerTypes
  <1>3. ChunksBehind' /\ LastWindow' /\ WindowsOverlap'
    BY <1>1, NothingCut
  <1>4. /\ more \in Seq(Word) /\ Len(more) > 0 /\ more[1] = <<next, 1>> /\ Rising(more)
        /\ \A k \in DOMAIN more : more[k][1] = next
    BY <1>1, <1>2, WordsOfRise
  <1> HIDE DEF more
  <1>5. /\ DOMAIN (buffer \o more) = 1..(Len(buffer) + Len(more))
        /\ \A k \in DOMAIN buffer : (buffer \o more)[k] = buffer[k]
        /\ \A k \in DOMAIN more : (buffer \o more)[Len(buffer) + k] = more[k]
        /\ DOMAIN buffer = 1..Len(buffer) /\ DOMAIN more = 1..Len(more)
        /\ Len(buffer) \in Nat /\ Len(more) \in Nat
        /\ buffer \o more \in Seq(Word)
    BY <1>2, <1>4, ConcatProperties, LenProperties
  <1>6. ASSUME NEW k \in DOMAIN (buffer \o more)
        PROVE  \/ k \in DOMAIN buffer /\ (buffer \o more)[k] = buffer[k]
               \/ (buffer \o more)[k][1] = next
    <2>1. CASE k <= Len(buffer)
      BY <1>5, <2>1
    <2>2. CASE k > Len(buffer)
      <3>1. k - Len(buffer) \in DOMAIN more /\ Len(buffer) + (k - Len(buffer)) = k
        BY <1>5, <2>2
      <3> QED BY <1>4, <1>5, <3>1
    <2> QED BY <1>5, <2>1, <2>2
  <1>7. Rising(buffer \o more)
    <2>1. Rising(buffer) /\ Above(buffer, next)
      BY <1>1 DEF Layout, BufferInOrder
    <2>2. \A k \in DOMAIN more : more[k][1] >= next
      BY <1>2, <1>4
    <2> QED BY <1>2, <1>4, <2>1, <2>2, RisingConcat
  <1>8. Above(buffer, next + 1) /\ \A s \in DOMAIN sections : Above(sections[s].words, next + 1)
    BY <1>1, <1>2, AboveNext, SectionWords DEF Layout, BufferInOrder
  <1>9. Above(buffer \o more, next + 1)
    BY <1>2, <1>6, <1>8 DEF Above
  <1>10. buffer \o more # <<>> /\ OpensIn(text, (buffer \o more)[1])
    <2>1. buffer \o more # <<>>
      BY <1>4, <1>5, LenProperties, EmptySeq
    <2>2. CASE buffer = <<>>
      <3>1. (buffer \o more)[1] = <<next, 1>>
        <4>1. Len(buffer) + 1 = 1 /\ 1 \in DOMAIN more
          BY <1>4, <1>5, <2>2
        <4> QED BY <1>4, <1>5, <4>1
      <3>2. ASSUME NEW g \in 1..(next - 1), text[g].kind = "text"
            PROVE  \E h \in g..next : text[h].kind = "heading"
        <4>1. PICK h \in g..(next - 1) : text[h].kind = "heading"
          BY <1>1, <2>2, <3>2 DEF Layout, BufferInOrder, Fresh
        <4> QED BY <1>2, <4>1
      <3> QED BY <2>1, <3>1, <3>2 DEF OpensIn
    <2>3. CASE buffer # <<>>
      <3>1. 1 \in DOMAIN buffer
        BY <1>2, <1>5, <2>3, EmptySeq
      <3> QED BY <1>1, <1>5, <2>1, <2>3, <3>1 DEF Layout, BufferInOrder
    <2> QED BY <2>2, <2>3
  <1>11. \A s \in DOMAIN sections : \A b \in DOMAIN (buffer \o more) :
            Above(sections[s].words, (buffer \o more)[b][1])
    <2> SUFFICES ASSUME NEW s \in DOMAIN sections, NEW b \in DOMAIN (buffer \o more)
                 PROVE  Above(sections[s].words, (buffer \o more)[b][1])
      OBVIOUS
    <2>1. Above(sections[s].words, next)
      BY <1>1 DEF Layout, BufferInOrder
    <2> QED BY <1>1, <1>6, <2>1 DEF Layout, BufferInOrder
  <1> QED
    BY <1>1, <1>3, <1>7, <1>8, <1>9, <1>10, <1>11 DEF Layout, BufferInOrder

\* The buffer becomes the last section.
LEMMA FlushedInOrder ==
    ASSUME ChunkerInv, Layout, pc = "splitting"
    PROVE  /\ InOrder(text, Flushed)
           /\ \A s \in DOMAIN Flushed : Above(Flushed[s].words, next)
  <1>1. CASE buffer = <<>>
    BY <1>1 DEF Flushed, Layout, BufferInOrder
  <1>2. CASE buffer # <<>>
    <2> DEFINE new == [label |-> label, words |-> buffer]
    <2>1. new \in Section /\ sections \in Seq(Section)
      BY DEF ChunkerInv, ChunkerTypes, Section
    <2>2. Flushed = Append(sections, new) /\ new.words = buffer
      BY <1>2 DEF Flushed
    <2> HIDE DEF new
    <2>3. /\ DOMAIN Flushed = 1..(Len(sections) + 1)
          /\ \A s \in DOMAIN sections : Flushed[s] = sections[s]
          /\ Flushed[Len(sections) + 1] = new
          /\ DOMAIN sections = 1..Len(sections) /\ Len(sections) \in Nat
      BY <2>1, <2>2, AppendProperties, LenProperties
    <2>4. /\ Rising(buffer) /\ Above(buffer, next) /\ OpensIn(text, buffer[1])
          /\ \A s \in DOMAIN sections :
                /\ Above(sections[s].words, next)
                /\ \A b \in DOMAIN buffer : Above(sections[s].words, buffer[b][1])
      BY <1>2 DEF Layout, BufferInOrder
    <2>5. ASSUME NEW s \in DOMAIN Flushed
          PROVE  /\ Above(Flushed[s].words, next)
                 /\ Flushed[s].words # <<>> /\ Rising(Flushed[s].words)
                 /\ OpensIn(text, Flushed[s].words[1])
                 /\ \A u \in DOMAIN Flushed : s < u =>
                       \A b \in DOMAIN Flushed[u].words :
                           Above(Flushed[s].words, Flushed[u].words[b][1])
      <3>1. CASE s = Len(sections) + 1
        BY <1>2, <2>2, <2>3, <2>4, <3>1
      <3>2. CASE s \in DOMAIN sections
        <4>1. Flushed[s] = sections[s]
          BY <2>3, <3>2
        <4>2. ASSUME NEW u \in DOMAIN Flushed, s < u, NEW b \in DOMAIN Flushed[u].words
              PROVE  Above(sections[s].words, Flushed[u].words[b][1])
          <5>1. CASE u = Len(sections) + 1
            BY <2>2, <2>3, <2>4, <3>2, <5>1
          <5>2. CASE u \in DOMAIN sections
            BY <2>3, <3>2, <4>2, <5>2 DEF Layout, InOrder
          <5> QED BY <2>3, <5>1, <5>2
        <4> QED BY <2>4, <3>2, <4>1, <4>2 DEF Layout, InOrder
      <3> QED BY <2>3, <3>1, <3>2
    <2> QED BY <2>5 DEF InOrder
  <1> QED BY <1>1, <1>2

LEMMA ReadHeadingLayout ==
    ASSUME ChunkerInv, Layout, ReadHeading
    PROVE  Layout'
  <1>1. /\ text' = text /\ pc' = pc /\ pc = "splitting" /\ next' = next + 1
        /\ buffer' = <<>> /\ sections' = Flushed /\ chunks' = chunks
        /\ text[next].kind = "heading"
    BY DEF ReadHeading, Reads
  <1>2. next \in Nat \ {0}
    BY DEF ChunkerInv, ChunkerTypes
  <1>3. ChunksBehind' /\ LastWindow' /\ WindowsOverlap'
    BY <1>1, NothingCut
  <1>4. Flushed \in Seq(Section)
    BY <1>1, FlushedKeeps
  <1>5. InOrder(text, Flushed) /\ \A s \in DOMAIN Flushed : Above(Flushed[s].words, next)
    BY <1>1, FlushedInOrder
  <1> HIDE DEF Flushed
  <1>6. \A s \in DOMAIN Flushed : Above(Flushed[s].words, next + 1)
    <2> SUFFICES ASSUME NEW s \in DOMAIN Flushed PROVE Above(Flushed[s].words, next + 1)
      OBVIOUS
    <2>1. Flushed[s] \in Section
      BY <1>4
    <2>2. Flushed[s].words \in Seq(Word)
      BY <2>1 DEF Section
    <2> QED BY <1>2, <1>5, <2>2, AboveNext
  <1>7. Fresh(text, next + 1)
    <2> SUFFICES ASSUME NEW g \in 1..((next + 1) - 1)
                 PROVE  \E h \in g..((next + 1) - 1) : text[h].kind = "heading"
      BY DEF Fresh
    <2>1. next \in g..((next + 1) - 1)
      BY <1>2
    <2> QED BY <1>1, <2>1
  <1>8. Rising(<<>>) /\ Above(<<>>, next + 1)
    BY DEF Rising, Above
  <1> QED
    BY <1>1, <1>3, <1>5, <1>6, <1>7, <1>8 DEF Layout, BufferInOrder

LEMMA EndOfTextLayout ==
    ASSUME ChunkerInv, Layout, EndOfText
    PROVE  Layout'
  <1>1. /\ text' = text /\ pc = "splitting" /\ pc' = "cutting" /\ sections' = Flushed
        /\ chunks' = chunks /\ section' = section /\ start' = start
    BY DEF EndOfText
  <1>2. section = 1 /\ start = 0
    BY <1>1 DEF ChunkerInv, Splitting
  <1>3. Flushed \in Seq(Section) /\ InOrder(text, Flushed)
    BY <1>1, FlushedKeeps, FlushedInOrder
  <1> HIDE DEF Flushed
  <1>4. ChunksBehind' /\ LastWindow' /\ WindowsOverlap'
    BY <1>1, <1>2, <1>3, NothingCut
  <1> QED BY <1>1, <1>3, <1>4 DEF Layout, BufferInOrder

-----------------------------------------------------------------------------
(***************************************************************************)
(* Chunker: cutting a window.                                              *)
(***************************************************************************)
LEMMA Slice ==
    ASSUME NEW words \in Seq(Word), NEW from \in Nat, NEW end \in Nat,
           from < end, end <= Len(words)
    PROVE  LET part == SubSeq(words, from + 1, end)
           IN /\ part \in Seq(Word)
              /\ Len(part) = end - from
              /\ DOMAIN part = 1..(end - from)
              /\ \A k \in 1..(end - from) : part[k] = words[from + k]
  <1> DEFINE part == SubSeq(words, from + 1, end)
  <1>1. \A k \in (from + 1)..end : words[k] \in Word
    BY LenProperties, ElementOfSeq
  <1>2. /\ part \in Seq(Word)
        /\ Len(part) = IF from + 1 <= end THEN end - (from + 1) + 1 ELSE 0
        /\ \A i \in 1..(end - (from + 1) + 1) : part[i] = words[(from + 1) + i - 1]
    BY <1>1, SubSeqProperties
  <1> HIDE DEF part
  <1>3. Len(part) = end - from /\ DOMAIN part = 1..(end - from)
    BY <1>2, LenProperties
  <1>4. ASSUME NEW k \in 1..(end - from) PROVE part[k] = words[from + k]
    <2>1. k \in 1..(end - (from + 1) + 1) /\ (from + 1) + k - 1 = from + k
      OBVIOUS
    <2> QED BY <1>2, <2>1
  <1> QED BY <1>2, <1>3, <1>4 DEF part

\* A word of a rising sequence is not among those before it.
LEMMA NotBefore ==
    ASSUME NEW words \in Seq(Word), Rising(words),
           NEW a \in DOMAIN words, NEW b \in DOMAIN words, a < b
    PROVE  words[a] # words[b]
  <1>1. words[a] \in Word /\ words[b] \in Word /\ Before(words[a], words[b])
    BY DEF Rising
  <1> QED BY <1>1 DEF Before, Word

\* The window that Cut appends is one WindowsOverlap speaks of.
LEMMA WindowFits ==
    ASSUME ChunkerInv, Layout, pc = "cutting", section \in DOMAIN sections,
           NEW end \in Nat, start < end, end <= start + TargetTokens,
           end <= Len(sections[section].words),
           start + OverlapTokens < Len(sections[section].words) => start + OverlapTokens < end,
           NEW part, part = SubSeq(sections[section].words, start + 1, end)
    PROVE  /\ Len(part) \in 1..TargetTokens
           /\ \/ Opens(part[1])
              \/ /\ chunks # <<>>
                 /\ Len(part) > OverlapTokens
                 /\ Len(chunks[Len(chunks)].words) = TargetTokens
                 /\ \A k \in 1..OverlapTokens :
                       part[k] = chunks[Len(chunks)].words[TargetTokens - OverlapTokens + k]
           /\ chunks # <<>> => part[Len(part)] \notin Range(chunks[Len(chunks)].words)
  <1> DEFINE words == sections[section].words
             prev  == chunks[Len(chunks)].words
  <1>1. /\ words \in Seq(Word) /\ Len(words) \in Nat /\ DOMAIN words = 1..Len(words)
        /\ start \in Nat /\ TargetTokens \in Nat /\ OverlapTokens \in Nat
        /\ OverlapTokens < TargetTokens /\ end <= Len(words)
    BY SectionWords, LenProperties, ChunkerConfig DEF ChunkerInv, ChunkerTypes
  <1>2. /\ Rising(words) /\ OpensIn(text, words[1])
        /\ \A s \in DOMAIN sections : s < section =>
              \A b \in DOMAIN words : Above(sections[s].words, words[b][1])
    BY DEF Layout, InOrder
  <1>3. /\ Len(part) = end - start /\ DOMAIN part = 1..(end - start)
        /\ \A k \in 1..(end - start) : part[k] = words[start + k]
    BY <1>1, Slice
  <1>4. chunks # <<>> => Len(chunks) \in DOMAIN chunks
    BY LenProperties, EmptySeq DEF ChunkerInv, ChunkerTypes
  <1>5. start > 0 =>
            /\ chunks # <<>>
            /\ TargetTokens <= start + OverlapTokens
            /\ start + OverlapTokens < Len(words)
            /\ prev = SubSeq(words, (start + OverlapTokens) - TargetTokens + 1,
                             start + OverlapTokens)
    BY DEF Layout, LastWindow
  <1>6. \A k \in DOMAIN prev : chunks # <<>> =>
            \E s \in DOMAIN sections :
                /\ In(sections[s].words, prev[k])
                /\ s < section \/ (s = section /\ start > 0)
    BY <1>4 DEF Layout, ChunksBehind
  <1>7. start + OverlapTokens < Len(words) => start + OverlapTokens < end
    OBVIOUS
  <1> HIDE DEF words, prev
  <1>8. Len(part) \in 1..TargetTokens
    BY <1>1, <1>3
  <1>9. part[Len(part)] = words[end] /\ end \in DOMAIN words /\ words[end] \in Word
    <2>1. end - start \in 1..(end - start) /\ start + (end - start) = end
          /\ end \in 1..Len(words)
      BY <1>1
    <2>2. words[end] \in Word
      BY <1>1, <2>1, ElementOfSeq
    <2>3. part[end - start] = words[start + (end - start)]
      BY <1>3, <2>1
    <2> QED BY <1>1, <1>3, <2>1, <2>2, <2>3
  <1>10. CASE start = 0
    <2>1. Opens(part[1])
      <3>1. part[1] = words[1]
        BY <1>1, <1>3, <1>10
      <3> QED BY <1>2, <3>1 DEF Opens, OpensIn
    <2>2. ASSUME chunks # <<>>, NEW k \in DOMAIN prev PROVE prev[k] # words[end]
      <3>1. PICK s \in DOMAIN sections : In(sections[s].words, prev[k]) /\ s < section
        BY <1>6, <1>10, <2>2
      <3>2. Above(sections[s].words, words[end][1])
        BY <1>2, <1>9, <3>1
      <3>3. PICK m \in DOMAIN sections[s].words : sections[s].words[m] = prev[k]
        BY <3>1 DEF In
      <3>4. prev[k][1] < words[end][1]
        BY <3>2, <3>3 DEF Above
      <3>5. words[end][1] \in Nat
        BY <1>9 DEF Word
      <3> QED BY <3>4, <3>5
    <2> QED BY <1>8, <1>9, <2>1, <2>2 DEF prev, Range
  <1>11. CASE start > 0
    <2> DEFINE from == (start + OverlapTokens) - TargetTokens
    <2>1. /\ from \in Nat /\ start + OverlapTokens \in Nat
          /\ from < start + OverlapTokens /\ start + OverlapTokens <= Len(words)
          /\ start + OverlapTokens - from = TargetTokens
          /\ start + OverlapTokens < end
      BY <1>1, <1>5, <1>7, <1>11
    <2>2. /\ Len(prev) = TargetTokens /\ DOMAIN prev = 1..TargetTokens
          /\ \A k \in 1..TargetTokens : prev[k] = words[from + k]
      <3>1. prev = SubSeq(words, from + 1, start + OverlapTokens)
        BY <1>5, <1>11
      <3> HIDE DEF from
      <3> QED BY <1>1, <2>1, <3>1, Slice
    <2>3. Len(part) > OverlapTokens
      BY <1>1, <1>3, <2>1
    <2>4. ASSUME NEW k \in 1..OverlapTokens
          PROVE  part[k] = prev[TargetTokens - OverlapTokens + k]
      <3>1. k \in 1..(end - start) /\ TargetTokens - OverlapTokens + k \in 1..TargetTokens
            /\ from + (TargetTokens - OverlapTokens + k) = start + k
        BY <1>1, <2>1
      <3> QED BY <1>3, <2>2, <3>1
    <2>5. ASSUME NEW k \in DOMAIN prev PROVE prev[k] # words[end]
      <3>1. from + k \in DOMAIN words /\ from + k < end /\ prev[k] = words[from + k]
        <4>1. k \in 1..TargetTokens
          BY <2>2
        <4>2. from + k \in 1..Len(words) /\ from + k < end
          BY <1>1, <2>1, <4>1
        <4> QED BY <1>1, <2>2, <4>1, <4>2
      <3> QED BY <1>1, <1>2, <1>9, <3>1, NotBefore
    <2> QED BY <1>5, <1>8, <1>9, <1>11, <2>2, <2>3, <2>4, <2>5 DEF prev, Range
  <1>12. start = 0 \/ start > 0
    BY <1>1
  <1> QED BY <1>10, <1>11, <1>12

LEMMA CutLayout ==
    ASSUME ChunkerInv, Layout, Cut
    PROVE  Layout'
  <1> DEFINE words == sections[section].words
             end   == IF start + TargetTokens < Len(words) THEN start + TargetTokens
                      ELSE Len(words)
             part  == SubSeq(words, start + 1, end)
             new   == [chunk_index |-> Len(chunks), section |-> sections[section].label,
                       words |-> part]
  <1>1. /\ text' = text /\ pc' = pc /\ pc = "cutting" /\ next' = next
        /\ buffer' = buffer /\ sections' = sections /\ section \in DOMAIN sections
        /\ chunks' = Append(chunks, new)
    BY DEF Cut
  <1>2. \/ end >= Len(words) /\ section' = section + 1 /\ start' = 0
        \/ end < Len(words) /\ section' = section /\ start' = NextStart(end)
    <2>1. IF end >= Len(words) THEN section' = section + 1 /\ start' = 0
                               ELSE section' = section /\ start' = NextStart(end)
      BY DEF Cut
    <2> QED BY <2>1, CutFacts
  <1>3. /\ words \in Seq(Word) /\ Len(words) \in Nat /\ DOMAIN words = 1..Len(words)
        /\ start \in Nat /\ TargetTokens \in Nat /\ OverlapTokens \in Nat
        /\ OverlapTokens < TargetTokens /\ section \in Nat
        /\ start < Len(words)
    BY <1>1, SectionWords, LenProperties, ChunkerConfig
    DEF ChunkerInv, ChunkerTypes, Layout, LastWindow
  <1>4. /\ end \in Nat /\ start < end /\ end <= start + TargetTokens /\ end <= Len(words)
        /\ start + OverlapTokens < Len(words) => start + OverlapTokens < end
        /\ end < Len(words) => end = start + TargetTokens
    BY <1>3
  <1> HIDE DEF end
  <1>5. /\ part \in Seq(Word) /\ Len(part) = end - start /\ DOMAIN part = 1..(end - start)
        /\ \A k \in 1..(end - start) : part[k] = words[start + k]
    BY <1>3, <1>4, Slice
  <1>6. /\ Len(part) \in 1..TargetTokens
        /\ \/ Opens(part[1])
           \/ /\ chunks # <<>>
              /\ Len(part) > OverlapTokens
              /\ Len(chunks[Len(chunks)].words) = TargetTokens
              /\ \A k \in 1..OverlapTokens :
                    part[k] = chunks[Len(chunks)].words[TargetTokens - OverlapTokens + k]
        /\ chunks # <<>> => part[Len(part)] \notin Range(chunks[Len(chunks)].words)
    BY <1>1, <1>4, WindowFits
  <1>7. /\ chunks \in Seq(Chunk) /\ new \in Chunk
        /\ new.chunk_index = Len(chunks) /\ new.words = part
    <2>1. chunks \in Seq(Chunk) /\ Len(chunks) \in Nat
          /\ sections[section].label \in AllLabels
      BY <1>1, SectionWords, LenProperties DEF ChunkerInv, ChunkerTypes
    <2> QED BY <1>5, <2>1 DEF Chunk
  <1> DEFINE last == SubSeq(words, end - TargetTokens + 1, end)
  <1>8. end < Len(words) => part = last
    <2> SUFFICES ASSUME end < Len(words) PROVE part = last
      OBVIOUS
    <2>1. end - TargetTokens + 1 = start + 1
      BY <1>3, <1>4
    <2> QED BY <2>1
  <1> HIDE DEF part, new, last
  <1>9. /\ DOMAIN chunks' = 1..(Len(chunks) + 1) /\ DOMAIN chunks = 1..Len(chunks)
        /\ Len(chunks) \in Nat /\ Len(chunks') = Len(chunks) + 1
        /\ \A c \in DOMAIN chunks : chunks'[c] = chunks[c]
        /\ chunks'[Len(chunks) + 1] = new /\ chunks' # <<>>
    <2>1. /\ chunks' \in Seq(Chunk) /\ Len(chunks) \in Nat
          /\ Len(chunks') = Len(chunks) + 1
          /\ \A c \in 1..Len(chunks) : chunks'[c] = chunks[c]
          /\ chunks'[Len(chunks) + 1] = new
      BY <1>1, <1>7, AppendProperties, LenProperties
    <2> QED BY <1>7, <2>1, LenProperties, EmptySeq
  <1>10. InOrder(text, sections)
    BY DEF Layout
  <1>11. start' > 0 \/ section < section'
    BY <1>2, <1>3, <1>4 DEF NextStart
  <1>12. ChunksBehind'
    <2> SUFFICES ASSUME NEW c \in DOMAIN chunks', NEW k \in DOMAIN chunks'[c].words
                 PROVE  \E s \in DOMAIN sections :
                            /\ In(sections[s].words, chunks'[c].words[k])
                            /\ s < section' \/ (s = section' /\ start' > 0)
      BY <1>1 DEF ChunksBehind
    <2>1. CASE c \in DOMAIN chunks
      <3>1. PICK s \in DOMAIN sections :
                /\ In(sections[s].words, chunks[c].words[k])
                /\ s < section \/ (s = section /\ start > 0)
        BY <1>9, <2>1 DEF Layout, ChunksBehind
      <3>2. s \in Nat
        BY LenProperties DEF ChunkerInv, ChunkerTypes
      <3>3. s < section' \/ (s = section' /\ start' > 0)
        BY <1>2, <1>3, <1>11, <3>1, <3>2
      <3> QED BY <1>9, <2>1, <3>1, <3>3
    <2>2. CASE c = Len(chunks) + 1
      <3>1. chunks'[c].words = part /\ k \in 1..(end - start)
        BY <1>5, <1>7, <1>9, <2>2
      <3>2. start + k \in DOMAIN words /\ part[k] = words[start + k]
        <4>1. start + k \in 1..Len(words)
          BY <1>3, <1>4, <3>1
        <4>2. part[k] = words[start + k]
          BY <1>5, <3>1
        <4> QED BY <1>3, <4>1, <4>2
      <3>3. In(sections[section].words, part[k])
        BY <3>2 DEF In, words
      <3>4. section < section' \/ (section = section' /\ start' > 0)
        BY <1>2, <1>3, <1>11
      <3> QED BY <1>1, <3>1, <3>3, <3>4
    <2> QED BY <1>9, <2>1, <2>2
  <1>13. LastWindow'
    <2> SUFFICES ASSUME section' \in DOMAIN sections
                 PROVE  /\ start' < Len(sections[section'].words)
                        /\ start' > 0 =>
                              LET e == start' + OverlapTokens
                              IN /\ chunks' # <<>>
                                 /\ TargetTokens <= e
                                 /\ e < Len(sections[section'].words)
                                 /\ chunks'[Len(chunks')].words =
                                       SubSeq(sections[section'].words,
                                              e - TargetTokens + 1, e)
      BY <1>1 DEF LastWindow
    <2>1. CASE section' = section + 1 /\ start' = 0
      <3>1. sections[section'].words # <<>> /\ sections[section'].words \in Seq(Word)
        BY <1>10, SectionWords DEF InOrder
      <3>2. Len(sections[section'].words) \in Nat \ {0}
        BY <3>1, LenProperties, EmptySeq
      <3> QED BY <2>1, <3>2
    <2>2. CASE end < Len(words) /\ section' = section /\ start' = NextStart(end)
      <3>1. start' + OverlapTokens = end /\ start' < Len(words) /\ TargetTokens <= end
        BY <1>3, <1>4, <2>2 DEF NextStart
      <3>2. chunks'[Len(chunks')].words = part /\ part = last
        BY <1>7, <1>8, <1>9, <2>2
      <3> QED BY <1>9, <2>2, <3>1, <3>2 DEF last, words
    <2> QED BY <1>2, <2>1, <2>2
  <1>14. WindowsOverlap'
    <2> SUFFICES ASSUME NEW c \in DOMAIN chunks'
                 PROVE  LET w == chunks'[c].words
                        IN /\ chunks'[c].chunk_index = c - 1
                           /\ Len(w) \in 1..TargetTokens
                           /\ \/ Opens(w[1])
                              \/ /\ c > 1
                                 /\ Len(w) > OverlapTokens
                                 /\ Len(chunks'[c - 1].words) = TargetTokens
                                 /\ \A k \in 1..OverlapTokens :
                                       w[k] = chunks'[c - 1].words[TargetTokens - OverlapTokens + k]
                           /\ c > 1 => w[Len(w)] \notin Range(chunks'[c - 1].words)
      BY <1>1 DEF WindowsOverlap, Opens
    <2>1. c > 1 => c - 1 \in DOMAIN chunks /\ chunks'[c - 1] = chunks[c - 1]
      BY <1>9
    <2>2. CASE c \in DOMAIN chunks
      <3>1. chunks'[c] = chunks[c]
        BY <1>9, <2>2
      <3> QED BY <2>1, <2>2, <3>1 DEF Layout, WindowsOverlap
    <2>3. CASE c = Len(chunks) + 1
      <3>1. chunks'[c].words = part /\ chunks'[c].chunk_index = c - 1 /\ c - 1 = Len(chunks)
        BY <1>7, <1>9, <2>3
      <3>2. c > 1 <=> chunks # <<>>
        BY <1>7, <1>9, <2>3, EmptySeq
      <3> QED BY <1>6, <2>1, <3>1, <3>2
    <2> QED BY <1>9, <2>2, <2>3
  <1> QED
    BY <1>1, <1>10, <1>12, <1>13, <1>14 DEF Layout, BufferInOrder

LEMMA ReturnLayout ==
    ASSUME Layout, Return
    PROVE  Layout'
  BY DEF Layout, Return, InOrder, BufferInOrder, ChunksBehind, LastWindow, WindowsOverlap,
         Opens

LEMMA LayoutStep == ChunkerInv /\ Layout /\ [ChunkerNext]_chunkerVars => Layout'
  <1> SUFFICES ASSUME ChunkerInv, Layout, [ChunkerNext]_chunkerVars PROVE Layout'
    OBVIOUS
  <1>1. CASE UNCHANGED chunkerVars
    BY <1>1 DEF chunkerVars, Layout, InOrder, BufferInOrder, ChunksBehind, LastWindow,
                WindowsOverlap, Opens
  <1> QED
    BY <1>1, ReadBlankLayout, ReadHeadingLayout, ReadTextLayout, EndOfTextLayout,
       CutLayout, ReturnLayout DEF ChunkerNext

-----------------------------------------------------------------------------
(***************************************************************************)
(* Attribution: the inductive invariant, if every chunk_id is used once.   *)
(***************************************************************************)
UniqueIds == \A r, s \in index : r.chunk_id = s.chunk_id => r = s

CitationOf(i, m) ==
    [citation_id |-> i,
     doc_id      |-> results[m].document_id,
     chunk_id    |-> results[m].chunk_id,
     section     |-> results[m].section,
     rank        |-> m]

Citation == {CitationOf(i, m) : i \in Nat, m \in DOMAIN results}

AttributionTypes ==
    /\ phase \in {"idle", "citing", "prompting", "asking", "answered"}
    /\ max \in Nat \ {0}
    /\ results \in Seq(index) /\ Len(results) <= Larger(max, RetrievalLimit)
    /\ rank \in 1..(Len(results) + 1)
    /\ citations \in Seq(Citation)
    /\ seen \subseteq {Key(results[m]) : m \in DOMAIN results}
    /\ source \in {"nobody", "model", "extractive", "fallback"}
    /\ cited \subseteq Nat /\ unsupported \subseteq cited

\* The first half of CitationsSound.
Best ==
    /\ Len(citations) <= max
    /\ \A i \in DOMAIN citations :
          /\ citations[i] = CitationOf(i, citations[i].rank)
          /\ citations[i].rank \in DOMAIN results
          /\ \A m \in 1..(citations[i].rank - 1) :
                Key(results[m]) # Key(results[citations[i].rank])
          /\ i > 1 => citations[i - 1].rank < citations[i].rank

\* The result has its section cited, for one that is not worse.
Covered(m) ==
    \E i \in DOMAIN citations :
        /\ Key(results[m]) = <<citations[i].doc_id, citations[i].section>>
        /\ citations[i].rank <= m

\* In the loop of build_citations.
WhileCiting ==
    phase = "citing" =>
        /\ Len(citations) < max
        /\ \A m \in 1..(rank - 1) : Key(results[m]) \in seen /\ Covered(m)
        /\ \A key \in seen : \E m \in 1..(rank - 1) : Key(results[m]) = key
        /\ \A i \in DOMAIN citations : citations[i].rank < rank

\* The other half of CitationsSound.
Complete ==
    Cited => \A m \in DOMAIN results :
        Covered(m) \/ (Len(citations) = max /\ citations[max].rank < m)

Prompted ==
    blocks = IF phase \in {"asking", "answered"} THEN ContextBlocks(RetrievalLimit)
             ELSE <<>>

Validated ==
    phase = "answered" => cited \in Answers(source) /\ unsupported = Unsupported(cited)

AttributionInv ==
    /\ AttributionTypes
    /\ Best
    /\ WhileCiting
    /\ Complete
    /\ Prompted
    /\ Validated

-----------------------------------------------------------------------------
\* No query, or one at its start.
LEMMA NoQueryInv ==
    ASSUME NoQuery
    PROVE  AttributionInv
  <1>1. AttributionTypes
    BY AttributionConfig DEF NoQuery, AttributionTypes, Larger
  <1> QED
    BY <1>1 DEF NoQuery, AttributionInv, Best, WhileCiting, Complete, Cited, Prompted,
                Validated

LEMMA RetrieveKeeps ==
    ASSUME Retrieve
    PROVE  AttributionInv'
  <1>1. PICK m \in Asked : \E rs \in Rankings(Larger(m, RetrievalLimit)) :
                              Begin("citing", m, rs)
    BY DEF Retrieve
  <1>2. PICK rs \in Rankings(Larger(m, RetrievalLimit)) : Begin("citing", m, rs)
    BY <1>1
  <1>3. m \in Nat \ {0} /\ Larger(m, RetrievalLimit) \in Nat
    BY AttributionConfig DEF Larger
  <1>4. PICK n \in 0..Larger(m, RetrievalLimit) : rs \in [1..n -> index]
    BY <1>2 DEF Rankings
  <1>5. n \in Nat /\ rs \in Seq(index) /\ Len(rs) <= Larger(m, RetrievalLimit)
    BY <1>3, <1>4
  <1>6. /\ phase' = "citing" /\ max' = m /\ results' = rs /\ rank' = 1 /\ seen' = {}
        /\ citations' = <<>> /\ blocks' = <<>> /\ source' = "nobody"
        /\ cited' = {} /\ unsupported' = {} /\ index' = index
    BY <1>2 DEF Begin
  <1>7. AttributionTypes'
    <2>1. <<>> \in Seq(Citation') /\ Len(rs) \in Nat
      BY <1>5, LenProperties
    <2> QED BY <1>3, <1>5, <1>6, <2>1 DEF AttributionTypes, Larger
  <1>8. Len(<<>>) = 0
    OBVIOUS
  <1> QED
    BY <1>3, <1>6, <1>7, <1>8 DEF AttributionInv, Best, WhileCiting, Complete, Cited,
                                   Prompted, Validated

LEMMA RespondKeeps ==
    ASSUME Respond
    PROVE  AttributionInv'
  <1>1. NoQuery'
    BY DEF Respond, Begin, NoQuery
  <1> QED BY <1>1, NoQueryInv, PTL

-----------------------------------------------------------------------------
(***************************************************************************)
(* Attribution: build_citations.                                           *)
(***************************************************************************)
LEMMA PassOverKeeps ==
    ASSUME AttributionInv, PassOver
    PROVE  AttributionInv'
  <1> USE DEF AttributionInv
  <1>1. /\ phase = "citing" /\ phase' = phase /\ index' = index /\ max' = max
        /\ results' = results /\ seen' = seen /\ citations' = citations
        /\ blocks' = blocks /\ source' = source /\ cited' = cited
        /\ unsupported' = unsupported /\ rank' = rank + 1
        /\ rank \in DOMAIN results /\ Key(results[rank]) \in seen
    BY DEF PassOver
  <1>2. rank \in 1..Len(results) /\ Len(results) \in Nat
    BY <1>1, LenProperties DEF AttributionTypes
  <1>3. AttributionTypes'
    BY <1>1, <1>2 DEF AttributionTypes, Citation, CitationOf, Key
  <1>4. Best' /\ Complete' /\ Prompted' /\ Validated'
    BY <1>1 DEF Best, CitationOf, Key, Complete, Cited, Prompted, Validated
  <1>5. PICK m \in 1..(rank - 1) : Key(results[m]) = Key(results[rank])
    BY <1>1 DEF WhileCiting
  <1>6. PICK i \in DOMAIN citations :
            /\ Key(results[m]) = <<citations[i].doc_id, citations[i].section>>
            /\ citations[i].rank <= m
    BY <1>1 DEF WhileCiting, Covered
  <1>7. \A j \in DOMAIN citations : citations[j].rank \in Nat
    <2>1. DOMAIN results \subseteq Nat
      BY LenProperties DEF AttributionTypes
    <2> QED BY <2>1 DEF Best
  <1>8. citations[i].rank <= rank
    BY <1>2, <1>6, <1>7
  <1>9. Covered(rank)
    BY <1>5, <1>6, <1>8 DEF Covered
  <1>10. \A k \in 1..((rank + 1) - 1) : k = rank \/ k \in 1..(rank - 1)
    BY <1>2
  <1>11. WhileCiting'
    <2>1. \A k \in 1..((rank + 1) - 1) : Key(results[k]) \in seen /\ Covered(k)
      BY <1>1, <1>9, <1>10 DEF WhileCiting
    <2>2. \A key \in seen : \E k \in 1..((rank + 1) - 1) : Key(results[k]) = key
      <3>1. 1..(rank - 1) \subseteq 1..((rank + 1) - 1)
        BY <1>2
      <3> QED BY <1>1, <3>1 DEF WhileCiting
    <2>3. \A j \in DOMAIN citations : citations[j].rank < rank + 1
      BY <1>1, <1>2, <1>7 DEF WhileCiting
    <2> QED BY <1>1, <2>1, <2>2, <2>3 DEF WhileCiting, Covered, Key
  <1> QED BY <1>3, <1>4, <1>11

LEMMA CiteKeeps ==
    ASSUME AttributionInv, Cite
    PROVE  AttributionInv'
  <1> USE DEF AttributionInv
  <1> DEFINE n   == Len(citations)
             new == CitationOf(n + 1, rank)
  <1>1. /\ phase = "citing" /\ index' = index /\ max' = max /\ results' = results
        /\ blocks' = blocks /\ source' = source /\ cited' = cited
        /\ unsupported' = unsupported
        /\ rank \in DOMAIN results /\ Key(results[rank]) \notin seen
        /\ seen' = seen \union {Key(results[rank])}
        /\ citations' = Append(citations, new)
        /\ IF Len(citations') >= max THEN phase' = "prompting" /\ rank' = rank
                                     ELSE phase' = phase /\ rank' = rank + 1
    BY DEF Cite, CitationOf
  <1>2. /\ rank \in 1..Len(results) /\ Len(results) \in Nat
        /\ DOMAIN results = 1..Len(results) /\ n \in Nat /\ max \in Nat /\ n < max
    BY <1>1, LenProperties DEF AttributionTypes, WhileCiting
  <1>3. /\ new.citation_id = n + 1 /\ new.rank = rank
        /\ <<new.doc_id, new.section>> = Key(results[rank])
        /\ new = CitationOf(n + 1, new.rank)
    BY DEF CitationOf, Key
  <1>4. citations \in Seq(Citation) /\ new \in Citation
    <2>1. n + 1 \in Nat
      BY <1>2
    <2> QED BY <1>1, <2>1 DEF AttributionTypes, Citation
  <1> HIDE DEF new
  <1>5. /\ citations' \in Seq(Citation) /\ Len(citations') = n + 1
        /\ DOMAIN citations' = 1..(n + 1) /\ DOMAIN citations = 1..n
        /\ \A i \in DOMAIN citations : citations'[i] = citations[i]
        /\ citations'[n + 1] = new
    BY <1>1, <1>2, <1>4, AppendProperties, LenProperties
  <1> HIDE DEF n
  <1>6. /\ \A i \in DOMAIN citations' : i \in DOMAIN citations \/ i = n + 1
        /\ DOMAIN citations \subseteq DOMAIN citations' /\ n + 1 \in DOMAIN citations'
    BY <1>2, <1>5
  <1>7. \A j \in DOMAIN citations : citations[j].rank \in Nat
    BY <1>2 DEF Best
  <1>8. \/ n + 1 = max /\ phase' = "prompting" /\ rank' = rank
        \/ n + 1 < max /\ phase' = "citing" /\ rank' = rank + 1
    BY <1>1, <1>2, <1>5
  <1>9. AttributionTypes'
    <2>1. Citation' = Citation
      BY <1>1 DEF Citation, CitationOf
    <2>2. rank' \in 1..(Len(results) + 1)
      BY <1>2, <1>8
    <2>3. seen' \subseteq {Key(results[m]) : m \in DOMAIN results}
      BY <1>1 DEF AttributionTypes
    <2> QED BY <1>1, <1>5, <1>8, <2>1, <2>2, <2>3 DEF AttributionTypes, Key
  <1>10. Best'
    <2>0. Len(citations') <= max'
      BY <1>1, <1>2, <1>5
    <2> SUFFICES ASSUME NEW i \in DOMAIN citations'
                 PROVE  /\ citations'[i] = CitationOf(i, citations'[i].rank)
                        /\ citations'[i].rank \in DOMAIN results
                        /\ \A m \in 1..(citations'[i].rank - 1) :
                              Key(results[m]) # Key(results[citations'[i].rank])
                        /\ i > 1 => citations'[i - 1].rank < citations'[i].rank
      BY <1>1, <2>0, SMTT(30) DEF Best, CitationOf, Key
    <2>1. i > 1 => i - 1 \in DOMAIN citations /\ citations'[i - 1] = citations[i - 1]
      BY <1>2, <1>5
    <2>2. CASE i \in DOMAIN citations
      BY <1>5, <2>1, <2>2 DEF Best
    <2>3. CASE i = n + 1
      <3>1. \A m \in 1..(rank - 1) : Key(results[m]) # Key(results[rank])
        BY <1>1 DEF WhileCiting
      <3>2. i > 1 => citations[i - 1].rank < rank
        BY <1>1, <2>1 DEF WhileCiting
      <3> QED BY <1>1, <1>3, <1>5, <2>1, <2>3, <3>1, <3>2
    <2> QED BY <1>6, <2>2, <2>3
  <1>11. ASSUME NEW m \in 1..rank PROVE Covered(m)'
    <2>1. CASE m = rank
      BY <1>1, <1>2, <1>3, <1>5, <1>6, <2>1 DEF Covered, Key
    <2>2. CASE m # rank
      <3>1. m \in 1..(rank - 1)
        BY <1>2, <2>2
      <3>2. Covered(m)
        BY <1>1, <3>1 DEF WhileCiting
      <3> QED BY <1>1, <1>5, <1>6, <3>2 DEF Covered, Key
    <2> QED BY <2>1, <2>2
  <1>12. CASE n + 1 = max /\ phase' = "prompting" /\ rank' = rank
    <2>1. Complete'
      <3> SUFFICES ASSUME NEW m \in DOMAIN results
                   PROVE  Covered(m)' \/ (Len(citations') = max /\ citations'[max].rank < m)
        BY <1>1 DEF Complete
      <3>1. CASE m <= rank
        BY <1>2, <1>11, <3>1
      <3>2. CASE m > rank
        BY <1>3, <1>5, <1>12, <3>2
      <3> QED BY <1>2, <3>1, <3>2
    <2>2. WhileCiting' /\ Validated' /\ Prompted'
      BY <1>1, <1>12 DEF WhileCiting, Validated, Prompted
    <2> QED BY <1>9, <1>10, <2>1, <2>2
  <1>13. CASE n + 1 < max /\ phase' = "citing" /\ rank' = rank + 1
    <2>1. 1..((rank + 1) - 1) = 1..rank /\ 1..(rank - 1) \subseteq 1..rank /\ rank \in 1..rank
      BY <1>2
    <2>2. \A m \in 1..rank : m = rank \/ m \in 1..(rank - 1)
      BY <1>2
    <2>3. \A m \in 1..rank : Key(results[m]) \in seen'
      BY <1>1, <2>2 DEF WhileCiting
    <2>4. \A key \in seen' : \E m \in 1..rank : Key(results[m]) = key
      BY <1>1, <2>1 DEF WhileCiting
    <2>5. \A i \in DOMAIN citations' : citations'[i].rank < rank + 1
      <3>1. \A i \in DOMAIN citations : citations[i].rank < rank + 1
        BY <1>1, <1>2, <1>7 DEF WhileCiting
      <3> QED BY <1>2, <1>3, <1>5, <1>6, <3>1
    <2>6. WhileCiting'
      <3>1. Len(citations') < max'
        BY <1>1, <1>5, <1>13
      <3>2. 1..(rank' - 1) = 1..rank
        BY <1>13, <2>1
      <3>3. \A m \in 1..(rank' - 1) : Key(results'[m]) \in seen' /\ Covered(m)'
        BY <1>1, <1>11, <2>3, <3>2
      <3> QED BY <1>1, <1>13, <2>4, <2>5, <3>1, <3>2, <3>3 DEF WhileCiting, Key
    <2>7. Complete' /\ Validated' /\ Prompted'
      BY <1>1, <1>13 DEF Complete, Cited, Validated, Prompted
    <2> QED BY <1>9, <1>10, <2>6, <2>7
  <1> QED BY <1>8, <1>12, <1>13

LEMMA EndOfResultsKeeps ==
    ASSUME AttributionInv, EndOfResults
    PROVE  AttributionInv'
  <1> USE DEF AttributionInv
  <1>1. /\ phase = "citing" /\ phase' = "prompting" /\ index' = index /\ max' = max
        /\ results' = results /\ seen' = seen /\ citations' = citations
        /\ blocks' = blocks /\ source' = source /\ cited' = cited
        /\ unsupported' = unsupported /\ rank' = rank /\ rank \notin DOMAIN results
    BY DEF EndOfResults
  <1>2. DOMAIN results = 1..(rank - 1)
    <2>1. rank \in 1..(Len(results) + 1) /\ Len(results) \in Nat
          /\ DOMAIN results = 1..Len(results)
      BY LenProperties DEF AttributionTypes
    <2>2. rank = Len(results) + 1
      BY <1>1, <2>1
    <2> QED BY <2>1, <2>2
  <1>3. AttributionTypes' /\ Best'
    BY <1>1 DEF AttributionTypes, Citation, CitationOf, Key, Best
  <1>4. Complete'
    BY <1>1, <1>2 DEF WhileCiting, Complete, Covered, Key
  <1>5. WhileCiting' /\ Prompted' /\ Validated'
    BY <1>1 DEF WhileCiting, Prompted, Validated
  <1> QED BY <1>3, <1>4, <1>5

-----------------------------------------------------------------------------
(***************************************************************************)
(* Attribution: the prompt, the answer and its validation.                 *)
(***************************************************************************)
LEMMA PromptKeeps ==
    ASSUME AttributionInv, Prompt
    PROVE  AttributionInv'
  <1> USE DEF AttributionInv
  <1>1. /\ phase = "prompting" /\ phase' = "asking" /\ index' = index /\ max' = max
        /\ results' = results /\ seen' = seen /\ citations' = citations
        /\ blocks' = ContextBlocks(RetrievalLimit) /\ source' = source /\ cited' = cited
        /\ unsupported' = unsupported /\ rank' = rank
    BY DEF Prompt
  <1>2. AttributionTypes' /\ Best'
    BY <1>1 DEF AttributionTypes, Citation, CitationOf, Key, Best
  <1>3. Complete' /\ WhileCiting' /\ Validated'
    BY <1>1 DEF Complete, Cited, Covered, Key, WhileCiting, Validated
  <1>4. Prompted'
    BY <1>1 DEF Prompted, ContextBlocks
  <1> QED BY <1>2, <1>3, <1>4

LEMMA AnswerKeeps ==
    ASSUME AttributionInv, Answer
    PROVE  AttributionInv'
  <1> USE DEF AttributionInv
  <1>1. /\ phase = "asking" /\ phase' = "answered" /\ index' = index /\ max' = max
        /\ results' = results /\ seen' = seen /\ citations' = citations
        /\ blocks' = blocks /\ source' \in {"model", "extractive", "fallback"}
        /\ cited' \in Answers(source') /\ unsupported' = Unsupported(cited')
        /\ rank' = rank
    BY DEF Answer
  <1>2. cited' \subseteq Nat
    <2>1. Len(citations) \in Nat
      BY LenProperties DEF AttributionTypes
    <2>2. Numbered \subseteq Nat
      BY DEF Numbered
    <2>3. CASE source' = "model"
      BY <1>1, <2>1, <2>3 DEF Answers
    <2>4. CASE source' # "model" /\ blocks = <<>>
      BY <1>1, <2>4 DEF Answers
    <2>5. CASE source' # "model" /\ blocks # <<>>
      BY <1>1, <2>2, <2>5, AttributionConfig DEF Answers
    <2> QED BY <2>3, <2>4, <2>5
  <1>3. AttributionTypes'
    <2>1. unsupported' \subseteq cited'
      BY <1>1 DEF Unsupported
    <2> QED BY <1>1, <1>2, <2>1 DEF AttributionTypes, Citation, CitationOf, Key
  <1>4. Best' /\ Complete' /\ WhileCiting'
    BY <1>1 DEF Best, CitationOf, Key, Complete, Cited, Covered, WhileCiting
  <1>5. Prompted'
    BY <1>1 DEF Prompted, ContextBlocks
  <1>6. Validated'
    BY <1>1 DEF Validated, Answers, Numbered, Unsupported
  <1> QED BY <1>3, <1>4, <1>5, <1>6

LEMMA AttributionInvStep ==
    AttributionInv /\ [AttributionNext]_attributionVars => AttributionInv'
  <1> SUFFICES ASSUME AttributionInv, [AttributionNext]_attributionVars
               PROVE  AttributionInv'
    OBVIOUS
  <1>1. CASE UNCHANGED attributionVars
    <2>1. /\ index' = index /\ phase' = phase /\ max' = max /\ results' = results
          /\ rank' = rank /\ seen' = seen /\ citations' = citations /\ blocks' = blocks
          /\ source' = source /\ cited' = cited /\ unsupported' = unsupported
      BY <1>1 DEF attributionVars, queryVars
    <2>2. AttributionTypes' /\ Best'
      <3>1. AttributionTypes'
        BY <2>1 DEF AttributionInv, AttributionTypes, Citation, CitationOf, Key
      <3>2. Best'
        BY <2>1 DEF AttributionInv, Best, CitationOf, Key
      <3> QED BY <3>1, <3>2
    <2>3. WhileCiting' /\ Complete'
      BY <2>1 DEF AttributionInv, WhileCiting, Complete, Cited, Covered, Key
    <2>4. Prompted'
      BY <2>1 DEF AttributionInv, Prompted, ContextBlocks
    <2>5. Validated'
      BY <2>1 DEF AttributionInv, Validated, Answers, Numbered, Unsupported
    <2> QED BY <2>2, <2>3, <2>4, <2>5 DEF AttributionInv
  <1> QED
    BY <1>1, RetrieveKeeps, PassOverKeeps, CiteKeeps, EndOfResultsKeeps, PromptKeeps,
       AnswerKeeps, RespondKeeps DEF AttributionNext

-----------------------------------------------------------------------------
(***************************************************************************)
(* Attribution: what follows from the invariant.                           *)
(***************************************************************************)
LEMMA SoundInv == AttributionInv => CitationsSound
  <1> SUFFICES ASSUME AttributionInv PROVE CitationsSound
    OBVIOUS
  <1> USE DEF AttributionInv
  <1>1. ASSUME NEW i \in DOMAIN citations
        PROVE  LET c == citations[i]
               IN /\ c.citation_id = i
                  /\ c.rank \in DOMAIN results
                  /\ results[c.rank].chunk_id = c.chunk_id
                  /\ Key(results[c.rank]) = <<c.doc_id, c.section>>
                  /\ \A m \in 1..(c.rank - 1) :
                        Key(results[m]) # <<c.doc_id, c.section>>
                  /\ i > 1 => citations[i - 1].rank < c.rank
    <2> DEFINE c == citations[i]
    <2>1. /\ c = CitationOf(i, c.rank) /\ c.rank \in DOMAIN results
          /\ \A m \in 1..(c.rank - 1) : Key(results[m]) # Key(results[c.rank])
          /\ i > 1 => citations[i - 1].rank < c.rank
      BY DEF Best
    <2>2. /\ c.citation_id = i /\ results[c.rank].chunk_id = c.chunk_id
          /\ c.doc_id = results[c.rank].document_id
          /\ c.section = results[c.rank].section
      BY <2>1 DEF CitationOf
    <2> QED BY <2>1, <2>2 DEF Key
  <1>2. Len(citations) <= max
    BY DEF Best
  <1>3. Cited => \A m \in DOMAIN results :
            \/ \E i \in DOMAIN citations :
                  /\ Key(results[m]) = <<citations[i].doc_id, citations[i].section>>
                  /\ citations[i].rank <= m
            \/ Len(citations) = max /\ citations[max].rank < m
    BY DEF Complete, Covered
  <1> QED BY <1>1, <1>2, <1>3 DEF CitationsSound

\* The block at place n of the prompt.
LEMMA BlockFacts ==
    ASSUME AttributionInv, phase \in {"asking", "answered"}
    PROVE  /\ DOMAIN blocks = 1..Smaller(RetrievalLimit, Len(citations))
           /\ Len(blocks) = Smaller(RetrievalLimit, Len(citations))
           /\ Len(blocks) \in Nat
           /\ Len(blocks) <= RetrievalLimit /\ Len(blocks) <= Len(citations)
           /\ \A n \in DOMAIN blocks :
                 /\ blocks[n].citation_id = citations[n].citation_id
                 /\ blocks[n].result = CHOOSE r \in Range(results) :
                                          r.chunk_id = citations[n].chunk_id
  <1>1. blocks = ContextBlocks(RetrievalLimit)
    BY DEF AttributionInv, Prompted
  <1> DEFINE size == Smaller(RetrievalLimit, Len(citations))
  <1>2. size \in Nat /\ size <= RetrievalLimit /\ size <= Len(citations)
    BY AttributionConfig, LenProperties DEF Smaller, AttributionInv, AttributionTypes
  <1>3. /\ DOMAIN blocks = 1..size
        /\ \A n \in 1..size :
              blocks[n] = [citation_id |-> citations[n].citation_id,
                           result |-> CHOOSE r \in Range(results) :
                                         r.chunk_id = citations[n].chunk_id]
    BY <1>1 DEF ContextBlocks
  <1> HIDE DEF size
  <1>4. Len(blocks) = size
    BY <1>2, <1>3
  <1>5. \A n \in DOMAIN blocks :
            /\ blocks[n].citation_id = citations[n].citation_id
            /\ blocks[n].result = CHOOSE r \in Range(results) :
                                     r.chunk_id = citations[n].chunk_id
    BY <1>3
  <1> QED BY <1>2, <1>3, <1>4, <1>5 DEF size

LEMMA PromptInv == AttributionInv /\ UniqueIds => PromptMatches
  <1> SUFFICES ASSUME AttributionInv, UniqueIds, NEW n \in DOMAIN blocks
               PROVE  /\ n \in DOMAIN citations
                      /\ blocks[n].citation_id = n
                      /\ blocks[n].result.chunk_id = citations[n].chunk_id
                      /\ Key(blocks[n].result) = <<citations[n].doc_id, citations[n].section>>
    BY DEF PromptMatches
  <1>1. phase \in {"asking", "answered"}
    BY DEF AttributionInv, Prompted
  <1>2. n \in DOMAIN citations
    <2>1. n \in 1..Len(blocks) /\ Len(blocks) <= Len(citations) /\ Len(blocks) \in Nat
          /\ Len(citations) \in Nat /\ DOMAIN citations = 1..Len(citations)
      BY <1>1, BlockFacts, LenProperties DEF AttributionInv, AttributionTypes
    <2> QED BY <2>1
  <1> DEFINE c == citations[n]
             r == results[c.rank]
  <1>3. c = CitationOf(n, c.rank) /\ c.rank \in DOMAIN results
    BY <1>2 DEF AttributionInv, Best
  <1>4. /\ c.citation_id = n /\ c.chunk_id = r.chunk_id
        /\ c.doc_id = r.document_id /\ c.section = r.section
    BY <1>3 DEF CitationOf
  <1> HIDE DEF c
  <1>5. r \in Range(results) /\ Range(results) \subseteq index
    BY <1>3, ElementOfSeq, LenProperties DEF Range, AttributionInv, AttributionTypes
  <1>6. blocks[n].citation_id = n
        /\ blocks[n].result = CHOOSE s \in Range(results) : s.chunk_id = c.chunk_id
    BY <1>1, <1>4, BlockFacts DEF c
  <1>7. blocks[n].result \in Range(results) /\ blocks[n].result.chunk_id = c.chunk_id
    BY <1>4, <1>5, <1>6
  <1>8. blocks[n].result = r
    BY <1>4, <1>5, <1>7 DEF UniqueIds
  <1> QED BY <1>2, <1>4, <1>6, <1>7, <1>8 DEF c, Key

LEMMA ShownInv == AttributionInv => SupportedWasShown
  <1> SUFFICES ASSUME AttributionInv, phase = "answered"
               PROVE  /\ max <= RetrievalLimit => cited \ unsupported \subseteq DOMAIN blocks
                      /\ source # "model" => Numbered \subseteq cited \ unsupported
    BY DEF SupportedWasShown
  <1>1. /\ cited \in Answers(source) /\ unsupported = Unsupported(cited)
        /\ Len(citations) \in Nat /\ DOMAIN citations = 1..Len(citations)
        /\ max \in Nat /\ RetrievalLimit \in Nat /\ Len(citations) <= max
    BY AttributionConfig, LenProperties
    DEF AttributionInv, Validated, AttributionTypes, Best
  <1>2. {c.citation_id : c \in Range(citations)} = 1..Len(citations)
    <2>1. \A i \in DOMAIN citations : citations[i].citation_id = i
      BY SoundInv DEF CitationsSound
    <2> QED BY <1>1, <2>1 DEF Range
  <1>3. unsupported = cited \ (1..Len(citations))
    BY <1>1, <1>2 DEF Unsupported
  <1>4. /\ DOMAIN blocks = 1..Smaller(RetrievalLimit, Len(citations))
        /\ Len(blocks) \in Nat /\ Len(blocks) <= Len(citations)
    BY BlockFacts
  <1>5. ASSUME max <= RetrievalLimit
        PROVE  cited \ unsupported \subseteq DOMAIN blocks
    <2>1. Smaller(RetrievalLimit, Len(citations)) = Len(citations)
      <3>1. ~(RetrievalLimit < Len(citations))
        BY <1>1, <1>5
      <3> QED BY <3>1 DEF Smaller
    <2> QED BY <1>3, <1>4, <2>1
  <1>6. ASSUME source # "model"
        PROVE  Numbered \subseteq cited \ unsupported
    <2>1. Numbered \subseteq 1..Len(citations)
      BY <1>1, <1>4 DEF Numbered, Smaller
    <2>2. Numbered \subseteq cited
      <3>1. CASE blocks = <<>>
        <4>1. Len(blocks) = 0
          BY <3>1
        <4> QED BY <4>1 DEF Numbered, Smaller
      <3>2. CASE blocks # <<>>
        BY <1>1, <1>6, <3>2 DEF Answers
      <3> QED BY <3>1, <3>2
    <2> QED BY <1>3, <2>1, <2>2
  <1> QED BY <1>5, <1>6

-----------------------------------------------------------------------------
(***************************************************************************)
(* Documents: those two invariants, and what joins them.                   *)
(***************************************************************************)
Embedding ==
    /\ embeddings \in Seq(Seq(Word))
    /\ Len(embeddings) <= Len(chunks)
    /\ \A i \in DOMAIN embeddings : embeddings[i] = chunks[i].words
    /\ embeddings # <<>> => pc = "chunked"

NewRows == {Row("new", chunks[i], chunks[i].words) : i \in DOMAIN chunks}

Storing ==
    /\ stored \in BOOLEAN
    /\ stored => /\ pc = "chunked" /\ index = OtherRows \union NewRows
                 /\ Len(embeddings) = Len(chunks)
    /\ ~stored => index = OtherRows /\ NoQuery

DocumentsInv ==
    /\ ChunkerInv
    /\ Layout
    /\ AttributionInv
    /\ Embedding
    /\ Storing

-----------------------------------------------------------------------------
LEMMA DocumentsInvInit == Init => DocumentsInv
  <1> SUFFICES ASSUME Init PROVE DocumentsInv
    OBVIOUS
  <1>1. ChunkerInv /\ Layout
    BY ChunkerInvInit, LayoutInit DEF Init
  <1>2. AttributionInv
    BY NoQueryInv DEF Init
  <1>3. Embedding
    <2>1. embeddings = <<>> /\ chunks = <<>>
      BY DEF Init, ChunkerInit
    <2> QED BY <2>1 DEF Embedding
  <1>4. Storing
    BY DEF Init, Storing
  <1> QED BY <1>1, <1>2, <1>3, <1>4 DEF DocumentsInv

LEMMA ChunkDocumentKeeps ==
    ASSUME DocumentsInv, ChunkDocument
    PROVE  DocumentsInv'
  <1> USE DEF DocumentsInv
  <1>1. ChunkerInv' /\ Layout'
    BY ChunkerInvStep, LayoutStep DEF ChunkDocument
  <1>2. AttributionInv'
    BY AttributionInvStep DEF ChunkDocument
  <1>3. pc # "chunked"
    BY DEF ChunkDocument, ChunkerNext, ReadBlank, ReadHeading, ReadText, Reads, EndOfText,
           Cut, Return
  <1>4. embeddings = <<>> /\ embeddings' = <<>> /\ stored' = stored /\ ~stored
    BY <1>3 DEF ChunkDocument, Embedding, Storing
  <1>5. Embedding'
    <2>1. Len(chunks') \in Nat
      BY <1>1, LenProperties DEF ChunkerInv, ChunkerTypes
    <2> QED BY <1>4, <2>1 DEF Embedding
  <1>6. Storing'
    BY <1>4 DEF ChunkDocument, Storing, NoQuery, attributionVars, queryVars
  <1> QED BY <1>1, <1>2, <1>5, <1>6

LEMMA EmbedBatchKeeps ==
    ASSUME DocumentsInv, EmbedBatch
    PROVE  DocumentsInv'
  <1> USE DEF DocumentsInv
  <1> DEFINE m    == Len(embeddings)
             upTo == Smaller(Len(chunks), m + BatchSize)
             b    == Batch
  <1>1. /\ pc = "chunked" /\ embeddings' = embeddings \o b
        /\ UNCHANGED <<chunkerVars, attributionVars, stored>>
    BY DEF EmbedBatch
  <1>2. ChunkerInv' /\ Layout' /\ AttributionInv'
    BY <1>1, ChunkerInvStep, LayoutStep, AttributionInvStep
  <1>3. pc' = pc /\ chunks' = chunks
    BY <1>1 DEF chunkerVars
  <1>4. /\ m \in Nat /\ Len(chunks) \in Nat /\ DOMAIN chunks = 1..Len(chunks)
        /\ m <= Len(chunks) /\ BatchSize \in Nat /\ embeddings \in Seq(Seq(Word))
    BY DocumentsConfig, LenProperties DEF Embedding, ChunkerInv, ChunkerTypes
  <1>5. upTo \in m..Len(chunks)
    BY <1>4 DEF Smaller
  <1>6. b = [i \in 1..(upTo - m) |-> chunks[m + i].words]
    BY DEF Batch
  <1> HIDE DEF m, upTo, b
  <1>7. ASSUME NEW i \in 1..(upTo - m) PROVE chunks[m + i].words \in Seq(Word)
    <2>1. m + i \in DOMAIN chunks
      BY <1>4, <1>5
    <2>2. chunks[m + i] \in Chunk
      BY <2>1 DEF ChunkerInv, ChunkerTypes
    <2> QED BY <2>2 DEF Chunk
  <1>8. b \in Seq(Seq(Word)) /\ Len(b) = upTo - m /\ DOMAIN b = 1..(upTo - m)
    <2>1. upTo - m \in Nat
      BY <1>4, <1>5
    <2> QED BY <1>6, <1>7, <2>1
  <1>9. /\ embeddings' \in Seq(Seq(Word)) /\ Len(embeddings') = upTo
        /\ DOMAIN embeddings' = 1..upTo
    <2>1. embeddings \o b \in Seq(Seq(Word)) /\ Len(embeddings \o b) = m + (upTo - m)
      <3>1. /\ embeddings \o b \in Seq(Seq(Word))
            /\ Len(embeddings \o b) = Len(embeddings) + Len(b)
        <4>1. embeddings \in Seq(Seq(Word)) /\ b \in Seq(Seq(Word))
          BY <1>4, <1>8
        <4> QED BY ONLY <4>1, ConcatProperties
      <3> QED BY <1>8, <3>1 DEF m
    <2>2. m + (upTo - m) = upTo
      BY <1>4, <1>5
    <2> QED BY <1>1, <2>1, <2>2, LenProperties
  <1>10. ASSUME NEW i \in 1..upTo PROVE embeddings'[i] = chunks[i].words
    <2>1. CASE i <= m
      <3>1. i \in 1..Len(embeddings) /\ i \in DOMAIN embeddings
        BY <1>4, <2>1, LenProperties DEF m
      <3>2. (embeddings \o b)[i] = embeddings[i]
        BY <1>4, <1>8, <3>1, ConcatProperties
      <3> QED BY <1>1, <3>1, <3>2 DEF Embedding
    <2>2. CASE i > m
      <3>1. i - m \in 1..(upTo - m) /\ m + (i - m) = i
        BY <1>4, <1>5, <2>2
      <3>2. (embeddings \o b)[i] = b[i - m]
        <4>1. i \in (Len(embeddings) + 1)..(Len(embeddings) + Len(b))
          BY <1>4, <1>5, <1>8, <2>2 DEF m
        <4> QED BY <1>4, <1>8, <4>1, ConcatProperties DEF m
      <3> QED BY <1>1, <1>6, <3>1, <3>2
    <2> QED BY <1>4, <1>5, <2>1, <2>2
  <1>11. Embedding'
    BY <1>1, <1>3, <1>4, <1>5, <1>9, <1>10 DEF Embedding
  <1>12. Storing'
    <2>1. ~stored
      <3>1. m < Len(chunks)
        BY DEF EmbedBatch, m
      <3> QED BY <1>4, <3>1 DEF Storing, m
    <2> QED BY <1>1, <1>3, <2>1 DEF Storing, NewRows, NoQuery, attributionVars, queryVars
  <1> QED BY <1>2, <1>11, <1>12

LEMMA StoreKeeps ==
    ASSUME DocumentsInv, Store
    PROVE  DocumentsInv'
  <1> USE DEF DocumentsInv
  <1>1. /\ pc = "chunked" /\ ~stored /\ stored' = TRUE /\ Len(embeddings) = Len(chunks)
        /\ index' = index \union {Row("new", chunks[i], embeddings[i]) : i \in DOMAIN chunks}
        /\ UNCHANGED <<chunkerVars, queryVars, embeddings>>
    BY DEF Store
  <1>2. ChunkerInv' /\ Layout'
    BY <1>1, ChunkerInvStep, LayoutStep
  <1>3. pc' = pc /\ chunks' = chunks
    BY <1>1 DEF chunkerVars
  <1>4. NoQuery'
    BY <1>1 DEF Storing, NoQuery, queryVars
  <1>5. AttributionInv'
    BY <1>4, NoQueryInv, PTL
  <1>6. Embedding'
    BY <1>1, <1>3 DEF Embedding
  <1>7. DOMAIN embeddings = DOMAIN chunks
    BY <1>1, LenProperties DEF Embedding, ChunkerInv, ChunkerTypes
  <1>8. {Row("new", chunks[i], embeddings[i]) : i \in DOMAIN chunks} = NewRows
    BY <1>7 DEF Embedding, NewRows
  <1>9. Storing'
    BY <1>1, <1>3, <1>8 DEF Storing, NewRows
  <1> QED BY <1>2, <1>5, <1>6, <1>9

LEMMA QueryKeeps ==
    ASSUME DocumentsInv, Query
    PROVE  DocumentsInv'
  <1> USE DEF DocumentsInv
  <1>1. /\ stored /\ stored' = stored /\ AttributionNext
        /\ UNCHANGED <<chunkerVars, embeddings>>
    BY DEF Query
  <1>2. ChunkerInv' /\ Layout' /\ AttributionInv'
    BY <1>1, ChunkerInvStep, LayoutStep, AttributionInvStep
  <1>3. pc' = pc /\ chunks' = chunks
    BY <1>1 DEF chunkerVars
  <1>4. index' = index
    BY <1>1 DEF AttributionNext, Retrieve, Begin, PassOver, Cite, EndOfResults, Prompt,
                Answer, Respond
  <1>5. Embedding'
    BY <1>1, <1>3 DEF Embedding
  <1>6. Storing'
    BY <1>1, <1>3, <1>4 DEF Storing, NewRows
  <1> QED BY <1>2, <1>5, <1>6

LEMMA DocumentsInvStep == DocumentsInv /\ [Next]_vars => DocumentsInv'
  <1> SUFFICES ASSUME DocumentsInv, [Next]_vars PROVE DocumentsInv'
    OBVIOUS
  <1>1. CASE UNCHANGED vars
    <2>1. UNCHANGED <<chunkerVars, attributionVars, embeddings, stored>>
      BY <1>1 DEF vars
    <2>2. ChunkerInv' /\ Layout' /\ AttributionInv'
      BY <2>1, ChunkerInvStep, LayoutStep, AttributionInvStep DEF DocumentsInv
    <2>3. Embedding' /\ Storing'
      BY <2>1 DEF DocumentsInv, Embedding, Storing, NewRows, NoQuery, chunkerVars,
                  attributionVars, queryVars
    <2> QED BY <2>2, <2>3 DEF DocumentsInv
  <1> QED
    BY <1>1, ChunkDocumentKeeps, EmbedBatchKeeps, StoreKeeps, QueryKeeps DEF Next

LEMMA DocumentsAlways == Spec => []DocumentsInv
  BY DocumentsInvInit, DocumentsInvStep, PTL DEF Spec

-----------------------------------------------------------------------------
(***************************************************************************)
(* Documents: the rows of the index.                                       *)
(***************************************************************************)
LEMMA RowFields ==
    ASSUME NEW d, NEW c, NEW e
    PROVE  /\ Row(d, c, e).document_id = d
           /\ Row(d, c, e).chunk_id = <<d, c.chunk_index>>
           /\ Row(d, c, e).section = c.section
           /\ Row(d, c, e).text = c.words
           /\ Row(d, c, e).embedding = e
  BY DEF Row

LEMMA OtherRowFacts ==
    ASSUME NEW row \in OtherRows
    PROVE  /\ row.document_id = "other"
           /\ row.section = NoHeading
           /\ row.text = <<>> /\ row.embedding = <<>>
           /\ \E n \in {0, 1} : row.chunk_id = <<"other", n>>
  <1>1. PICK n \in {0, 1} :
            row = Row("other", [chunk_index |-> n, section |-> NoHeading, words |-> <<>>], <<>>)
    BY DEF OtherRows
  <1> DEFINE c == [chunk_index |-> n, section |-> NoHeading, words |-> <<>>]
  <1>2. c.chunk_index = n /\ c.section = NoHeading /\ c.words = <<>>
    OBVIOUS
  <1> HIDE DEF c
  <1>3. row = Row("other", c, <<>>)
    BY <1>1 DEF c
  <1> QED BY <1>2, <1>3, RowFields

LEMMA SameOtherRow ==
    ASSUME NEW r \in OtherRows, NEW s \in OtherRows, r.chunk_id = s.chunk_id
    PROVE  r = s
  BY DEF OtherRows, Row

LEMMA NewRowFacts ==
    ASSUME ChunkerInv, NEW row \in NewRows
    PROVE  \E i \in DOMAIN chunks :
              /\ row = Row("new", chunks[i], chunks[i].words)
              /\ row.document_id = "new" /\ row.chunk_id = <<"new", i - 1>>
              /\ row.section = chunks[i].section /\ row.section \in AllLabels
              /\ row.text = chunks[i].words /\ row.embedding = chunks[i].words
              /\ row.text \in Seq(Word)
  <1>1. PICK i \in DOMAIN chunks : row = Row("new", chunks[i], chunks[i].words)
    BY DEF NewRows
  <1>2. chunks[i].chunk_index = i - 1 /\ chunks[i] \in Chunk
    BY DEF ChunkerInv, ChunksKept, ChunkerTypes
  <1>3. chunks[i].section \in AllLabels /\ chunks[i].words \in Seq(Word)
    BY <1>2 DEF Chunk
  <1> QED BY <1>1, <1>2, <1>3, RowFields

LEMMA InIndex == DocumentsInv => index \subseteq OtherRows \union NewRows
  BY DEF DocumentsInv, Storing

\* No two rows have the same chunk_id.
LEMMA UniqueIdsInv == DocumentsInv => UniqueIds
  <1> SUFFICES ASSUME DocumentsInv, NEW r \in index, NEW s \in index,
                      r.chunk_id = s.chunk_id
               PROVE  r = s
    BY DEF UniqueIds
  <1>1. ChunkerInv /\ r \in OtherRows \union NewRows /\ s \in OtherRows \union NewRows
    BY InIndex DEF DocumentsInv
  <1>2. \A q \in OtherRows : q.chunk_id[1] = "other"
    BY OtherRowFacts
  <1>3. \A q \in NewRows : q.chunk_id[1] = "new"
    BY <1>1, NewRowFacts
  <1>4. CASE r \in OtherRows /\ s \in OtherRows
    BY <1>4, SameOtherRow
  <1>5. CASE r \in NewRows /\ s \in NewRows
    <2>1. PICK i \in DOMAIN chunks :
              r = Row("new", chunks[i], chunks[i].words) /\ r.chunk_id = <<"new", i - 1>>
      BY <1>1, <1>5, NewRowFacts
    <2>2. PICK j \in DOMAIN chunks :
              s = Row("new", chunks[j], chunks[j].words) /\ s.chunk_id = <<"new", j - 1>>
      BY <1>1, <1>5, NewRowFacts
    <2>3. i \in Nat /\ j \in Nat /\ i - 1 = j - 1
      <3>1. i \in Nat /\ j \in Nat
        BY <1>1, LenProperties DEF ChunkerInv, ChunkerTypes
      <3> QED BY <2>1, <2>2, <3>1
    <2>4. i = j
      BY <2>3
    <2> QED BY <2>1, <2>2, <2>4
  <1>6. ~(r \in OtherRows /\ s \in NewRows) /\ ~(r \in NewRows /\ s \in OtherRows)
    BY <1>2, <1>3
  <1> QED BY <1>1, <1>4, <1>5, <1>6

-----------------------------------------------------------------------------
(***************************************************************************)
(* Documents: what follows from the invariant.                             *)
(***************************************************************************)
LEMMA TypesInv == DocumentsInv => TypeOK
  <1> SUFFICES ASSUME DocumentsInv PROVE TypeOK
    OBVIOUS
  <1> USE DEF DocumentsInv
  <1>1. \A row \in index \ OtherRows :
            /\ row.document_id = "new" /\ row.section \in AllLabels
            /\ row.text \in Seq(Word) /\ row.embedding \in Seq(Word)
    <2> SUFFICES ASSUME NEW row \in index \ OtherRows
                 PROVE  /\ row.document_id = "new" /\ row.section \in AllLabels
                        /\ row.text \in Seq(Word) /\ row.embedding \in Seq(Word)
      OBVIOUS
    <2>1. row \in NewRows
      BY InIndex
    <2> QED BY <2>1, NewRowFacts
  <1>2. \A row \in index : Key(row) \in {"new", "other"} \X AllLabels
    <2> SUFFICES ASSUME NEW row \in index
                 PROVE  row.document_id \in {"new", "other"} /\ row.section \in AllLabels
      BY DEF Key
    <2>1. CASE row \in OtherRows
      BY <2>1, OtherRowFacts DEF AllLabels
    <2>2. CASE row \notin OtherRows
      BY <1>1, <2>2
    <2> QED BY <2>1, <2>2
  <1>3. seen \subseteq {"new", "other"} \X AllLabels
    <2>1. \A m \in DOMAIN results : results[m] \in index
      BY ElementOfSeq, LenProperties DEF AttributionInv, AttributionTypes
    <2> QED BY <1>2, <2>1 DEF AttributionInv, AttributionTypes
  <1>4. Len(blocks) <= RetrievalLimit
    <2>1. CASE phase \in {"asking", "answered"}
      BY <2>1, BlockFacts
    <2>2. CASE phase \notin {"asking", "answered"}
      <3>1. blocks = <<>>
        BY <2>2 DEF AttributionInv, Prompted
      <3> QED BY <3>1, AttributionConfig
    <2> QED BY <2>1, <2>2
  <1> QED
    BY <1>1, <1>3, <1>4
    DEF TypeOK, ChunkerInv, AttributionInv, AttributionTypes, Embedding, Storing

LEMMA OwnVectorInv == DocumentsInv => OwnVector
  <1> SUFFICES ASSUME DocumentsInv, NEW row \in index PROVE row.embedding = row.text
    BY DEF OwnVector
  <1>1. row \in OtherRows \/ row \in NewRows
    BY InIndex
  <1> QED BY <1>1, OtherRowFacts, NewRowFacts DEF DocumentsInv

LEMMA TraceableCitations == DocumentsInv => CitedTextTraceable
  <1> SUFFICES ASSUME DocumentsInv, NEW i \in DOMAIN citations, NEW row \in index,
                      row.chunk_id = citations[i].chunk_id, row.document_id = "new"
               PROVE  /\ row.document_id = citations[i].doc_id
                      /\ \A k \in DOMAIN row.text :
                            /\ IsWord(row.text[k])
                            /\ Under(row.text[k][1], citations[i].section)
    BY DEF CitedTextTraceable
  <1>1. ChunkerInv /\ AttributionInv /\ UniqueIds
    BY UniqueIdsInv DEF DocumentsInv
  <1> DEFINE m == citations[i].rank
  <1>2. /\ m \in DOMAIN results /\ results[m].chunk_id = citations[i].chunk_id
        /\ results[m].document_id = citations[i].doc_id
        /\ results[m].section = citations[i].section
    <2>1. citations[i] = CitationOf(i, m) /\ m \in DOMAIN results
      BY <1>1 DEF AttributionInv, Best
    <2> HIDE DEF m
    <2> QED BY <2>1 DEF CitationOf
  <1>3. results[m] \in index
    BY <1>1, <1>2, ElementOfSeq, LenProperties DEF AttributionInv, AttributionTypes
  <1>4. results[m] = row
    BY <1>1, <1>2, <1>3 DEF UniqueIds
  <1>5. row \in NewRows
    <2>1. row \notin OtherRows
      BY OtherRowFacts
    <2> QED BY <2>1, InIndex
  <1>6. PICK c \in DOMAIN chunks : row.section = chunks[c].section /\ row.text = chunks[c].words
    BY <1>1, <1>5, NewRowFacts
  <1>7. ChunksTraceable
    BY <1>1, TraceableInv
  <1> QED BY <1>2, <1>4, <1>6, <1>7 DEF ChunksTraceable

-----------------------------------------------------------------------------
(***************************************************************************)
(* Theorems.                                                               *)
(***************************************************************************)
\* Every variable has its type.
THEOREM Types == Spec => []TypeOK
  BY DocumentsAlways, TypesInv, PTL

\* chunk loses no word of any text, and labels it with its heading (LegalChunker).
THEOREM NothingLost == Spec => []NoWordLost
  <1>1. DocumentsInv => NoWordLost
    BY NothingLostInv DEF DocumentsInv
  <1> QED BY <1>1, DocumentsAlways, PTL

\* Windows go forward and overlap by what is configured, for every overlap that
\* the constructor of LegalChunker admits.
THEOREM WindowsGoForward == Spec => []WindowsOverlap
  <1>1. DocumentsInv => WindowsOverlap
    BY DEF DocumentsInv, Layout
  <1> QED BY <1>1, DocumentsAlways, PTL

\* A stored chunk has its own text's vector, for every batch size
\* (ingest_document, replace_document).
THEOREM VectorsMatch == Spec => []OwnVector
  BY DocumentsAlways, OwnVectorInv, PTL

\* Citations are the best of their sections, and complete (build_citations).
THEOREM CitesSoundly == Spec => []CitationsSound
  <1>1. DocumentsInv => CitationsSound
    BY SoundInv DEF DocumentsInv
  <1> QED BY <1>1, DocumentsAlways, PTL

\* Source n of the prompt is citation n of the response (context_blocks,
\* build_user_prompt).
THEOREM SameNumbers == Spec => []PromptMatches
  <1>1. DocumentsInv => PromptMatches
    BY PromptInv, UniqueIdsInv DEF DocumentsInv
  <1> QED BY <1>1, DocumentsAlways, PTL

\* What passes validate_answer_citations was in the prompt, up to retrieval_limit
\* citations.
THEOREM SupportedShown == Spec => []SupportedWasShown
  <1>1. DocumentsInv => SupportedWasShown
    BY ShownInv DEF DocumentsInv
  <1> QED BY <1>1, DocumentsAlways, PTL

\* A citation's text is the document's, under the heading that it names.
THEOREM CitesTheDocument == Spec => []CitedTextTraceable
  BY DocumentsAlways, TraceableCitations, PTL


-----------------------------------------------------------------------------
(***************************************************************************)
(* The loops.                                                              *)
(***************************************************************************)
\* A loop that is under way goes on, by as much as the code says and not past its
\* end, or is over: _split_sections over the lines, chunk over the sections and
\* in each over its windows, ingest_document over the batches, build_citations
\* over the results.
SplitGoesOn ==
    \/ pc' = "cutting"
    \/ pc' = pc /\ UNCHANGED text /\ next' = next + 1 /\ next <= Len(text)

CutGoesOn ==
    \/ pc' = "chunked"
    \/ /\ pc' = pc /\ UNCHANGED sections
       /\ \/ section' = section + 1 /\ section <= Len(sections)
          \/ /\ section' = section
             /\ start' = start + (TargetTokens - OverlapTokens)
             /\ start' < Len(sections[section].words)

EmbeddingGoesOn ==
    \/ stored'
    \/ /\ UNCHANGED <<chunks, stored>>
       /\ Len(embeddings') \in (Len(embeddings) + 1)..Len(chunks)

CitingGoesOn ==
    \/ phase' = "prompting"
    \/ phase' = phase /\ UNCHANGED results /\ rank' = rank + 1 /\ rank <= Len(results)

LoopsGoOn ==
    [][ /\ pc = "splitting" => SplitGoesOn
        /\ pc = "cutting" => CutGoesOn
        /\ pc = "chunked" /\ ~stored => EmbeddingGoesOn
        /\ phase = "citing" => CitingGoesOn ]_vars

LEMMA SplitStep ==
    ASSUME ChunkerInv, ChunkerNext, pc = "splitting"
    PROVE  SplitGoesOn
  <1>1. text \in Seq(Line) /\ DOMAIN text = 1..Len(text) /\ next \in Nat
    BY ChunkerConfig, LenProperties DEF ChunkerInv, ChunkerTypes
  <1>2. ASSUME NEW kind, Reads(kind) PROVE SplitGoesOn
    BY <1>1, <1>2 DEF Reads, SplitGoesOn
  <1>3. CASE EndOfText
    BY <1>3 DEF EndOfText, SplitGoesOn
  <1>4. ~Cut /\ ~Return
    BY DEF Cut, Return
  <1> QED BY <1>2, <1>3, <1>4 DEF ChunkerNext, ReadBlank, ReadHeading, ReadText

\* A window that is not the last of its section ends before the section does, and
\* the next one starts as many words further as the target exceeds the overlap.
LEMMA CutStep ==
    ASSUME ChunkerInv, Cut
    PROVE  CutGoesOn
  <1> DEFINE words == sections[section].words
             end   == IF start + TargetTokens < Len(words) THEN start + TargetTokens
                      ELSE Len(words)
  <1>1. /\ words \in Seq(Word) /\ end \in Nat /\ end <= Len(words)
    BY CutFacts
  <1>2. Len(words) \in Nat
    BY <1>1, LenProperties
  <1>3. /\ TargetTokens \in Nat /\ OverlapTokens \in Nat /\ OverlapTokens < TargetTokens
        /\ start \in Nat /\ sections \in Seq(Section) /\ section \in DOMAIN sections
    BY ChunkerConfig DEF ChunkerInv, ChunkerTypes, Cut
  <1>4. section <= Len(sections)
    BY <1>3, LenProperties
  <1>5. /\ pc' = pc /\ sections' = sections
        /\ IF end >= Len(words) THEN section' = section + 1 /\ start' = 0
                                ELSE section' = section /\ start' = NextStart(end)
    BY DEF Cut
  <1>6. CASE end >= Len(words)
    BY <1>4, <1>5, <1>6 DEF CutGoesOn
  <1>7. CASE ~(end >= Len(words))
    <2>1. end = start + TargetTokens /\ end < Len(words)
      BY <1>1, <1>2, <1>3, <1>7
    <2>2. NextStart(end) = start + (TargetTokens - OverlapTokens)
      BY <1>3, <2>1 DEF NextStart
    <2>3. start + (TargetTokens - OverlapTokens) < Len(words)
      BY <1>2, <1>3, <2>1
    <2> QED BY <1>5, <1>7, <2>2, <2>3 DEF CutGoesOn
  <1> QED BY <1>6, <1>7

LEMMA EmbedStep ==
    ASSUME DocumentsInv, EmbedBatch, ~stored
    PROVE  EmbeddingGoesOn
  <1> DEFINE m == Len(embeddings)
             n == Smaller(Len(chunks), m + BatchSize) - m
  <1>1. /\ m \in Nat /\ Len(chunks) \in Nat /\ DOMAIN chunks = 1..Len(chunks)
        /\ embeddings \in Seq(Seq(Word)) /\ BatchSize \in Nat \ {0} /\ m < Len(chunks)
        /\ chunks \in Seq(Chunk)
    BY DocumentsConfig, LenProperties DEF DocumentsInv, Embedding, ChunkerInv,
                                          ChunkerTypes, EmbedBatch
  <1>2. n \in 1..(Len(chunks) - m)
    BY <1>1 DEF Smaller
  <1>3. Batch = [i \in 1..n |-> chunks[m + i].words]
    BY DEF Batch
  <1>4. embeddings' = embeddings \o Batch /\ chunks' = chunks /\ stored' = stored
    BY DEF EmbedBatch, chunkerVars
  <1> HIDE DEF m, n
  <1>5. ASSUME NEW i \in 1..n PROVE chunks[m + i].words \in Seq(Word)
    <2>1. m + i \in DOMAIN chunks
      BY <1>1, <1>2
    <2>2. chunks[m + i] \in Chunk
      BY <1>1, <2>1
    <2> QED BY <2>2 DEF Chunk
  <1>6. Batch \in Seq(Seq(Word)) /\ Len(Batch) = n
    <2>1. n \in Nat
      BY <1>1, <1>2
    <2> QED BY <1>3, <1>5, <2>1
  <1>7. Len(embeddings \o Batch) = Len(embeddings) + Len(Batch)
    BY ONLY <1>1, <1>6, ConcatProperties
  <1>8. Len(embeddings') = m + n
    BY <1>4, <1>6, <1>7 DEF m
  <1>9. m + n \in (m + 1)..Len(chunks)
    BY <1>1, <1>2
  <1> QED BY <1>4, <1>8, <1>9 DEF EmbeddingGoesOn, m

LEMMA CitingStep ==
    ASSUME AttributionInv, AttributionNext, phase = "citing"
    PROVE  CitingGoesOn
  <1>1. ASSUME rank \in DOMAIN results PROVE rank <= Len(results)
    BY <1>1, LenProperties DEF AttributionInv, AttributionTypes
  <1>2. CASE PassOver
    BY <1>1, <1>2 DEF PassOver, CitingGoesOn
  <1>3. CASE Cite
    BY <1>1, <1>3 DEF Cite, CitingGoesOn
  <1>4. CASE EndOfResults
    BY <1>4 DEF EndOfResults, CitingGoesOn
  <1>5. ~Retrieve /\ ~Prompt /\ ~Answer /\ ~Respond
    BY DEF Retrieve, Prompt, Answer, Respond
  <1> QED BY <1>2, <1>3, <1>4, <1>5 DEF AttributionNext

\* Every loop from a text to its citations ends, for every text, every target and
\* overlap the constructor admits and every batch size: no step of one leaves it
\* where it was.
THEOREM LoopsEnd == Spec => LoopsGoOn
  <1>1. ASSUME DocumentsInv, Next
        PROVE  /\ pc = "splitting" => SplitGoesOn
               /\ pc = "cutting" => CutGoesOn
               /\ pc = "chunked" /\ ~stored => EmbeddingGoesOn
               /\ phase = "citing" => CitingGoesOn
    <2>1. /\ ChunkerInv /\ AttributionInv
          /\ stored => pc = "chunked"
          /\ ~stored => phase = "idle"
      BY <1>1 DEF DocumentsInv, Storing, NoQuery
    <2>2. CASE ChunkDocument
      <3>1. ChunkerNext /\ pc # "chunked" /\ ~stored
        BY <2>1, <2>2 DEF ChunkDocument, ChunkerNext, ReadBlank, ReadHeading, ReadText,
                          Reads, EndOfText, Cut, Return
      <3>2. pc = "cutting" => CutGoesOn
        <4>1. CASE Cut
          BY <2>1, <4>1, CutStep
        <4>2. CASE Return
          BY <4>2 DEF Return, CutGoesOn
        <4> QED BY <3>1, <4>1, <4>2 DEF ChunkerNext, ReadBlank, ReadHeading, ReadText,
                                        Reads, EndOfText
      <3> QED BY <2>1, <3>1, <3>2, SplitStep
    <2>3. CASE EmbedBatch
      <3>1. pc = "chunked" /\ UNCHANGED phase
        BY <2>3 DEF EmbedBatch, attributionVars, queryVars
      <3>2. ~stored
        <4>1. Len(embeddings) \in Nat /\ Len(chunks) \in Nat
              /\ Len(embeddings) < Len(chunks)
          BY <1>1, <2>3, LenProperties DEF EmbedBatch, DocumentsInv, Embedding,
                                           ChunkerInv, ChunkerTypes
        <4> QED BY <1>1, <4>1 DEF DocumentsInv, Storing
      <3> QED BY <1>1, <2>1, <2>3, <3>1, <3>2, EmbedStep
    <2>4. CASE Store
      BY <2>1, <2>4 DEF Store, EmbeddingGoesOn
    <2>5. CASE Query
      BY <2>1, <2>5, CitingStep DEF Query
    <2> QED BY <1>1, <2>2, <2>3, <2>4, <2>5 DEF Next
  <1>2. DocumentsInv /\ [Next]_vars =>
          [ /\ pc = "splitting" => SplitGoesOn
            /\ pc = "cutting" => CutGoesOn
            /\ pc = "chunked" /\ ~stored => EmbeddingGoesOn
            /\ phase = "citing" => CitingGoesOn ]_vars
    BY <1>1
  <1> QED BY <1>2, DocumentsAlways, PTL DEF Spec, LoopsGoOn

=============================================================================
