------------------------------- MODULE Chunking -------------------------------
(***************************************************************************)
(* app/rag_ingest.py: from the lines of a document to its chunks.          *)
(*                                                                         *)
(*   lines -> paragraphs, each under the heading in force -> merged        *)
(*         -> sections -> overlapping windows of words                     *)
(*                                                                         *)
(* A word is <<line, position>>, so that no two words are alike.  PDF      *)
(* extraction and OCR (external) deliver lines; a format without pages     *)
(* has page 0 throughout.                                                  *)
(***************************************************************************)
EXTENDS Integers, Sequences, FiniteSets, SequencesExt

CONSTANTS
    Documents,       \* documents that may be ingested: a format and lines, each with its
                     \*   page, ocr (recognised from a scan), large (in a heading's
                     \*   size or style), title (the text of a large line) and words
                     \*   (how many it has once control characters are stripped)
    NoTitle,         \* no heading yet
    TargetWords,     \* rag.chunking.target_words
    OverlapWords     \* rag.chunking.overlap_words

ASSUME WindowAssumption == TargetWords \in Nat \ {0} /\ OverlapWords \in Nat
ASSUME DocumentsAssumption ==
    \A d \in Documents : d.lines \in Seq(ToSet(d.lines)) /\ \A l \in ToSet(d.lines) : l.words \in Nat

VARIABLES
    doc,             \* the document, as it was uploaded
    pos, heading,    \* parse: the next line, current_heading
    paragraphs,
    sections, at,    \* chunk_paragraphs: the groups; section and i of the loop
    chunks

chunkVars == <<doc, pos, heading, paragraphs, sections, at, chunks>>

ChunkingTypeOK ==
    /\ pos \in 1 .. Len(doc.lines) + 1
    /\ \A p \in ToSet(paragraphs) : p.words \in Seq(Nat \X Nat)
    /\ at.section \in Nat /\ at.i \in Nat \ {0}
    /\ \A k \in DOMAIN chunks : chunks[k].ordinal = k - 1 /\ chunks[k].words # <<>>

ChunkingInit ==
    /\ doc \in Documents
    /\ pos = 1 /\ heading = NoTitle
    /\ paragraphs = <<>> /\ sections = <<>> /\ chunks = <<>>
    /\ at = [section |-> 1, i |-> 1]

-----------------------------------------------------------------------------
Parsed == pos > Len(doc.lines)

WordsOf(k) == [j \in 1 .. doc.lines[k].words |-> <<k, j>>]

\* Outside PDF a line without text is skipped, whatever its style.
IsBlank(k) == doc.format # "pdf" /\ doc.lines[k].words = 0

\* An OCR'd page has no font sizes to tell a heading by.
IsHeading(k) == doc.lines[k].large /\ ~IsBlank(k) /\ ~(doc.format = "pdf" /\ doc.lines[k].ocr)

\* One iteration of the loop of parse_pdf, parse_docx or parse_text.
ParseLine ==
    /\ ~Parsed
    /\ pos' = pos + 1
    /\ LET l == doc.lines[pos]
       IN  IF IsHeading(pos) THEN heading' = l.title /\ UNCHANGED paragraphs
           ELSE /\ UNCHANGED heading
                /\ paragraphs' = IF IsBlank(pos) THEN paragraphs
                                 ELSE Append(paragraphs, [page |-> l.page, heading |-> heading,
                                                          words |-> WordsOf(pos)])
    /\ UNCHANGED <<doc, sections, at, chunks>>

\* Mutant: lines are merged across the end of a page.
MergeAcrossPages(lines) ==
    LET add(merged, p) ==
          IF merged # <<>> /\ Last(merged).heading = p.heading
          THEN Append(Front(merged), [Last(merged) EXCEPT !.words = @ \o p.words])
          ELSE Append(merged, p)
    IN  FoldLeft(add, <<>>, lines)

\* _merge_consecutive_lines: lines of one page under one heading.
Merge(lines) ==
    LET add(merged, p) ==
          IF merged # <<>> /\ Last(merged).page = p.page /\ Last(merged).heading = p.heading
          THEN Append(Front(merged), [Last(merged) EXCEPT !.words = @ \o p.words])
          ELSE Append(merged, p)
    IN  FoldLeft(add, <<>>, lines)

\* _group_by_section: neighbours under the same heading.
GroupBySection(ps) ==
    LET add(groups, p) ==
          IF groups # <<>> /\ Last(Last(groups)).heading = p.heading
          THEN Append(Front(groups), Append(Last(groups), p))
          ELSE Append(groups, <<p>>)
    IN  FoldLeft(add, <<>>, ps)

\* The parser returns, and chunk_paragraphs forms the sections.
Group ==
    /\ Parsed /\ sections = <<>> /\ paragraphs # <<>>
    /\ sections' = GroupBySection(IF doc.format = "pdf" THEN Merge(paragraphs) ELSE paragraphs)
    /\ UNCHANGED <<doc, pos, heading, paragraphs, at, chunks>>

SectionWords(s) == FlattenSeq([k \in DOMAIN s |-> s[k].words])

SectionPages(s) == FlattenSeq([k \in DOMAIN s |-> [j \in DOMAIN s[k].words |-> s[k].page]])

\* Mutant: the overlap is forgotten.
StepPlain == TargetWords

WindowStep == IF TargetWords > OverlapWords THEN TargetWords - OverlapWords ELSE 1

\* Mutant: a window that misses the last word is taken for the last one.
IsLastWindowShort(i, n) == i + TargetWords >= n

\* The window that starts at word i reaches the end of n words.
IsLastWindow(i, n) == i + TargetWords > n

Chunking == sections # <<>> /\ at.section <= Len(sections)

\* Mutant: the ordinal starts again with every section.
OrdinalInSection == at.i - 1

NextOrdinal == Len(chunks)

\* One iteration of the loop over the windows of a section.
Window ==
    /\ Chunking
    /\ LET s     == sections[at.section]
           words == SectionWords(s)
           n     == Len(words)
           stop  == IF at.i + TargetWords > n THEN n ELSE at.i + TargetWords - 1
       IN  /\ chunks' = IF n = 0 THEN chunks
                        ELSE Append(chunks, [ordinal |-> NextOrdinal,
                                             page    |-> SectionPages(s)[at.i],
                                             section |-> s[1].heading,
                                             words   |-> SubSeq(words, at.i, stop)])
           /\ at' = IF n = 0 \/ IsLastWindow(at.i, n)
                    THEN [section |-> at.section + 1, i |-> 1]
                    ELSE [at EXCEPT !.i = @ + WindowStep]
    /\ UNCHANGED <<doc, pos, heading, paragraphs, sections>>

\* chunk_paragraphs has returned.
Chunked == Parsed /\ (sections = <<>> => paragraphs = <<>>) /\ ~Chunking

Chunk == ParseLine \/ Group \/ Window

-----------------------------------------------------------------------------
(* What the chunks are compared with: the lines as they came.              *)

BodyWords == FlattenSeq([k \in DOMAIN doc.lines |-> IF IsHeading(k) THEN <<>> ELSE WordsOf(k)])

\* The heading a line stands under.
TitleOver(k) ==
    LET above == {j \in 1 .. k - 1 : IsHeading(j)}
    IN  IF above = {} THEN NoTitle
        ELSE doc.lines[CHOOSE j \in above : \A i \in above : i <= j].title

\* The chunks hold every word of the text, and each a run of it, however the
\* lines were merged and grouped.
ChunksCoverText ==
    Chunked =>
       /\ UNION {ToSet(chunks[k].words) : k \in DOMAIN chunks} = ToSet(BodyWords)
       /\ \A k \in DOMAIN chunks :
             \E i \in DOMAIN BodyWords :
                chunks[k].words = SubSeq(BodyWords, i, i + Len(chunks[k].words) - 1)

\* Chunk k and the next one are windows of one section: no other heading
\* stands between the last word of the one and the first of the other.
SameSection(k) ==
    \A l \in Last(chunks[k].words)[1] .. Head(chunks[k + 1].words)[1] :
       TitleOver(l) = chunks[k].section

\* Two windows of one section share as many words as the overlap says, the last
\* of the one and the first of the other, and the second has words of its own;
\* no window is longer than the target.
ChunksOverlap ==
    \A k \in DOMAIN chunks :
       /\ Len(chunks[k].words) <= TargetWords
       /\ k + 1 \in DOMAIN chunks /\ SameSection(k) =>
             LET here == chunks[k].words
                 next == chunks[k + 1].words
             IN  /\ Len(here) = TargetWords /\ Len(next) > OverlapWords
                 /\ SubSeq(here, TargetWords - OverlapWords + 1, TargetWords)
                       = SubSeq(next, 1, OverlapWords)

\* A chunk names the page its first word is on, and the heading that every one
\* of its words stands under.
ChunksAreLabelled ==
    \A k \in DOMAIN chunks :
       /\ chunks[k].page = doc.lines[Head(chunks[k].words)[1]].page
       /\ \A w \in ToSet(chunks[k].words) : TitleOver(w[1]) = chunks[k].section
=============================================================================
