------------------------------ MODULE MCRagText ------------------------------
(* Instances of RagText for TLC.                                           *)
EXTENDS RagText, TLC

L(page, ocr, title, words) ==
    [page |-> page, ocr |-> ocr, large |-> title # "", title |-> title, words |-> words]

\* A PDF of two pages, where the second may be a scan.
PdfLines ==
    {L(1, FALSE, t, 1) : t \in {"A", "B"}} \cup {L(1, FALSE, "", n) : n \in {0, 1, 4}}
    \cup {L(2, FALSE, "A", 1), L(2, FALSE, "", 3), L(2, TRUE, "C", 2)}

\* An empty line may be in a heading's style.
FlatLines ==
    {L(0, FALSE, "A", n) : n \in {0, 1}} \cup {L(0, FALSE, "B", 1)} \cup {L(0, FALSE, "", n) : n \in {0, 2, 5}}

\* A page is a scan or it is not, and the pages come in order.
InOrder(s) ==
    \A i, j \in DOMAIN s : i < j => /\ s[i].page <= s[j].page
                                    /\ s[i].page = s[j].page => s[i].ocr = s[j].ocr

MCDocuments ==
    {[format |-> "pdf", lines |-> s] : s \in {t \in BoundedSeq(PdfLines, 4) : InOrder(t)}}
    \cup {[format |-> "txt", lines |-> s] : s \in BoundedSeq(FlatLines, 3)}
=============================================================================
