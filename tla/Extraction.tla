------------------------------ MODULE Extraction ------------------------------
(***************************************************************************)
(* From the bytes of an upload to its segments (ingest/extract.py): the    *)
(* pdfplumber pass, and the cascade that hands a file with too little text *)
(* on to OCR and then to Claude (extract_segments_with_fallback).          *)
(*                                                                         *)
(* A page holds paragraphs and what pdfplumber takes for tables; of a      *)
(* table only its size counts: the rows that are not empty, and the widest *)
(* of them.  The amount of text is counted in segments.                    *)
(***************************************************************************)
EXTENDS Integers, FiniteSets, Sequences

CONSTANTS
    Files,       \* the uploads: [pdf, pages]
    Cutoff,      \* segments per page below which a file counts as scanned
    OcrParas,    \* the numbers of paragraphs OCR may read off a page
    Replies      \* Claude's replies: sequences of blocks [page, paras]

ASSUME ExtractionAssumption ==
    /\ \A f \in Files : f.pages \in Seq([paras : Nat, tables : Seq([rows : Nat, cols : Nat])])
    /\ Cutoff \in Nat
    /\ OcrParas \subseteq Nat

VARIABLES
    file,        \* the upload
    stage,       \* how far the cascade is
    nextPage,    \* the page that OCR reads next
    plumbed,     \* segments: what pdfplumber found
    ocr,         \* ocr_segments
    result       \* what the call returns

extractionVars == <<file, stage, nextPage, plumbed, ocr, result>>

ExtractionInit ==
    /\ file \in Files
    /\ stage = "called"
    /\ nextPage = 1
    /\ plumbed = {}
    /\ ocr = {}
    /\ result = {}

-----------------------------------------------------------------------------
(* The pdfplumber pass. *)

\* _real_table_bboxes: these areas are kept out of the text pass.
Boxed(table) == table.rows >= 2 /\ table.cols >= 2

\* Mutant of Tabulated: one row is table enough.
TabulatedOneRow(table) == table.rows >= 1 /\ table.cols >= 2

\* _table_to_text: these give a segment of the table pass.
Tabulated(table) == table.rows >= 2 /\ table.cols >= 2

\* _page_text_excluding_tables: besides the paragraphs, the tables left in.
TextPass(pg) == {j \in DOMAIN pg.tables : pg.tables[j].rows > 0 /\ ~Boxed(pg.tables[j])}

TablePass(pg) == {j \in DOMAIN pg.tables : Tabulated(pg.tables[j])}

\* Segments of page p with paragraph_index first, first + 1, ...: one for each
\* of the items of a kind, in their order.
Number(p, kind, items, first) ==
    {[page |-> p, para |-> first + Cardinality({i \in items : i < j}), item |-> <<kind, j>>] :
        j \in items}

\* Mutant of PageSegments: para_idx starts again for the tables.
PageSegmentsRestart(p, pg) ==
    Number(p, "para", 1..pg.paras, 0)
        \cup Number(p, "table", TextPass(pg), pg.paras)
        \cup Number(p, "table", TablePass(pg), 0)

PageSegments(p, pg) ==
    Number(p, "para", 1..pg.paras, 0)
        \cup Number(p, "table", TextPass(pg), pg.paras)
        \cup Number(p, "table", TablePass(pg), pg.paras + Cardinality(TextPass(pg)))

PdfSegments == UNION {PageSegments(p, file.pages[p]) : p \in 1..Len(file.pages)}

-----------------------------------------------------------------------------
(* The cascade. *)

PageCount == IF file.pages = <<>> THEN 1 ELSE Len(file.pages)

\* _is_sparse, with the threshold divided by part.
Sparse(segments, part) ==
    segments = {} \/ part * Cardinality(segments) < Cutoff * PageCount

Return(segments) ==
    /\ result' = segments
    /\ stage' = "done"

\* _extract_text: everything is on page 1.
PlainText ==
    /\ stage = "called" /\ ~file.pdf
    /\ Return(Number(1, "para", 1..file.pages[1].paras, 0))
    /\ UNCHANGED <<file, nextPage, plumbed, ocr>>

\* pdfplumber cannot read the file: the run fails in step 'extract'.
PlumberRaises ==
    /\ stage = "called" /\ file.pdf
    /\ stage' = "raised"
    /\ UNCHANGED <<file, nextPage, plumbed, ocr, result>>

PlumberReads ==
    /\ stage = "called" /\ file.pdf
    /\ plumbed' = PdfSegments
    /\ IF Sparse(PdfSegments, 1)
       THEN stage' = "ocr" /\ UNCHANGED result
       ELSE Return(PdfSegments)
    /\ UNCHANGED <<file, nextPage, ocr>>

\* pytesseract or pdf2image is missing, or no image can be made.
OcrUnavailable ==
    /\ stage = "ocr" /\ nextPage = 1
    /\ stage' = "read"
    /\ UNCHANGED <<file, nextPage, plumbed, ocr, result>>

\* One page; when pytesseract fails on it the loop goes on with the next one,
\* as after a page without text.
OcrPage(n) ==
    /\ stage = "ocr" /\ nextPage <= Len(file.pages)
    /\ ocr' = ocr \cup Number(nextPage, "ocr", 1..n, 0)
    /\ nextPage' = nextPage + 1
    /\ UNCHANGED <<file, stage, plumbed, result>>

OcrEnds ==
    /\ stage = "ocr" /\ nextPage > Len(file.pages)
    /\ stage' = "read"
    /\ UNCHANGED <<file, nextPage, plumbed, ocr, result>>

\* Mutant of Remaining: what OCR found is forgotten.
RemainingPlumbed == plumbed

\* ocr_segments or segments
Remaining == IF ocr # {} THEN ocr ELSE plumbed

Judge ==
    /\ stage = "read"
    /\ IF Sparse(ocr, 2) THEN stage' = "asking" /\ UNCHANGED result ELSE Return(ocr)
    /\ UNCHANGED <<file, nextPage, plumbed, ocr>>

\* _parse_claude_pages: the paragraphs of every block, numbered from 0.
Parsed(reply) ==
    UNION {{[page |-> reply[b].page, para |-> i - 1, item |-> <<"claude", b, i>>] :
               i \in 1..reply[b].paras} : b \in 1..Len(reply)}

ClaudeAnswers(reply) ==
    /\ stage = "asking"
    /\ Return(IF Parsed(reply) # {} THEN Parsed(reply) ELSE Remaining)
    /\ UNCHANGED <<file, nextPage, plumbed, ocr>>

\* No key is set, or an exception, which gives [].
ClaudeFails ==
    /\ stage = "asking"
    /\ Return(Remaining)
    /\ UNCHANGED <<file, nextPage, plumbed, ocr>>

ExtractionNext ==
    \/ PlainText
    \/ PlumberRaises
    \/ PlumberReads
    \/ OcrUnavailable
    \/ \E n \in OcrParas : OcrPage(n)
    \/ OcrEnds
    \/ Judge
    \/ \E reply \in Replies : ClaudeAnswers(reply)
    \/ ClaudeFails

ExtractionSpec == ExtractionInit /\ [][ExtractionNext]_extractionVars

-----------------------------------------------------------------------------
(* Properties. *)

ItemsOf(pg) ==
    {<<"para", i>> : i \in 1..pg.paras} \cup
    {<<"table", j>> : j \in {k \in 1..Len(pg.tables) : pg.tables[k].rows > 0}}

\* The text of a page is taken once, and all of it: the test that keeps a
\* table out of the text pass and the one that lets it into the table pass are
\* two pieces of code that have to agree ("to avoid duplication",
\* ingest/extract.py:232).
EveryItemOnce ==
    stage \notin {"called", "raised"} /\ file.pdf =>
        \A p \in 1..Len(file.pages) : \A x \in ItemsOf(file.pages[p]) :
            Cardinality({s \in plumbed : s.page = p /\ s.item = x}) = 1

\* Page and paragraph tell the segments of a page apart and have no gaps,
\* through both passes of pdfplumber and the pages OCR fails on.  Claude's
\* reply, which may name a page twice, is not covered.
PlacesDistinct ==
    \A found \in {plumbed, ocr} : \A s \in found :
        /\ \A r \in found : r.page = s.page /\ r.para = s.para => r = s
        /\ s.para > 0 => \E r \in found : r.page = s.page /\ r.para = s.para - 1

\* The stages of the cascade are alternatives: the segments of a PDF are those
\* of one stage, never a mixture whose places would collide; enough text is
\* never replaced; a stage that finds nothing does not lose what an earlier one
\* has found; and what OCR could read goes before what pdfplumber found too
\* little of (extract.py:62-81).  A stage that finds something does replace what
\* an earlier one found, even if it finds less.
FallbackKeepsText ==
    stage = "done" /\ file.pdf =>
        /\ result \in {plumbed, ocr} \/ \A s \in result : s.item[1] = "claude"
        /\ ~Sparse(plumbed, 1) => result = plumbed
        /\ plumbed \cup ocr # {} => result # {}
        /\ Sparse(plumbed, 1) /\ ocr # {} => result # plumbed

=============================================================================
