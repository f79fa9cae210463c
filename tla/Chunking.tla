------------------------------- MODULE Chunking -------------------------------
(***************************************************************************)
(* Splitting the text of a document into overlapping token windows         *)
(* (ingest/chunk.py: chunk_segments), one Window action per iteration of   *)
(* its loop.                                                               *)
(*                                                                         *)
(* A text is what the tokeniser sees of it: its bytes 1, 2, ..., the bytes *)
(* that begin a character, the byte each token ends with and the bytes     *)
(* that begin a segment.  A token may end inside a character.              *)
(***************************************************************************)
EXTENDS Integers, FiniteSets

CONSTANTS
    Texts,       \* the joined texts
    Sizes,       \* the values of chunk_tokens
    Overlaps     \* the values of chunk_overlap

\* cut[i] is the last byte of token i.  A separator of two characters stands
\* before every segment but the first.
IsText(x) ==
    /\ x.tokens \in Nat
    /\ x.cut \in [0..x.tokens -> Nat]
    /\ x.cut[0] = 0
    /\ \A i, j \in 0..x.tokens : i < j => x.cut[i] < x.cut[j]
    /\ x.leads \subseteq 1..x.cut[x.tokens]
    /\ x.segments \subseteq x.leads
    /\ x.tokens > 0 => 1 \in x.segments
    /\ x.segments # {} => x.tokens > 0
    /\ \A s \in x.segments \ {1} : {s - 2, s - 1} \subseteq x.leads \ x.segments

ASSUME ChunkingAssumption ==
    /\ \A x \in Texts : IsText(x)
    /\ Sizes \subseteq Nat
    /\ Overlaps \subseteq Nat

VARIABLES
    text,        \* full_text and its tokens
    size,        \* chunk_tokens
    overlap,     \* chunk_overlap
    at,          \* where the call is
    start,       \* start: the tokens before the next window
    ordinal,     \* ordinal
    prefixLen,   \* prefix_len
    rows         \* the ChunkRows so far

chunkingVars == <<text, size, overlap, at, start, ordinal, prefixLen, rows>>

ChunkingInit ==
    /\ text \in Texts
    /\ size \in Sizes
    /\ overlap \in Overlaps
    /\ at = "called"
    /\ start = 0
    /\ ordinal = 0
    /\ prefixLen = 0
    /\ rows = {}

-----------------------------------------------------------------------------
(* Characters. *)

\* The bytes of a slice, after byte a and up to byte b, that decode to a
\* character each: those that begin one, and those whose beginning the slice
\* has cut off, which errors="replace" turns into a replacement character each.
\* A character that the slice cuts off at its end is one character.
DecodedAs(a, b) ==
    {i \in (a + 1)..b : i \in text.leads \/ text.leads \cap (a + 1)..i = {}}

\* len(enc.decode(tokens[i:j]))
DecodedLen(i, j) == Cardinality(DecodedAs(text.cut[i], text.cut[j]))

\* The character offset in full_text at which byte b + 1 stands.
CharOffset(b) == Cardinality(DecodedAs(0, b))

\* No character is cut between token i and the next one.
Clean(i) == text.cut[i] = text.cut[text.tokens] \/ text.cut[i] + 1 \in text.leads

\* Mutant of Begun: bisect_left.
BegunBefore(pos) == {s \in text.segments : CharOffset(s - 1) < pos}

\* bisect_right over the starts of the segments
Begun(pos) == {s \in text.segments : CharOffset(s - 1) <= pos}

\* locate: the segment, by its first byte, that character pos belongs to.
Locate(pos) ==
    IF Begun(pos) = {} THEN 1
    ELSE CHOOSE s \in Begun(pos) : \A r \in Begun(pos) : r <= s

-----------------------------------------------------------------------------
(* chunk_segments *)

\* Mutant of TooMuch: an overlap of a whole window is let through.
TooMuchByOne == overlap > size

TooMuch == overlap >= size

NoSegments ==
    /\ at = "called"
    /\ text.segments = {}
    /\ at' = "done"
    /\ UNCHANGED <<text, size, overlap, start, ordinal, prefixLen, rows>>

\* ValueError: the run fails in step 'chunking'.
Reject ==
    /\ at = "called"
    /\ text.segments # {}
    /\ TooMuch
    /\ at' = "rejected"
    /\ UNCHANGED <<text, size, overlap, start, ordinal, prefixLen, rows>>

\* encode raises on text that spells a special token, such as <|endoftext|>.
EncodeRaises ==
    /\ at = "called"
    /\ text.segments # {}
    /\ ~TooMuch
    /\ at' = "rejected"
    /\ UNCHANGED <<text, size, overlap, start, ordinal, prefixLen, rows>>

Encode ==
    /\ at = "called"
    /\ text.segments # {}
    /\ ~TooMuch
    /\ at' = "loop"
    /\ UNCHANGED <<text, size, overlap, start, ordinal, prefixLen, rows>>

WindowEnd == IF start + size <= text.tokens THEN start + size ELSE text.tokens

NextStart == WindowEnd - overlap

\* Mutant of Passed: the whole window is added to prefix_len.
PassedWindow == DecodedLen(start, WindowEnd)

\* The characters between this window's start and the next one's.
Passed == DecodedLen(start, NextStart)

NewRow ==
    [ord |-> ordinal, first |-> start, last |-> WindowEnd, charStart |-> prefixLen,
     charEnd |-> prefixLen + DecodedLen(start, WindowEnd), segment |-> Locate(prefixLen)]

\* One iteration; the window that reaches the end is the last.
Window ==
    /\ at = "loop"
    /\ rows' = rows \cup {NewRow}
    /\ ordinal' = ordinal + 1
    /\ IF WindowEnd = text.tokens
       THEN /\ at' = "done"
            /\ UNCHANGED <<start, prefixLen>>
       ELSE /\ start' = NextStart
            /\ prefixLen' = prefixLen + Passed
            /\ at' = at
    /\ UNCHANGED <<text, size, overlap>>

ChunkingNext == NoSegments \/ Reject \/ EncodeRaises \/ Encode \/ Window

ChunkingSpec == ChunkingInit /\ [][ChunkingNext]_chunkingVars

-----------------------------------------------------------------------------
(* Properties. *)

ChunkingTypeOK ==
    /\ text \in Texts /\ size \in Sizes /\ overlap \in Overlaps
    /\ at \in {"called", "rejected", "loop", "done"}
    /\ start \in Nat /\ ordinal \in Nat /\ prefixLen \in Nat
    /\ \A r \in rows :
          /\ r.ord \in Nat /\ r.charStart \in Nat /\ r.charEnd \in Nat
          /\ r.first \in 0..text.tokens /\ r.last \in 0..text.tokens

\* Every token is in a chunk, and neighbours share the overlap and nothing
\* else: the windows begin with the first token, each holds at most
\* chunk_tokens and begins chunk_overlap before the end of the one before,
\* later than it began, and only the last one reaches the end of the text.
WindowsTile ==
    /\ \A r \in rows :
          /\ r.first < r.last /\ r.last <= r.first + size
          /\ r.ord = 0 => r.first = 0
          /\ r.last = text.tokens <=> at = "done" /\ r.ord = ordinal - 1
    /\ \A q, r \in rows :
          r.ord = q.ord + 1 => r.first = q.last - overlap /\ q.first < r.first
    /\ at = "done" /\ text.tokens > 0 => \E r \in rows : r.last = text.tokens

\* No window before row r began inside a character.
CleanBefore(r) == \A q \in rows : q.ord < r.ord => Clean(q.first)

\* "prefix_len = len(decode(tokens[:start]))" (ingest/chunk.py:55), as far as
\* it is true: adding up the lengths of decoded pieces gives the offset of the
\* chunk in full_text as long as no earlier window began inside a character,
\* and never too small an offset when one did.  That spans drift at all is what
\* RAG-REMEDIATION-PLAN.md:268 takes for refuted.
SpansPointAtText ==
    \A r \in rows :
        /\ r.charStart >= CharOffset(text.cut[r.first])
        /\ CleanBefore(r) => r.charStart = CharOffset(text.cut[r.first])
        /\ CleanBefore(r) /\ Clean(r.first) => r.charEnd = CharOffset(text.cut[r.last])

\* The segments that begin no later than the chunk does.
BegunBy(r) == {s \in text.segments : s <= text.cut[r.first] + 1}

\* "Each chunk records the page/paragraph it begins in" (ingest/chunk.py:4) and
\* "offsets/page mapping are correct" (RAG-REMEDIATION-PLAN.md:268), as far as they
\* are true: the segment cited is the one that holds the first byte of the chunk,
\* or that the separator it begins in follows, until a window has begun inside
\* a character.  From then on it may be a later one, but never an earlier one.
LocatedUntilDrift ==
    \A r \in rows :
        /\ \A s \in BegunBy(r) : s <= r.segment
        /\ CleanBefore(r) => r.segment \in BegunBy(r)

=============================================================================
