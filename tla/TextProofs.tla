----------------------------- MODULE TextProofs ------------------------------
(***************************************************************************)
(* Proofs about the computations on text.  Chunking: for texts of any      *)
(* length, any tokenisation and any settings; the invariant of the loop    *)
(* says that the windows so far tile the text up to the next one, and that *)
(* prefix_len is the offset of that one unless a window has begun inside a *)
(* character.  Extraction: for any files, any page results of OCR and any  *)
(* replies of Claude.  Hybrid search: for any two rankings, any k and any  *)
(* rrf_k.  Where a claim needs induction over numbers it is made of the    *)
(* least counterexample.                                                   *)
(***************************************************************************)
EXTENDS Chunking, Extraction, HybridSearch, FiniteSetTheorems, WellFoundedInduction, TLAPS

-----------------------------------------------------------------------------
(* Least and greatest elements. *)

LEMMA LeastExists ==
    ASSUME NEW S \in SUBSET Nat, S # {}
    PROVE  \E x \in S : \A y \in S : x <= y
  <1> DEFINE Less == OpToRel(<, Nat)
  <1>1. IsWellFoundedOn(Less, Nat)
    BY NatLessThanWellFounded
  <1>2. \A x, y \in Nat : x < y => <<x, y>> \in Less
    BY DEF OpToRel
  <1> HIDE DEF Less
  <1>3. PICK x \in S : \A y \in S : ~ <<y, x>> \in Less
    BY <1>1, WFMin
  <1>4. \A y \in S : ~ y < x
    BY <1>2, <1>3
  <1> QED
    BY <1>4

LEMMA GreatestExists ==
    ASSUME NEW n \in Nat, NEW S \in SUBSET (0..n), S # {}
    PROVE  \E x \in S : \A y \in S : y <= x
  <1> DEFINE T == {m \in Nat : \A y \in S : y <= m}
  <1>1. n \in T
    OBVIOUS
  <1>2. T \subseteq Nat
    OBVIOUS
  <1>3. PICK t \in T : \A m \in T : t <= m
    BY <1>1, <1>2, LeastExists
  <1>4. t \in S
    <2> SUFFICES ASSUME t \notin S PROVE FALSE
      OBVIOUS
    <2>1. PICK x \in S : TRUE
      OBVIOUS
    <2>2. t > 0 /\ t \in Nat /\ \A y \in S : y <= t /\ y # t /\ y \in Nat
      BY <2>1
    <2>3. t - 1 \in T
      BY <2>2
    <2> QED
      BY <1>3, <2>2, <2>3
  <1> QED
    BY <1>4

-----------------------------------------------------------------------------
(* Characters. *)

\* Characters in a slice are countable.
LEMMA DecodedFinite ==
    ASSUME NEW a \in Nat, NEW b \in Nat
    PROVE  IsFiniteSet(DecodedAs(a, b)) /\ Cardinality(DecodedAs(a, b)) \in Nat
  <1>1. IsFiniteSet((a + 1)..b)
    BY FS_Interval
  <1>2. DecodedAs(a, b) \subseteq (a + 1)..b
    BY DEF DecodedAs
  <1> QED
    BY <1>1, <1>2, FS_Subset, FS_CardinalityType

\* Decoding a text in two pieces gives at least as many characters as decoding
\* it at once, and exactly as many when no character is cut.
LEMMA DecodedInTwo ==
    ASSUME NEW b \in Nat, NEW c \in Nat, b <= c
    PROVE  /\ Cardinality(DecodedAs(0, c)) <= Cardinality(DecodedAs(0, b)) + Cardinality(DecodedAs(b, c))
           /\ b = c \/ b + 1 \in text.leads =>
                 Cardinality(DecodedAs(0, c)) = Cardinality(DecodedAs(0, b)) + Cardinality(DecodedAs(b, c))
  <1> DEFINE Prefix == DecodedAs(0, b)
             Back  == DecodedAs(b, c)
             Whole == DecodedAs(0, c)
             Rest  == Whole \cap (b + 1)..c
  <1>1. Whole = Prefix \cup Rest
    <2>1. \A i \in 1..b : i \in Whole <=> i \in Prefix
      BY DEF DecodedAs
    <2>2. Whole \subseteq 1..c /\ Prefix \subseteq 1..b
      BY DEF DecodedAs
    <2> QED
      BY <2>1, <2>2
  <1>2. Prefix \cap Rest = {}
    BY DEF DecodedAs
  <1>3. Rest \subseteq Back
    <2> SUFFICES ASSUME NEW i \in Rest PROVE i \in Back
      OBVIOUS
    <2>1. i \in (b + 1)..c /\ (i \in text.leads \/ text.leads \cap 1..i = {})
      BY DEF DecodedAs
    <2>2. (b + 1)..i \subseteq 1..i
      BY <2>1
    <2> QED
      BY <2>1, <2>2 DEF DecodedAs
  <1>4. IsFiniteSet(Prefix) /\ IsFiniteSet(Back) /\ IsFiniteSet(Whole)
        /\ Cardinality(Prefix) \in Nat /\ Cardinality(Back) \in Nat
    BY DecodedFinite
  <1>5. IsFiniteSet(Rest) /\ Cardinality(Rest) <= Cardinality(Back) /\ Cardinality(Rest) \in Nat
    BY <1>3, <1>4, FS_Subset, FS_CardinalityType
  <1>6. Cardinality(Whole) = Cardinality(Prefix) + Cardinality(Rest)
    <2>1. Cardinality(Prefix \cap Rest) = 0
      BY <1>2, FS_EmptySet
    <2>2. Cardinality(Prefix \cup Rest) =
             Cardinality(Prefix) + Cardinality(Rest) - Cardinality(Prefix \cap Rest)
      BY <1>4, <1>5, FS_Union
    <2>3. Cardinality(Whole) =
             Cardinality(Prefix) + Cardinality(Rest) - Cardinality(Prefix \cap Rest)
      BY ONLY <1>1, <2>2
    <2> HIDE DEF Prefix, Rest, Whole
    <2> QED
      BY <1>4, <1>5, <2>1, <2>3
  <1>7. b = c \/ b + 1 \in text.leads => Back = Rest
    <2>1. CASE b = c
      BY <2>1, <1>3 DEF DecodedAs
    <2>2. CASE b + 1 \in text.leads
      <3> SUFFICES ASSUME NEW i \in Back PROVE i \in Rest
        BY <1>3
      <3>1. i \in (b + 1)..c /\ b + 1 \in (b + 1)..i
        BY DEF DecodedAs
      <3>2. i \in text.leads
        BY <2>2, <3>1 DEF DecodedAs
      <3> QED
        BY <3>1, <3>2 DEF DecodedAs
    <2> QED
      BY <2>1, <2>2
  <1> HIDE DEF Prefix, Back, Whole, Rest
  <1>8. Cardinality(Whole) <= Cardinality(Prefix) + Cardinality(Back)
    BY <1>4, <1>5, <1>6
  <1>9. b = c \/ b + 1 \in text.leads => Cardinality(Whole) = Cardinality(Prefix) + Cardinality(Back)
    BY <1>6, <1>7
  <1> QED
    BY <1>8, <1>9 DEF Prefix, Back, Whole

-----------------------------------------------------------------------------
(* Types. *)

\* What the assumptions say of the text and settings of a call.
LEMMA Inputs ==
    ASSUME ChunkingTypeOK
    PROVE  /\ IsText(text) /\ size \in Nat /\ overlap \in Nat
           /\ text.tokens \in Nat
           /\ \A i \in 0..text.tokens : text.cut[i] \in Nat
           /\ \A i, j \in 0..text.tokens : i <= j => text.cut[i] <= text.cut[j]
           /\ \A i, j \in 0..text.tokens : i < j => text.cut[i] < text.cut[j]
  <1>1. IsText(text) /\ size \in Nat /\ overlap \in Nat
    BY ChunkingAssumption DEF ChunkingTypeOK
  <1> QED
    BY <1>1 DEF IsText

-----------------------------------------------------------------------------
(* One window. *)

\* A window is not empty, keeps to its size and to the text; the next one, if
\* there is one, begins in the text and later.
LEMMA WindowBounds ==
    ASSUME ChunkingTypeOK, overlap < size, start < text.tokens
    PROVE  /\ WindowEnd \in 0..text.tokens /\ start < WindowEnd /\ WindowEnd <= start + size
           /\ WindowEnd # text.tokens =>
                 NextStart \in 0..text.tokens /\ start < NextStart /\ NextStart < text.tokens
  BY Inputs DEF ChunkingTypeOK, WindowEnd, NextStart

\* Pieces of text have a length.
LEMMA DecodedLenType ==
    ASSUME ChunkingTypeOK, NEW i \in 0..text.tokens, NEW j \in 0..text.tokens
    PROVE  DecodedLen(i, j) \in Nat
  <1>1. text.cut[i] \in Nat /\ text.cut[j] \in Nat
    BY Inputs
  <1> QED
    BY <1>1, DecodedFinite DEF DecodedLen

\* An invariant of the loop: what the windows so far say about the next one.
LoopInv ==
    /\ at \in {"called", "rejected"} => rows = {} /\ start = 0 /\ ordinal = 0 /\ prefixLen = 0
    /\ \A r \in rows : r.ord < ordinal
    /\ at = "loop" =>
          /\ overlap < size
          /\ start < text.tokens
          /\ ordinal = 0 => start = 0
          /\ \A r \in rows : r.last < text.tokens
          /\ \A r \in rows : r.ord = ordinal - 1 => start = r.last - overlap /\ r.first < start
    /\ WindowsTile

\* The types, through one iteration.
LEMMA WindowType ==
    ASSUME ChunkingTypeOK, LoopInv, Window PROVE ChunkingTypeOK'
  <1>1. /\ WindowEnd \in 0..text.tokens
        /\ WindowEnd # text.tokens => NextStart \in 0..text.tokens
    BY WindowBounds DEF LoopInv, Window
  <1>2. start \in 0..text.tokens /\ text.tokens \in Nat
    BY Inputs DEF LoopInv, Window, ChunkingTypeOK
  <1>3. DecodedLen(start, WindowEnd) \in Nat
    BY <1>1, <1>2, DecodedLenType
  <1>4. WindowEnd # text.tokens => DecodedLen(start, NextStart) \in Nat
    BY <1>1, <1>2, DecodedLenType
  <1>5. /\ text' = text /\ size' = size /\ overlap' = overlap
        /\ at' \in {"loop", "done"}
        /\ ordinal' \in Nat /\ start' \in Nat /\ prefixLen' \in Nat
    BY <1>1, <1>2, <1>4 DEF Window, ChunkingTypeOK, Passed
  <1>6. /\ NewRow.ord \in Nat /\ NewRow.charStart \in Nat /\ NewRow.charEnd \in Nat
        /\ NewRow.first \in 0..text.tokens /\ NewRow.last \in 0..text.tokens
    BY <1>1, <1>2, <1>3 DEF ChunkingTypeOK, NewRow
  <1>7. rows' = rows \cup {NewRow}
    BY DEF Window
  <1> QED
    BY <1>5, <1>6, <1>7 DEF ChunkingTypeOK

\* The invariant, through one iteration.
LEMMA WindowLoop ==
    ASSUME ChunkingTypeOK, LoopInv, Window PROVE LoopInv'
  <1> DEFINE row == NewRow
  <1>1. /\ WindowEnd \in 0..text.tokens /\ start < WindowEnd /\ WindowEnd <= start + size
        /\ WindowEnd # text.tokens =>
              NextStart \in 0..text.tokens /\ start < NextStart /\ NextStart < text.tokens
    BY WindowBounds DEF LoopInv, Window
  <1>2. row.ord = ordinal /\ row.first = start /\ row.last = WindowEnd
    BY DEF NewRow
  <1>3. /\ rows' = rows \cup {row} /\ ordinal' = ordinal + 1
        /\ text' = text /\ size' = size /\ overlap' = overlap
        /\ WindowEnd = text.tokens => at' = "done"
        /\ WindowEnd # text.tokens => at' = "loop" /\ start' = WindowEnd - overlap
    BY DEF Window, NextStart
  <1>4. /\ ordinal \in Nat /\ start \in Nat /\ text.tokens \in Nat /\ size \in Nat /\ overlap \in Nat
        /\ \A r \in rows : r.ord \in Nat /\ r.first \in 0..text.tokens /\ r.last \in 0..text.tokens
    BY Inputs DEF ChunkingTypeOK
  <1>5. /\ overlap < size
        /\ ordinal = 0 => start = 0
        /\ \A r \in rows : r.ord < ordinal /\ r.last < text.tokens
        /\ \A r \in rows : r.ord = ordinal - 1 => start = r.last - overlap /\ r.first < start
        /\ at = "loop"
    BY DEF LoopInv, Window
  <1>6. WindowsTile
    BY DEF LoopInv
  <1> HIDE DEF row
  <1>7. \A r \in rows' : r.ord < ordinal'
    BY <1>2, <1>3, <1>4, <1>5
  <1>8. at' = "loop" =>
          /\ overlap' < size' /\ start' < text'.tokens
          /\ ordinal' = 0 => start' = 0
          /\ \A r \in rows' : r.last < text'.tokens
          /\ \A r \in rows' : r.ord = ordinal' - 1 => start' = r.last - overlap' /\ r.first < start'
    <2> SUFFICES ASSUME at' = "loop"
                 PROVE  /\ overlap' < size' /\ start' < text'.tokens
                        /\ ordinal' = 0 => start' = 0
                        /\ \A r \in rows' : r.last < text'.tokens
                        /\ \A r \in rows' : r.ord = ordinal' - 1 =>
                              start' = r.last - overlap' /\ r.first < start'
      OBVIOUS
    <2>1. WindowEnd # text.tokens /\ start' = WindowEnd - overlap
          /\ start < start' /\ start' < text.tokens /\ WindowEnd < text.tokens
      BY <1>1, <1>3, <1>4 DEF NextStart
    <2> QED
      BY <2>1, <1>2, <1>3, <1>4, <1>5
  <1>9. WindowsTile'
    <2>1. \A r \in rows' :
             /\ r.first < r.last /\ r.last <= r.first + size'
             /\ r.ord = 0 => r.first = 0
      BY <1>1, <1>2, <1>3, <1>4, <1>5, <1>6 DEF WindowsTile
    <2>2. \A r \in rows' : r.last = text'.tokens <=> at' = "done" /\ r.ord = ordinal' - 1
      BY <1>1, <1>2, <1>3, <1>4, <1>5
    <2>3. \A q, r \in rows' :
             r.ord = q.ord + 1 => r.first = q.last - overlap' /\ q.first < r.first
      <3>1. \A q, r \in rows :
               r.ord = q.ord + 1 => r.first = q.last - overlap /\ q.first < r.first
        BY <1>6 DEF WindowsTile
      <3>2. \A q \in rows : row.ord = q.ord + 1 =>
               row.first = q.last - overlap /\ q.first < row.first
        BY <1>2, <1>4, <1>5
      <3>3. \A r \in rows' : r.ord # row.ord + 1
        BY <1>2, <1>3, <1>4, <1>5
      <3> QED
        BY <1>3, <3>1, <3>2, <3>3
    <2>4. at' = "done" => \E r \in rows' : r.last = text'.tokens
      BY <1>1, <1>2, <1>3
    <2> QED
      BY <2>1, <2>2, <2>3, <2>4 DEF WindowsTile
  <1>10. at' \notin {"called", "rejected"}
    BY <1>3
  <1> QED
    BY <1>7, <1>8, <1>9, <1>10 DEF LoopInv

\* The steps that do not enter the loop body.
LEMMA OtherStepsLoop ==
    ASSUME ChunkingTypeOK, LoopInv,
           NoSegments \/ Reject \/ EncodeRaises \/ Encode \/ UNCHANGED chunkingVars
    PROVE  ChunkingTypeOK' /\ LoopInv'
  <1>1. CASE UNCHANGED chunkingVars
    BY <1>1 DEF chunkingVars, ChunkingTypeOK, LoopInv, WindowsTile
  <1>2. CASE NoSegments \/ Reject \/ EncodeRaises \/ Encode
    <2>1. rows = {} /\ start = 0 /\ ordinal = 0 /\ prefixLen = 0
          /\ text.tokens \in Nat /\ size \in Nat /\ overlap \in Nat
          /\ (text.segments = {} => text.tokens = 0)
          /\ (text.segments # {} => text.tokens > 0)
      BY <1>2, Inputs DEF LoopInv, NoSegments, Reject, EncodeRaises, Encode, IsText
    <2>2. UNCHANGED <<text, size, overlap, start, ordinal, prefixLen, rows>>
      BY <1>2 DEF NoSegments, Reject, EncodeRaises, Encode
    <2>3. CASE NoSegments \/ Reject \/ EncodeRaises
      BY <2>1, <2>2, <2>3 DEF NoSegments, Reject, EncodeRaises, ChunkingTypeOK, LoopInv, WindowsTile
    <2>4. CASE Encode
      BY <2>1, <2>2, <2>4 DEF Encode, TooMuch, ChunkingTypeOK, LoopInv, WindowsTile
    <2> QED
      BY <1>2, <2>3, <2>4
  <1> QED
    BY <1>1, <1>2

\* Every token is in a chunk and neighbours overlap by exactly chunk_overlap,
\* for every text and every setting; in particular no window begins where the
\* one before it did, so that the loop ends.
THEOREM WindowsAlwaysTile == ChunkingSpec => [](ChunkingTypeOK /\ WindowsTile)
  <1>1. ChunkingInit => ChunkingTypeOK /\ LoopInv
    BY DEF ChunkingInit, ChunkingTypeOK, LoopInv, WindowsTile
  <1>2. ChunkingTypeOK /\ LoopInv /\ [ChunkingNext]_chunkingVars => ChunkingTypeOK' /\ LoopInv'
    BY OtherStepsLoop, WindowType, WindowLoop DEF ChunkingNext
  <1>3. ChunkingTypeOK /\ LoopInv => ChunkingTypeOK /\ WindowsTile
    BY DEF LoopInv
  <1> QED
    BY <1>1, <1>2, <1>3, PTL DEF ChunkingSpec

-----------------------------------------------------------------------------
(* Spans. *)

\* prefix_len never falls short of the next window's offset, and is exact if
\* all windows so far began at a character.
SpanInv ==
    /\ at = "loop" =>
          /\ prefixLen >= CharOffset(text.cut[start])
          /\ (\A q \in rows : Clean(q.first)) => prefixLen = CharOffset(text.cut[start])
    /\ SpansPointAtText

\* Offsets of token boundaries, and how they add up.
LEMMA OffsetsAddUp ==
    ASSUME ChunkingTypeOK, NEW i \in 0..text.tokens, NEW j \in 0..text.tokens, i < j
    PROVE  /\ CharOffset(text.cut[i]) \in Nat /\ CharOffset(text.cut[j]) \in Nat
           /\ DecodedLen(i, j) \in Nat
           /\ CharOffset(text.cut[j]) <= CharOffset(text.cut[i]) + DecodedLen(i, j)
           /\ Clean(i) => CharOffset(text.cut[j]) = CharOffset(text.cut[i]) + DecodedLen(i, j)
  <1>1. /\ text.cut[i] \in Nat /\ text.cut[j] \in Nat /\ text.cut[text.tokens] \in Nat
        /\ text.cut[i] < text.cut[j] /\ text.cut[j] <= text.cut[text.tokens]
    BY Inputs
  <1>2. Clean(i) => text.cut[i] + 1 \in text.leads
    BY <1>1 DEF Clean
  <1>3. DecodedLen(i, j) \in Nat
    BY DecodedLenType
  <1>4. CharOffset(text.cut[i]) \in Nat /\ CharOffset(text.cut[j]) \in Nat
    BY <1>1, DecodedFinite DEF CharOffset
  <1>5. /\ CharOffset(text.cut[j]) <= CharOffset(text.cut[i]) + DecodedLen(i, j)
        /\ text.cut[i] + 1 \in text.leads =>
              CharOffset(text.cut[j]) = CharOffset(text.cut[i]) + DecodedLen(i, j)
    BY <1>1, DecodedInTwo DEF CharOffset, DecodedLen
  <1> QED
    BY <1>2, <1>3, <1>4, <1>5

\* One iteration keeps the offsets right.
LEMMA WindowSpans ==
    ASSUME ChunkingTypeOK, LoopInv, SpanInv, Window PROVE SpanInv'
  <1> DEFINE row == NewRow
             CleanSoFar == \A q \in rows : Clean(q.first)
  <1>1. /\ WindowEnd \in 0..text.tokens /\ start < WindowEnd
        /\ WindowEnd # text.tokens => NextStart \in 0..text.tokens /\ start < NextStart
    BY WindowBounds DEF LoopInv, Window
  <1>2. /\ row.ord = ordinal /\ row.first = start /\ row.last = WindowEnd
        /\ row.charStart = prefixLen /\ row.charEnd = prefixLen + DecodedLen(start, WindowEnd)
    BY DEF NewRow
  <1>3. /\ rows' = rows \cup {row} /\ text' = text
        /\ at' = "loop" => WindowEnd # text.tokens /\ start' = NextStart
                           /\ prefixLen' = prefixLen + DecodedLen(start, NextStart)
    BY DEF Window, Passed
  <1>4. /\ start \in 0..text.tokens /\ ordinal \in Nat /\ prefixLen \in Nat
        /\ \A r \in rows : r.ord \in Nat /\ r.ord < ordinal
    BY Inputs DEF ChunkingTypeOK, LoopInv, Window
  <1>5. /\ prefixLen >= CharOffset(text.cut[start])
        /\ CleanSoFar => prefixLen = CharOffset(text.cut[start])
    BY DEF SpanInv, Window
  <1>6. /\ CharOffset(text.cut[start]) \in Nat
        /\ DecodedLen(start, WindowEnd) \in Nat
        /\ Clean(start) => CharOffset(text.cut[WindowEnd]) =
                              CharOffset(text.cut[start]) + DecodedLen(start, WindowEnd)
    BY <1>1, <1>4, OffsetsAddUp
  <1>7. WindowEnd # text.tokens =>
           /\ CharOffset(text.cut[NextStart]) \in Nat /\ DecodedLen(start, NextStart) \in Nat
           /\ CharOffset(text.cut[NextStart]) <= CharOffset(text.cut[start]) + DecodedLen(start, NextStart)
           /\ Clean(start) => CharOffset(text.cut[NextStart]) =
                                 CharOffset(text.cut[start]) + DecodedLen(start, NextStart)
    BY <1>1, <1>4, OffsetsAddUp
  <1>8. \A b : CharOffset(b)' = CharOffset(b)
    BY <1>3 DEF CharOffset, DecodedAs
  <1>9. \A i : Clean(i)' <=> Clean(i)
    BY <1>3 DEF Clean
  <1> HIDE DEF row
  <1>10. at' = "loop" =>
            /\ prefixLen' >= CharOffset(text.cut[NextStart])
            /\ CleanSoFar /\ Clean(start) => prefixLen' = CharOffset(text.cut[NextStart])
    <2> HIDE DEF CleanSoFar
    <2> QED
      BY <1>3, <1>4, <1>5, <1>6, <1>7
  <1>11. (\A q \in rows' : Clean(q.first)) => CleanSoFar /\ Clean(start)
    BY <1>2, <1>3
  <1>12. at' = "loop" =>
            /\ prefixLen' >= CharOffset(text.cut[start])'
            /\ (\A q \in rows' : Clean(q.first)') => prefixLen' = CharOffset(text.cut[start])'
    <2>1. at' = "loop" => CharOffset(text.cut[start])' = CharOffset(text.cut[NextStart])
      BY <1>3 DEF CharOffset, DecodedAs
    <2> QED
      BY <1>9, <1>10, <1>11, <2>1
  <1>13. ASSUME NEW r \in rows'
         PROVE  /\ r.charStart >= CharOffset(text.cut[r.first])
                /\ (\A q \in rows' : q.ord < r.ord => Clean(q.first)) =>
                      r.charStart = CharOffset(text.cut[r.first])
                /\ (\A q \in rows' : q.ord < r.ord => Clean(q.first)) /\ Clean(r.first) =>
                      r.charEnd = CharOffset(text.cut[r.last])
    <2>1. CASE r \in rows
      BY <1>3, <2>1 DEF SpanInv, SpansPointAtText, CleanBefore
    <2>2. CASE r = row
      <3>1. (\A q \in rows' : q.ord < r.ord => Clean(q.first)) => CleanSoFar
        BY <1>2, <1>3, <1>4, <2>2
      <3> HIDE DEF CleanSoFar
      <3> QED
        BY <1>2, <1>5, <1>6, <2>2, <3>1
    <2> QED
      BY <1>3, <2>1, <2>2
  <1>14. SpansPointAtText'
    <2>1. \A r \in rows' :
             /\ CharOffset(text.cut[r.first])' = CharOffset(text.cut[r.first])
             /\ CharOffset(text.cut[r.last])' = CharOffset(text.cut[r.last])
      BY <1>3 DEF CharOffset, DecodedAs
    <2>2. \A r \in rows' : CleanBefore(r)' <=> \A q \in rows' : q.ord < r.ord => Clean(q.first)
      BY <1>9 DEF CleanBefore
    <2> QED
      BY <1>9, <1>13, <2>1, <2>2 DEF SpansPointAtText
  <1> QED
    BY <1>12, <1>14 DEF SpanInv

LEMMA SpanInit == ChunkingInit => ChunkingTypeOK /\ LoopInv /\ SpanInv
  BY DEF ChunkingInit, ChunkingTypeOK, LoopInv, WindowsTile, SpanInv, SpansPointAtText

LEMMA SpanStep ==
    ASSUME ChunkingTypeOK, LoopInv, SpanInv, [ChunkingNext]_chunkingVars
    PROVE  ChunkingTypeOK' /\ LoopInv' /\ SpanInv'
  <1>1. CASE Window
    BY <1>1, WindowType, WindowLoop, WindowSpans
  <1>2. CASE NoSegments \/ Reject \/ EncodeRaises \/ Encode \/ UNCHANGED chunkingVars
    <2>1. ChunkingTypeOK' /\ LoopInv'
      BY <1>2, OtherStepsLoop
    <2>2. UNCHANGED <<text, start, prefixLen, rows>>
      BY <1>2 DEF NoSegments, Reject, EncodeRaises, Encode, chunkingVars
    <2>3. SpansPointAtText'
      BY <2>2 DEF SpanInv, SpansPointAtText, CleanBefore, Clean, CharOffset, DecodedAs
    <2>4. CASE Encode
      <3>1. start = 0 /\ prefixLen = 0 /\ text.cut[0] = 0
        BY <2>4, Inputs DEF LoopInv, Encode, IsText
      <3>2. CharOffset(text.cut[start])' = 0
        <4>1. DecodedAs(0, 0)' = {}
          BY DEF DecodedAs
        <4> QED
          BY <2>2, <3>1, <4>1, FS_EmptySet DEF CharOffset
      <3> QED
        BY <2>1, <2>2, <2>3, <3>1, <3>2 DEF SpanInv
    <2>5. CASE NoSegments \/ Reject \/ EncodeRaises
      BY <2>1, <2>3, <2>5 DEF SpanInv, NoSegments, Reject, EncodeRaises
    <2>6. CASE UNCHANGED chunkingVars
      BY <2>1, <2>6 DEF SpanInv, SpansPointAtText, CleanBefore, Clean, CharOffset, DecodedAs, chunkingVars
    <2> QED
      BY <1>2, <2>4, <2>5, <2>6
  <1> QED
    BY <1>1, <1>2 DEF ChunkingNext

\* The chunk offsets are those of the text wherever no earlier window began
\* inside a character, and never fall short of them, for every text and every
\* setting.
THEOREM SpansAlwaysPoint == ChunkingSpec => []SpansPointAtText
  <1>1. SpanInv => SpansPointAtText
    BY DEF SpanInv
  <1> QED
    BY <1>1, SpanInit, SpanStep, PTL DEF ChunkingSpec

\* A place further on in the text has no smaller offset, and a greater one if
\* a character begins in between.
LEMMA OffsetsGrow ==
    ASSUME NEW a \in Nat, NEW b \in Nat, a <= b
    PROVE  /\ CharOffset(a) \in Nat /\ CharOffset(b) \in Nat
           /\ CharOffset(a) <= CharOffset(b)
           /\ text.leads \cap (a + 1)..b # {} => CharOffset(a) < CharOffset(b)
  <1> DEFINE Prefix == DecodedAs(0, a)
             Whole == DecodedAs(0, b)
  <1>1. Prefix \subseteq Whole
    BY DEF DecodedAs
  <1>2. text.leads \cap (a + 1)..b # {} => Prefix # Whole
    <2> SUFFICES ASSUME NEW i \in text.leads, i \in (a + 1)..b PROVE Prefix # Whole
      OBVIOUS
    <2>1. i \in Whole /\ i \notin Prefix
      BY DEF DecodedAs
    <2> QED
      BY <2>1
  <1>3. /\ IsFiniteSet(Prefix) /\ Cardinality(Prefix) \in Nat
        /\ IsFiniteSet(Whole) /\ Cardinality(Whole) \in Nat
    BY DecodedFinite
  <1> HIDE DEF Prefix, Whole
  <1>4. Cardinality(Prefix) <= Cardinality(Whole) /\ (Cardinality(Prefix) = Cardinality(Whole) => Prefix = Whole)
    BY <1>1, <1>3, FS_Subset
  <1>5. /\ Cardinality(Prefix) <= Cardinality(Whole)
        /\ text.leads \cap (a + 1)..b # {} => Cardinality(Prefix) < Cardinality(Whole)
    BY <1>2, <1>3, <1>4
  <1> QED
    BY <1>3, <1>5 DEF CharOffset, Prefix, Whole

\* bisect_right finds the segment of a position that is not before the place,
\* and exactly that of the place when the position is its offset.
LEMMA LocateFinds ==
    ASSUME ChunkingTypeOK, text.tokens > 0, NEW i \in 0..text.tokens, NEW pos \in Nat,
           pos >= CharOffset(text.cut[i])
    PROVE  /\ \A s \in text.segments : s <= text.cut[i] + 1 => s <= Locate(pos)
           /\ pos = CharOffset(text.cut[i]) =>
                 Locate(pos) \in text.segments /\ Locate(pos) <= text.cut[i] + 1
  <1> DEFINE b == text.cut[i]
             n == text.cut[text.tokens]
  <1>1. b \in Nat /\ n \in Nat /\ text.segments \subseteq text.leads /\ text.leads \subseteq 1..n
        /\ 1 \in text.segments
        /\ \A s \in text.segments \ {1} : s - 2 \in text.leads /\ s - 1 \in text.leads
    BY Inputs DEF IsText
  <1>2. \A s \in text.segments : s \in Nat /\ s >= 1 /\ s - 1 \in Nat
    BY <1>1
  <1> HIDE DEF b, n
  <1>3. \A s \in text.segments : s <= b + 1 => s \in Begun(pos)
    <2> SUFFICES ASSUME NEW s \in text.segments, s <= b + 1 PROVE s \in Begun(pos)
      OBVIOUS
    <2>1. CharOffset(s - 1) <= CharOffset(b) /\ CharOffset(s - 1) \in Nat /\ CharOffset(b) \in Nat
      BY <1>1, <1>2, OffsetsGrow
    <2> QED
      BY <2>1 DEF Begun, b
  <1>4. 1 \in Begun(pos)
    BY <1>1, <1>3
  <1>5. /\ Locate(pos) \in Begun(pos)
        /\ \A s \in Begun(pos) : s <= Locate(pos)
    <2>1. Begun(pos) \subseteq 0..n
      BY <1>1 DEF Begun
    <2>2. \E s \in Begun(pos) : \A r \in Begun(pos) : r <= s
      BY <1>1, <1>4, <2>1, GreatestExists
    <2> QED
      BY <1>4, <2>2 DEF Locate
  <1>6. ASSUME pos = CharOffset(b), NEW s \in Begun(pos) PROVE s <= b + 1
    <2> SUFFICES ASSUME s > b + 1 PROVE FALSE
      BY <1>1, <1>2 DEF Begun
    <2>1. s \in text.segments \ {1} /\ s - 1 \in Nat /\ CharOffset(s - 1) <= CharOffset(b)
      BY <1>1, <1>2, <1>6 DEF Begun
    <2>2. s - 1 \in text.leads \cap (b + 1)..(s - 1)
      BY <1>1, <2>1
    <2>3. CharOffset(b) < CharOffset(s - 1) /\ CharOffset(b) \in Nat /\ CharOffset(s - 1) \in Nat
      BY <1>1, <2>1, <2>2, OffsetsGrow
    <2> QED
      BY <2>1, <2>3
  <1> QED
    BY <1>3, <1>5, <1>6 DEF Begun, b

\* The segment of row r is the one it begins in, or a later one.
Located(r) ==
    /\ \A s \in text.segments : s <= text.cut[r.first] + 1 => s <= r.segment
    /\ CleanBefore(r) => r.segment \in text.segments /\ r.segment <= text.cut[r.first] + 1

LEMMA WindowLocates ==
    ASSUME ChunkingTypeOK, LoopInv, SpanInv, Window, \A r \in rows : Located(r)
    PROVE  \A r \in rows' : Located(r)'
  <1>1. PICK row : row = NewRow
    OBVIOUS
  <1>2. /\ row.first = start /\ row.segment = Locate(prefixLen) /\ row.ord = ordinal
        /\ rows' = rows \cup {row} /\ text' = text
    BY <1>1 DEF NewRow, Window
  <1>3. /\ start \in 0..text.tokens /\ text.tokens > 0 /\ prefixLen \in Nat /\ ordinal \in Nat
        /\ \A r \in rows : r.ord < ordinal
    BY Inputs DEF ChunkingTypeOK, LoopInv, Window
  <1>4. /\ prefixLen >= CharOffset(text.cut[start])
        /\ (\A q \in rows : Clean(q.first)) => prefixLen = CharOffset(text.cut[start])
    BY DEF SpanInv, Window
  <1>5. CleanBefore(row)' => \A q \in rows : Clean(q.first)
    BY <1>2, <1>3 DEF CleanBefore, Clean
  <1>6. /\ \A s \in text.segments : s <= text.cut[start] + 1 => s <= Locate(prefixLen)
        /\ prefixLen = CharOffset(text.cut[start]) =>
              Locate(prefixLen) \in text.segments /\ Locate(prefixLen) <= text.cut[start] + 1
    BY <1>3, <1>4, LocateFinds
  <1>7. Located(row)'
    BY <1>2, <1>4, <1>5, <1>6 DEF Located
  <1>8. ASSUME NEW r \in rows PROVE Located(r)'
    <2>1. CleanBefore(r)' => CleanBefore(r)
      BY <1>2 DEF CleanBefore, Clean
    <2> QED
      BY <1>2, <2>1 DEF Located
  <1> QED
    BY <1>2, <1>7, <1>8

\* The page and paragraph of a chunk are those it begins in, for every text
\* and every setting, and never too early when offsets have drifted.
THEOREM ChunksAreLocated == ChunkingSpec => []LocatedUntilDrift
  <1> DEFINE Inv == ChunkingTypeOK /\ LoopInv /\ SpanInv /\ \A r \in rows : Located(r)
  <1>1. ChunkingInit => Inv
    BY SpanInit DEF ChunkingInit
  <1>2. Inv /\ [ChunkingNext]_chunkingVars => Inv'
    <2> SUFFICES ASSUME Inv, [ChunkingNext]_chunkingVars PROVE Inv'
      OBVIOUS
    <2>1. ChunkingTypeOK' /\ LoopInv' /\ SpanInv'
      BY SpanStep
    <2>2. \A r \in rows' : Located(r)'
      <3>1. CASE Window
        BY <3>1, WindowLocates
      <3>2. CASE UNCHANGED <<text, rows>>
        BY <3>2 DEF Located, CleanBefore, Clean
      <3> QED
        BY <3>1, <3>2 DEF ChunkingNext, NoSegments, Reject, EncodeRaises, Encode, chunkingVars
    <2> QED
      BY <2>1, <2>2
  <1>3. Inv => LocatedUntilDrift
    BY DEF Located, LocatedUntilDrift, BegunBy
  <1> QED
    BY <1>1, <1>2, <1>3, PTL DEF ChunkingSpec

-----------------------------------------------------------------------------
(* The extraction cascade. *)

\* The items that Number numbers are of its kind.
LEMMA KindOfNumber ==
    ASSUME NEW p, NEW kind, NEW items, NEW first
    PROVE  \A s \in Number(p, kind, items, first) : s.item[1] = kind
  <1> SUFFICES ASSUME NEW s \in Number(p, kind, items, first) PROVE s.item[1] = kind
    OBVIOUS
  <1>1. PICK j \in items : s = [page |-> p, para |-> first + Cardinality({i \in items : i < j}),
                                item |-> <<kind, j>>]
    BY DEF Number
  <1>2. s.item = <<kind, j>>
    BY <1>1
  <1> QED
    BY <1>2

LEMMA KindsOfPdf == \A s \in PdfSegments : s.item[1] \in {"para", "table"}
  BY KindOfNumber DEF PdfSegments, PageSegments

LEMMA KindOfReply ==
    ASSUME NEW reply
    PROVE  \A s \in Parsed(reply) : s.item[1] = "claude"
  BY DEF Parsed

\* What the cascade needs to know on its way: a file that has got past
\* pdfplumber is a PDF with too little text, and the segments of the stages
\* differ in the kind of their items.
CascadeInv ==
    /\ stage \in {"ocr", "read", "asking"} => file.pdf /\ Sparse(plumbed, 1)
    /\ \A s \in plumbed : s.item[1] \in {"para", "table"}
    /\ \A s \in ocr : s.item[1] = "ocr"
    /\ FallbackKeepsText

LEMMA CascadeStep ==
    ASSUME CascadeInv, [ExtractionNext]_extractionVars
    PROVE  CascadeInv'
  <1> USE DEF CascadeInv, FallbackKeepsText, Return, Sparse, PageCount
  <1>1. CASE PlainText
    BY <1>1 DEF PlainText
  <1>2. CASE PlumberRaises
    BY <1>2 DEF PlumberRaises
  <1>3. CASE PlumberReads
    BY <1>3, KindsOfPdf DEF PlumberReads
  <1>4. CASE OcrUnavailable \/ OcrEnds
    BY <1>4 DEF OcrUnavailable, OcrEnds
  <1>5. ASSUME NEW n \in OcrParas, OcrPage(n)
        PROVE  CascadeInv'
    BY <1>5, KindOfNumber DEF OcrPage
  <1>a. ocr # {} => ocr # plumbed
    OBVIOUS
  <1>6. CASE Judge
    BY <1>6, <1>a DEF Judge
  <1>7. ASSUME NEW reply \in Replies, ClaudeAnswers(reply)
        PROVE  CascadeInv'
    <2>1. Parsed(reply) # {} => Parsed(reply) # plumbed
      BY KindOfReply
    <2> QED
      BY <1>7, <1>a, <2>1, KindOfReply DEF ClaudeAnswers, Remaining
  <1>8. CASE ClaudeFails
    BY <1>8, <1>a DEF ClaudeFails, Remaining
  <1>9. CASE UNCHANGED extractionVars
    BY <1>9 DEF extractionVars
  <1> QED
    BY <1>1, <1>2, <1>3, <1>4, <1>5, <1>6, <1>7, <1>8, <1>9 DEF ExtractionNext

\* For any file and whatever pdfplumber, OCR and Claude find or fail at, the
\* segments returned are those of one stage, and there are some if any stage
\* found some.
THEOREM FallbacksKeepText == ExtractionSpec => []FallbackKeepsText
  <1>1. ExtractionInit => CascadeInv
    BY DEF ExtractionInit, CascadeInv, FallbackKeepsText
  <1>2. CascadeInv => FallbackKeepsText
    BY DEF CascadeInv
  <1> QED
    BY <1>1, <1>2, CascadeStep, PTL DEF ExtractionSpec

-----------------------------------------------------------------------------
(* The segments of a file. *)

\* The segments found have paragraph_index from lo to hi - 1 on page p, one
\* each.
Filled(found, p, lo, hi) ==
    /\ \A s \in found : s.page = p /\ s.para \in lo..(hi - 1)
    /\ \A s, r \in found : s.para = r.para => s = r
    /\ \A q \in lo..(hi - 1) : \E s \in found : s.para = q

\* Two passes of which the second goes on where the first has ended.
LEMMA FilledJoin ==
    ASSUME NEW p, NEW lo \in Nat, NEW mid \in Nat, NEW hi \in Nat, lo <= mid, mid <= hi,
           NEW F, NEW G, Filled(F, p, lo, mid), Filled(G, p, mid, hi)
    PROVE  Filled(F \cup G, p, lo, hi)
  <1>1. \A s \in F \cup G : s.page = p /\ s.para \in lo..(hi - 1)
    BY DEF Filled
  <1>2. \A s \in F : s.para < mid
    BY DEF Filled
  <1>3. \A s \in G : ~ s.para < mid
    BY DEF Filled
  <1>4. \A s, r \in F \cup G : s.para = r.para => s = r
    BY <1>2, <1>3 DEF Filled
  <1>5. ASSUME NEW q \in lo..(hi - 1)
        PROVE  \E s \in F \cup G : s.para = q
    <2>1. CASE q < mid
      BY <2>1 DEF Filled
    <2>2. CASE q >= mid
      BY <2>2 DEF Filled
    <2> QED
      BY <2>1, <2>2
  <1> QED
    BY <1>1, <1>4, <1>5 DEF Filled

\* Numbering the items of a set fills as many places as it has items.
LEMMA NumberFills ==
    ASSUME NEW n \in Nat, NEW S \in SUBSET (1..n), NEW first \in Nat, NEW p, NEW kind
    PROVE  /\ IsFiniteSet(S) /\ Cardinality(S) \in Nat
           /\ Filled(Number(p, kind, S, first), p, first, first + Cardinality(S))
  <1> DEFINE Below(j) == {i \in S : i < j}
             m == Cardinality(S)
             f == [j \in S |-> Cardinality(Below(j))]
  <1>1. IsFiniteSet(S) /\ m \in Nat
    <2>1. IsFiniteSet(1..n)
      BY FS_Interval
    <2> QED
      BY <2>1, FS_Subset, FS_CardinalityType
  <1>2. ASSUME NEW j \in S
        PROVE  f[j] \in 0..(m - 1)
    <2>1. Below(j) \in SUBSET S /\ Below(j) # S
      OBVIOUS
    <2> HIDE DEF Below
    <2>2. IsFiniteSet(Below(j)) /\ Cardinality(Below(j)) <= m /\ Cardinality(Below(j)) # m
      BY <1>1, <2>1, FS_Subset
    <2>3. Cardinality(Below(j)) \in Nat
      BY <2>2, FS_CardinalityType
    <2> QED
      BY <1>1, <2>2, <2>3
  <1>3. ASSUME NEW i \in S, NEW j \in S, i < j
        PROVE  f[i] < f[j]
    <2>1. Below(i) \in SUBSET Below(j) /\ Below(i) # Below(j) /\ Below(j) \in SUBSET S
      <3>1. \A x \in S : x < i => x < j
        BY <1>3
      <3>2. i \in Below(j) /\ i \notin Below(i)
        BY <1>3
      <3> QED
        BY <3>1, <3>2
    <2> HIDE DEF Below
    <2>2. IsFiniteSet(Below(j))
      BY <1>1, <2>1, FS_Subset
    <2>3. Cardinality(Below(i)) <= Cardinality(Below(j)) /\ Cardinality(Below(i)) # Cardinality(Below(j))
      BY <2>1, <2>2, FS_Subset
    <2> QED
      BY <1>1, <1>2, <2>3
  <1>4. f \in Injection(S, 0..(m - 1))
    <2>1. f \in [S -> 0..(m - 1)]
      BY <1>2
    <2>2. \A i, j \in S : f[i] = f[j] => i = j
      <3> SUFFICES ASSUME NEW i \in S, NEW j \in S, f[i] = f[j], i # j PROVE FALSE
        OBVIOUS
      <3>1. i < j \/ j < i
        OBVIOUS
      <3> HIDE DEF f
      <3> QED
        BY <1>2, <1>3, <3>1
    <2> HIDE DEF f
    <2> QED
      BY <2>1, <2>2 DEF Injection, IsInjective
  <1>5. f \in Surjection(S, 0..(m - 1))
    <2>1. IsFiniteSet(0..(m - 1)) /\ Cardinality(0..(m - 1)) = m
      BY <1>1, FS_Interval
    <2> HIDE DEF f
    <2> QED
      BY <1>1, <1>4, <2>1, FS_Injection
  <1> DEFINE N == Number(p, kind, S, first)
  <1>6. N = {[page |-> p, para |-> first + f[j], item |-> <<kind, j>>] : j \in S}
    BY DEF Number
  <1> HIDE DEF f, N, m
  <1>7. \A s \in N : s.page = p /\ s.para \in first..(first + m - 1)
    BY <1>1, <1>2, <1>6
  <1>8. ASSUME NEW i \in S, NEW j \in S, first + f[i] = first + f[j]
        PROVE  i = j
    <2>1. f[i] = f[j]
      BY <1>2, <1>8
    <2> QED
      BY <1>4, <2>1 DEF Injection, IsInjective
  <1>9. \A s, r \in N : s.para = r.para => s = r
    BY <1>6, <1>8
  <1>10. ASSUME NEW q \in first..(first + m - 1)
         PROVE  \E s \in N : s.para = q
    <2>1. q - first \in 0..(m - 1)
      BY <1>1
    <2>2. PICK j \in S : f[j] = q - first
      BY <1>5, <2>1 DEF Surjection
    <2>3. first + f[j] = q
      BY <1>1, <2>2
    <2>4. [page |-> p, para |-> first + f[j], item |-> <<kind, j>>] \in N
      BY <1>6
    <2> QED
      BY <2>3, <2>4
  <1> QED
    BY <1>1, <1>7, <1>9, <1>10 DEF Filled, N, m

\* A page of an upload.
LEMMA PagesTyped ==
    ASSUME file \in Files, NEW q \in 1..Len(file.pages)
    PROVE  LET pg == file.pages[q] IN
           /\ pg.paras \in Nat
           /\ Len(pg.tables) \in Nat /\ DOMAIN pg.tables = 1..Len(pg.tables)
           /\ \A j \in 1..Len(pg.tables) : pg.tables[j].rows \in Nat /\ pg.tables[j].cols \in Nat
  <1> DEFINE Table == [rows : Nat, cols : Nat]
             Page == [paras : Nat, tables : Seq(Table)]
  <1>1. file.pages \in Seq(Page)
    BY ExtractionAssumption
  <1>2. \A pg \in Page : pg.paras \in Nat /\ pg.tables \in Seq(Table)
    OBVIOUS
  <1>3. \A x \in Table : x.rows \in Nat /\ x.cols \in Nat
    OBVIOUS
  <1> HIDE DEF Table, Page
  <1>4. file.pages[q] \in Page
    BY <1>1
  <1>5. file.pages[q].paras \in Nat /\ file.pages[q].tables \in Seq(Table)
    BY <1>2, <1>4
  <1>6. \A s \in Seq(Table) :
           Len(s) \in Nat /\ DOMAIN s = 1..Len(s) /\ \A j \in 1..Len(s) : s[j] \in Table
    OBVIOUS
  <1> QED
    BY <1>3, <1>5, <1>6

\* Paragraphs, tables left in and tables taken out fill a page without a gap.
LEMMA PageFills ==
    ASSUME file \in Files, NEW q \in 1..Len(file.pages)
    PROVE  \E h \in Nat : Filled(PageSegments(q, file.pages[q]), q, 0, h)
  <1> DEFINE pg == file.pages[q]
             P == Number(q, "para", 1..pg.paras, 0)
             T == Number(q, "table", TextPass(pg), pg.paras)
             U == Number(q, "table", TablePass(pg), pg.paras + Cardinality(TextPass(pg)))
             a == pg.paras
             b == Cardinality(TextPass(pg))
             c == Cardinality(TablePass(pg))
  <1>1. /\ pg.paras \in Nat /\ Len(pg.tables) \in Nat
        /\ TextPass(pg) \in SUBSET (1..Len(pg.tables))
        /\ TablePass(pg) \in SUBSET (1..Len(pg.tables))
    BY PagesTyped DEF TextPass, TablePass
  <1>2. PageSegments(q, pg) = (P \cup T) \cup U
    BY DEF PageSegments
  <1> HIDE DEF pg
  <1>3. Filled(P, q, 0, a)
    <2>1. Cardinality(1..pg.paras) = pg.paras
      BY <1>1, FS_Interval
    <2>2. Filled(P, q, 0, 0 + Cardinality(1..pg.paras))
      BY <1>1, NumberFills
    <2> HIDE DEF P
    <2> QED
      BY <1>1, <2>1, <2>2
  <1>4. b \in Nat /\ Filled(T, q, a, a + b)
    BY <1>1, NumberFills
  <1>5. c \in Nat /\ Filled(U, q, a + b, a + b + c)
    <2>1. a + b \in Nat
      BY <1>1, <1>4
    <2> QED
      BY <1>1, <2>1, NumberFills
  <1> HIDE DEF P, T, U, b, c
  <1>6. Filled(P \cup T, q, 0, a + b)
    BY <1>1, <1>3, <1>4, FilledJoin
  <1>7. Filled((P \cup T) \cup U, q, 0, a + b + c)
    BY <1>1, <1>4, <1>5, <1>6, FilledJoin
  <1> QED
    BY <1>1, <1>2, <1>4, <1>5, <1>7 DEF pg


\* What a pass has found, page by page.
PageWise(found, last) ==
    /\ \A s \in found : s.page \in 1..last
    /\ \A q \in 1..last : \E h \in Nat : Filled({s \in found : s.page = q}, q, 0, h)

\* PlacesDistinct, of what one pass has found.
Places(found) ==
    \A s \in found :
        /\ \A r \in found : r.page = s.page /\ r.para = s.para => r = s
        /\ s.para > 0 => \E r \in found : r.page = s.page /\ r.para = s.para - 1

\* Pages filled from 0 up tell their segments apart.
LEMMA PageWisePlaces ==
    ASSUME NEW found, NEW last \in Nat, PageWise(found, last)
    PROVE  Places(found)
  <1> SUFFICES ASSUME NEW s \in found
               PROVE  /\ \A r \in found : r.page = s.page /\ r.para = s.para => r = s
                      /\ s.para > 0 => \E r \in found : r.page = s.page /\ r.para = s.para - 1
    BY DEF Places
  <1> DEFINE here == {r \in found : r.page = s.page}
  <1>1. PICK h \in Nat : Filled(here, s.page, 0, h)
    BY DEF PageWise
  <1>2. s \in here
    OBVIOUS
  <1>3. \A r \in here : r.para = s.para => r = s
    BY <1>1, <1>2 DEF Filled
  <1>4. ASSUME s.para > 0
        PROVE  \E r \in here : r.para = s.para - 1
    <2>1. s.para - 1 \in 0..(h - 1)
      BY <1>1, <1>2, <1>4 DEF Filled
    <2> QED
      BY <1>1, <2>1 DEF Filled
  <1> QED
    BY <1>3, <1>4

\* One segment per item.
LEMMA NumberItems ==
    ASSUME NEW p, NEW kind, NEW items, NEW first
    PROVE  /\ \A s \in Number(p, kind, items, first) :
                 s.page = p /\ \E j \in items : s.item = <<kind, j>>
           /\ \A j \in items : \E s \in Number(p, kind, items, first) : s.item = <<kind, j>>
           /\ \A s, r \in Number(p, kind, items, first) : s.item = r.item => s = r
  <1> DEFINE Only(j) == [page |-> p, para |-> first + Cardinality({i \in items : i < j}),
                         item |-> <<kind, j>>]
             N == Number(p, kind, items, first)
  <1>1. \A j : Only(j).page = p /\ Only(j).item = <<kind, j>>
    OBVIOUS
  <1>2. N = {Only(j) : j \in items}
    BY DEF Number
  <1> HIDE DEF Only, N
  <1>3. \A s \in N : \E j \in items : s = Only(j)
    BY <1>2
  <1>4. \A j \in items : Only(j) \in N
    BY <1>2
  <1>5. \A i, j : <<kind, i>> = <<kind, j>> => i = j
    OBVIOUS
  <1>6. \A s \in N : s.page = p /\ \E j \in items : s.item = <<kind, j>>
    BY <1>1, <1>3
  <1>7. \A j \in items : \E s \in N : s.item = <<kind, j>>
    BY <1>1, <1>4
  <1>8. \A s, r \in N : s.item = r.item => s = r
    BY <1>1, <1>3, <1>5
  <1> QED
    BY <1>6, <1>7, <1>8 DEF N

\* The pdfplumber pass.
LEMMA PdfPageWise ==
    ASSUME file \in Files
    PROVE  Len(file.pages) \in Nat /\ PageWise(PdfSegments, Len(file.pages))
  <1>1. Len(file.pages) \in Nat
    BY ExtractionAssumption
  <1>2. \A q \in 1..Len(file.pages) : \A s \in PageSegments(q, file.pages[q]) : s.page = q
    BY NumberItems DEF PageSegments
  <1>3. ASSUME NEW q \in 1..Len(file.pages)
        PROVE  {s \in PdfSegments : s.page = q} = PageSegments(q, file.pages[q])
    BY <1>2 DEF PdfSegments
  <1>4. \A s \in PdfSegments : s.page \in 1..Len(file.pages)
    BY <1>2 DEF PdfSegments
  <1> QED
    BY <1>1, <1>3, <1>4, PageFills DEF PageWise

\* One more page of OCR.
LEMMA OcrPageWise ==
    ASSUME NEW n \in Nat, nextPage \in Nat \ {0}, PageWise(ocr, nextPage - 1)
    PROVE  PageWise(ocr \cup Number(nextPage, "ocr", 1..n, 0), nextPage)
  <1> DEFINE N == Number(nextPage, "ocr", 1..n, 0)
             all == ocr \cup N
  <1>1. \A s \in N : s.page = nextPage
    BY NumberItems
  <1>2. Cardinality(1..n) \in Nat /\ Filled(N, nextPage, 0, 0 + Cardinality(1..n))
    BY NumberFills
  <1> HIDE DEF N
  <1>3. \A s \in all : s.page \in 1..nextPage
    BY <1>1 DEF PageWise
  <1>4. ASSUME NEW q \in 1..(nextPage - 1)
        PROVE  \E h \in Nat : Filled({s \in all : s.page = q}, q, 0, h)
    <2>1. {s \in all : s.page = q} = {s \in ocr : s.page = q}
      BY <1>1
    <2> QED
      BY <2>1 DEF PageWise
  <1>5. \E h \in Nat : Filled({s \in all : s.page = nextPage}, nextPage, 0, h)
    <2>1. {s \in all : s.page = nextPage} = N
      BY <1>1 DEF PageWise
    <2>2. 0 + Cardinality(1..n) \in Nat
      BY <1>2
    <2> QED
      BY <1>2, <2>1, <2>2
  <1>6. \A q \in 1..nextPage : q \in 1..(nextPage - 1) \/ q = nextPage
    OBVIOUS
  <1> QED
    BY <1>3, <1>4, <1>5, <1>6 DEF PageWise, N

\* What pdfplumber found is what the file holds; what OCR found is on the pages
\* it has read.
FoundInv ==
    /\ file \in Files
    /\ plumbed \in {{}, PdfSegments}
    /\ stage \notin {"called", "raised"} /\ file.pdf => plumbed = PdfSegments
    /\ nextPage \in Nat \ {0}
    /\ PageWise(ocr, nextPage - 1)

\* Nothing is found at the start.
LEMMA FoundStart == ExtractionInit => FoundInv
  <1> SUFFICES ASSUME ExtractionInit PROVE FoundInv
    OBVIOUS
  <1>1. PageWise(ocr, nextPage - 1)
    BY DEF ExtractionInit, PageWise
  <1> QED
    BY <1>1 DEF ExtractionInit, FoundInv

\* FoundInv is inductive.
LEMMA FoundStep ==
    ASSUME FoundInv, [ExtractionNext]_extractionVars
    PROVE  FoundInv'
  <1>1. CASE PlainText \/ PlumberRaises
    BY <1>1 DEF PlainText, PlumberRaises, FoundInv, PageWise, PdfSegments, Return
  <1>2. CASE PlumberReads
    BY <1>2 DEF PlumberReads, FoundInv, PageWise, PdfSegments, Return
  <1>3. CASE OcrUnavailable \/ OcrEnds \/ Judge \/ ClaudeFails
    BY <1>3 DEF OcrUnavailable, OcrEnds, Judge, ClaudeFails, FoundInv, PageWise, PdfSegments, Return
  <1>4. ASSUME NEW n \in OcrParas, OcrPage(n)
        PROVE  FoundInv'
    <2>1. PageWise(ocr \cup Number(nextPage, "ocr", 1..n, 0), nextPage)
      BY OcrPageWise, ExtractionAssumption DEF FoundInv
    <2>2. nextPage' - 1 = nextPage /\ nextPage' \in Nat \ {0}
      BY <1>4 DEF OcrPage, FoundInv
    <2>3. ocr' = ocr \cup Number(nextPage, "ocr", 1..n, 0)
      BY <1>4 DEF OcrPage
    <2>4. PageWise(ocr, nextPage - 1)'
      BY <2>1, <2>2, <2>3
    <2>5. UNCHANGED <<file, stage, plumbed, PdfSegments>>
      BY <1>4 DEF OcrPage, PdfSegments
    <2> QED
      BY <2>2, <2>4, <2>5 DEF FoundInv
  <1>5. ASSUME NEW reply \in Replies, ClaudeAnswers(reply)
        PROVE  FoundInv'
    BY <1>5 DEF ClaudeAnswers, FoundInv, PageWise, PdfSegments, Return
  <1>6. CASE UNCHANGED extractionVars
    BY <1>6 DEF extractionVars, FoundInv, PageWise, PdfSegments
  <1> QED
    BY <1>1, <1>2, <1>3, <1>4, <1>5, <1>6 DEF ExtractionNext

\* The places of what either pass has found.
LEMMA FoundPlaces == FoundInv => PlacesDistinct
  <1> SUFFICES ASSUME FoundInv PROVE PlacesDistinct
    OBVIOUS
  <1>1. Places({})
    BY DEF Places
  <1>2. Places(PdfSegments)
    BY PdfPageWise, PageWisePlaces DEF FoundInv
  <1>3. Places(ocr)
    <2>1. nextPage - 1 \in Nat /\ PageWise(ocr, nextPage - 1)
      BY DEF FoundInv
    <2> QED
      BY <2>1, PageWisePlaces
  <1>4. Places(plumbed)
    BY <1>1, <1>2 DEF FoundInv
  <1> QED
    BY <1>3, <1>4 DEF Places, PlacesDistinct

\* A table is in exactly one of the two passes.
LEMMA FoundOnce == FoundInv => EveryItemOnce
  <1> SUFFICES ASSUME FoundInv, stage \notin {"called", "raised"}, file.pdf,
                      NEW q \in 1..Len(file.pages), NEW x \in ItemsOf(file.pages[q])
               PROVE  Cardinality({s \in plumbed : s.page = q /\ s.item = x}) = 1
    BY DEF EveryItemOnce
  <1> DEFINE pg == file.pages[q]
             S == {s \in PageSegments(q, pg) : s.item = x}
  <1>1. {s \in plumbed : s.page = q /\ s.item = x} = S
    <2>1. \A r \in 1..Len(file.pages) : \A s \in PageSegments(r, file.pages[r]) : s.page = r
      BY NumberItems DEF PageSegments
    <2>2. plumbed = UNION {PageSegments(r, file.pages[r]) : r \in 1..Len(file.pages)}
      BY DEF FoundInv, PdfSegments
    <2> QED
      BY <2>1, <2>2
  <1>2. \E s : S = {s}
    <2> DEFINE I == 1..pg.paras
               P == Number(q, "para", I, 0)
               T == Number(q, "table", TextPass(pg), pg.paras)
               U == Number(q, "table", TablePass(pg), pg.paras + Cardinality(TextPass(pg)))
    <2>1. S = {s \in (P \cup T) \cup U : s.item = x}
      BY DEF PageSegments
    <2> HIDE DEF I
    <2>2. /\ \A s \in P : \E j \in I : s.item = <<"para", j>>
          /\ \A j \in I : \E s \in P : s.item = <<"para", j>>
          /\ \A s, r \in P : s.item = r.item => s = r
      BY NumberItems
    <2>3. /\ \A s \in T : \E j \in TextPass(pg) : s.item = <<"table", j>>
          /\ \A j \in TextPass(pg) : \E s \in T : s.item = <<"table", j>>
          /\ \A s, r \in T : s.item = r.item => s = r
      BY NumberItems
    <2>4. /\ \A s \in U : \E j \in TablePass(pg) : s.item = <<"table", j>>
          /\ \A j \in TablePass(pg) : \E s \in U : s.item = <<"table", j>>
          /\ \A s, r \in U : s.item = r.item => s = r
      BY NumberItems
    <2>5. /\ \A i, j : <<"para", i>> # <<"table", j>>
          /\ \A i, j : <<"table", i>> = <<"table", j>> => i = j
      OBVIOUS
    <2>6. ASSUME NEW j \in 1..Len(pg.tables), pg.tables[j].rows > 0
          PROVE  \/ j \in TextPass(pg) /\ j \notin TablePass(pg)
                 \/ j \in TablePass(pg) /\ j \notin TextPass(pg)
      BY <2>6, PagesTyped DEF FoundInv, TextPass, TablePass, Boxed, Tabulated
    <2>7. \/ \E j \in I : x = <<"para", j>>
          \/ \E j \in 1..Len(pg.tables) : pg.tables[j].rows > 0 /\ x = <<"table", j>>
      BY DEF ItemsOf, I
    <2> HIDE DEF S, P, T, U, pg
    <2>8. ASSUME NEW j \in I, x = <<"para", j>>
          PROVE  \E s : S = {s}
      <3>1. PICK s \in P : s.item = x
        BY <2>2, <2>8
      <3>2. \A r \in S : r \in P
        BY <2>1, <2>3, <2>4, <2>5, <2>8
      <3>3. s \in S /\ \A r \in S : r.item = x
        BY <2>1, <3>1
      <3>4. \A r \in S : r = s
        BY <2>2, <3>1, <3>2, <3>3
      <3>5. S = {s}
        BY <3>3, <3>4
      <3> QED
        BY <3>5
    <2>9. ASSUME NEW j, x = <<"table", j>>, j \in TextPass(pg), j \notin TablePass(pg)
          PROVE  \E s : S = {s}
      <3>1. PICK s \in T : s.item = x
        BY <2>3, <2>9
      <3>2. \A r \in S : r \in T
        BY <2>1, <2>2, <2>4, <2>5, <2>9
      <3>3. s \in S /\ \A r \in S : r.item = x
        BY <2>1, <3>1
      <3>4. \A r \in S : r = s
        BY <2>3, <3>1, <3>2, <3>3
      <3>5. S = {s}
        BY <3>3, <3>4
      <3> QED
        BY <3>5
    <2>10. ASSUME NEW j, x = <<"table", j>>, j \in TablePass(pg), j \notin TextPass(pg)
           PROVE  \E s : S = {s}
      <3>1. PICK s \in U : s.item = x
        BY <2>4, <2>10
      <3>2. \A r \in S : r \in U
        BY <2>1, <2>2, <2>3, <2>5, <2>10
      <3>3. s \in S /\ \A r \in S : r.item = x
        BY <2>1, <3>1
      <3>4. \A r \in S : r = s
        BY <2>4, <3>1, <3>2, <3>3
      <3>5. S = {s}
        BY <3>3, <3>4
      <3> QED
        BY <3>5
    <2> QED
      BY <2>6, <2>7, <2>8, <2>9, <2>10
  <1> HIDE DEF S
  <1> QED
    BY <1>1, <1>2, FS_Singleton

\* For any file and any results of OCR: page and paragraph tell the segments of
\* a page apart, without gaps.
THEOREM PlacesAlwaysDistinct == ExtractionSpec => []PlacesDistinct
  BY FoundStart, FoundStep, FoundPlaces, PTL DEF ExtractionSpec

\* For any file: pdfplumber's two passes take the text of every paragraph and
\* every table once.
THEOREM ItemsAlwaysOnce == ExtractionSpec => []EveryItemOnce
  BY FoundStart, FoundStep, FoundOnce, PTL DEF ExtractionSpec

-----------------------------------------------------------------------------
(* The ranking of a query. *)

\* How many rows of a ranking are left by the cut.
CutLen(s) == IF Len(s) <= 4 * k THEN Len(s) ELSE 4 * k

\* A ranking and its cut, as sets of rows.
LEMMA CutIs ==
    ASSUME NEW s, Ranking(s), k \in Nat \ {0}
    PROVE  /\ CutLen(s) \in Nat /\ CutLen(s) <= Len(s) /\ Len(s) \in Nat
           /\ ToSet(s) = {s[i] : i \in 1..Len(s)}
           /\ ToSet(Cut(s)) = {s[i] : i \in 1..CutLen(s)}
  <1> DEFINE S == ToSet(s)
             m == CutLen(s)
  <1>1. s \in Seq(S) /\ Len(s) \in Nat /\ DOMAIN s = 1..Len(s)
    BY DEF Ranking
  <1>2. m \in 0..Len(s)
    BY <1>1 DEF CutLen
  <1>3. ToSet(s) = {s[i] : i \in 1..Len(s)}
    BY <1>1 DEF ToSet
  <1>4. Cut(s) = SubSeq(s, 1, m)
    BY DEF Cut, CutLen
  <1> HIDE DEF S, m
  <1>5. /\ DOMAIN SubSeq(s, 1, m) = 1..m
        /\ \A i \in 1..m : SubSeq(s, 1, m)[i] = s[i]
    BY <1>1, <1>2
  <1>6. ToSet(Cut(s)) = {s[i] : i \in 1..m}
    BY <1>4, <1>5 DEF ToSet
  <1> QED
    BY <1>1, <1>2, <1>3, <1>6 DEF m

\* A ranking has as many chunks as rows, before and after the cut.
LEMMA RowsCounted ==
    ASSUME NEW s, Ranking(s), NEW n \in Nat, n <= Len(s), NEW S, S = {s[i] : i \in 1..n}
    PROVE  IsFiniteSet(S) /\ Cardinality(S) = n
  <1> DEFINE f == [i \in 1..n |-> s[i]]
  <1>1. \A i, j \in 1..n : s[i] = s[j] => i = j
    BY DEF Ranking, IsInjective
  <1>2. f \in Bijection(1..n, S)
    BY <1>1 DEF Bijection, Injection, Surjection, IsInjective
  <1>3. ExistsBijection(1..n, S)
    BY <1>2 DEF ExistsBijection
  <1>4. IsFiniteSet(1..n) /\ Cardinality(1..n) = n
    BY FS_Interval
  <1> QED
    BY <1>3, <1>4, FS_Bijection

\* The rank is the position, or 0 past the cut.
LEMMA RankIs ==
    ASSUME NEW s, Ranking(s), k \in Nat \ {0}
    PROVE  /\ \A i \in 1..Len(s) : Rank(s, s[i]) = IF i <= CutLen(s) THEN i ELSE 0
           /\ \A c : c \notin ToSet(s) => Rank(s, c) = 0
           /\ \A c : Rank(s, c) \in Nat /\ (Rank(s, c) # 0 <=> c \in ToSet(Cut(s)))
  <1>1. /\ CutLen(s) \in Nat /\ CutLen(s) <= Len(s) /\ Len(s) \in Nat
        /\ ToSet(s) = {s[i] : i \in 1..Len(s)}
        /\ ToSet(Cut(s)) = {s[i] : i \in 1..CutLen(s)}
    BY CutIs
  <1>2. \A i, j \in 1..Len(s) : s[i] = s[j] => i = j
    BY DEF Ranking, IsInjective
  <1>3. ASSUME NEW i \in 1..Len(s)
        PROVE  Rank(s, s[i]) = IF i <= CutLen(s) THEN i ELSE 0
    <2>1. (CHOOSE j \in 1..Len(s) : s[j] = s[i]) = i
      BY <1>2
    <2>2. s[i] \in ToSet(Cut(s)) <=> i <= CutLen(s)
      BY <1>1, <1>2
    <2> QED
      BY <2>1, <2>2 DEF Rank
  <1>4. ASSUME NEW c, c \notin ToSet(s)
        PROVE  Rank(s, c) = 0 /\ c \notin ToSet(Cut(s))
    BY <1>1, <1>4 DEF Rank
  <1>5. ASSUME NEW c
        PROVE  Rank(s, c) \in Nat /\ (Rank(s, c) # 0 <=> c \in ToSet(Cut(s)))
    <2>1. CASE c \notin ToSet(s)
      BY <2>1, <1>4
    <2>2. ASSUME NEW i \in 1..Len(s), c = s[i]
          PROVE  Rank(s, c) \in Nat /\ (Rank(s, c) # 0 <=> c \in ToSet(Cut(s)))
      BY <2>2, <1>1, <1>2, <1>3
    <2> QED
      BY <2>1, <2>2, <1>1
  <1> QED
    BY <1>3, <1>4, <1>5

\* What being ahead, or not behind, says of two ranks.
LEMMA AheadRanks ==
    ASSUME NEW s, Ranking(s), k \in Nat \ {0}, NEW c, NEW d
    PROVE  LET a == Rank(s, c)
               b == Rank(s, d)
           IN  /\ a \in Nat /\ b \in Nat
               /\ NotBehind(s, c, d) => (a = 0 /\ b = 0) \/ (a > 0 /\ (b = 0 \/ a < b))
  <1>1. /\ CutLen(s) \in Nat /\ CutLen(s) <= Len(s) /\ Len(s) \in Nat
        /\ ToSet(s) = {s[i] : i \in 1..Len(s)}
    BY CutIs
  <1>2. /\ \A i \in 1..Len(s) : Rank(s, s[i]) = IF i <= CutLen(s) THEN i ELSE 0
        /\ \A e : e \notin ToSet(s) => Rank(s, e) = 0
        /\ \A e : Rank(s, e) \in Nat
    BY RankIs
  <1>3. ASSUME NEW i \in 1..Len(s), s[i] = c, \A j \in 1..i : s[j] # d
        PROVE  LET a == Rank(s, c)
                   b == Rank(s, d)
               IN  (a = 0 /\ b = 0) \/ (a > 0 /\ (b = 0 \/ a < b))
    <2>1. CASE d \notin ToSet(s)
      BY <2>1, <1>1, <1>2, <1>3
    <2>2. ASSUME NEW j \in 1..Len(s), d = s[j]
          PROVE  LET a == Rank(s, c)
                     b == Rank(s, d)
                 IN  (a = 0 /\ b = 0) \/ (a > 0 /\ (b = 0 \/ a < b))
      <3>1. i < j
        BY <1>3, <2>2
      <3> QED
        BY <3>1, <1>1, <1>2, <1>3, <2>2
    <2> QED
      BY <2>1, <2>2, <1>1
  <1>4. ASSUME {c, d} \cap ToSet(s) = {}
        PROVE  Rank(s, c) = 0 /\ Rank(s, d) = 0
    BY <1>4, <1>2
  <1> QED
    BY <1>2, <1>3, <1>4 DEF NotBehind, Ahead

\* The sum of two fractions grows with both.
LEMMA FractionsAdd ==
    ASSUME NEW A \in Nat \ {0}, NEW B \in Nat \ {0}, NEW C \in Nat \ {0}, NEW E \in Nat \ {0},
           NEW x \in {0, 1}, NEW y \in {0, 1}, NEW v \in {0, 1}, NEW w \in {0, 1},
           x * C >= v * A, y * E >= w * B, x * C > v * A \/ y * E > w * B
    PROVE  (x * B + y * A) * (C * E) > (v * E + w * C) * (A * B)
  <1> DEFINE p == x * C
             q == v * A
             r == y * E
             t == w * B
             F == B * E
             G == A * C
  <1>1. p \in Nat /\ q \in Nat /\ r \in Nat /\ t \in Nat /\ p >= q /\ r >= t /\ (p > q \/ r > t)
    OBVIOUS
  <1>2. F \in Nat /\ F > 0 /\ G \in Nat /\ G > 0
    OBVIOUS
  <1>3. (x * B + y * A) * (C * E) = F * p + G * r
    OBVIOUS
  <1>4. (v * E + w * C) * (A * B) = F * q + G * t
    OBVIOUS
  <1> HIDE DEF p, q, r, t, F, G
  <1>5. F * p >= F * q /\ G * r >= G * t
    BY <1>1, <1>2
  <1>6. p > q => F * p > F * q
    BY <1>1, <1>2
  <1>7. r > t => G * r > G * t
    BY <1>1, <1>2
  <1>8. F * p \in Nat /\ F * q \in Nat /\ G * r \in Nat /\ G * t \in Nat
    BY <1>1, <1>2
  <1> QED
    BY <1>1, <1>3, <1>4, <1>5, <1>6, <1>7, <1>8

\* The better of two chunks is fused if the other is, and has the higher score.
LEMMA BetterOutscores ==
    ASSUME Ranking(byVector), Ranking(byText), k \in Nat \ {0}, RrfK \in Nat \ {0},
           NEW c, NEW d \in Fused,
           NotBehind(byVector, c, d), NotBehind(byText, c, d)
    PROVE  c \in Fused /\ c # d /\ Outscores(c, d)
  <1> DEFINE vc == Rank(byVector, c)
             vd == Rank(byVector, d)
             fc == Rank(byText, c)
             fd == Rank(byText, d)
             A == vc + RrfK
             B == fc + RrfK
             C == vd + RrfK
             E == fd + RrfK
             x == IF vc = 0 THEN 0 ELSE 1
             y == IF fc = 0 THEN 0 ELSE 1
             v == IF vd = 0 THEN 0 ELSE 1
             w == IF fd = 0 THEN 0 ELSE 1
  <1>1. /\ vc \in Nat /\ vd \in Nat
        /\ (vc = 0 /\ vd = 0) \/ (vc > 0 /\ (vd = 0 \/ vc < vd))
    BY AheadRanks
  <1>2. /\ fc \in Nat /\ fd \in Nat
        /\ (fc = 0 /\ fd = 0) \/ (fc > 0 /\ (fd = 0 \/ fc < fd))
    BY AheadRanks
  <1>3. vd # 0 \/ fd # 0
    BY RankIs DEF Fused
  <1>4. c \in Fused
    <2>1. vc # 0 \/ fc # 0
      BY <1>1, <1>2, <1>3
    <2> QED
      BY <2>1, RankIs DEF Fused
  <1>13. c # d
    BY <1>1, <1>2, <1>3
  <1>5. /\ Score(c).num = (IF vc = 0 THEN 0 ELSE B) + (IF fc = 0 THEN 0 ELSE A)
        /\ Score(c).den = A * B
        /\ Score(d).num = (IF vd = 0 THEN 0 ELSE E) + (IF fd = 0 THEN 0 ELSE C)
        /\ Score(d).den = C * E
    BY DEF Score
  <1> HIDE DEF vc, vd, fc, fd
  <1>6. /\ A \in Nat \ {0} /\ B \in Nat \ {0} /\ C \in Nat \ {0} /\ E \in Nat \ {0}
        /\ x \in {0, 1} /\ y \in {0, 1} /\ v \in {0, 1} /\ w \in {0, 1}
    BY <1>1, <1>2
  <1>7. /\ (x = 0 /\ v = 0) \/ (x = 1 /\ (v = 0 \/ (v = 1 /\ A < C)))
        /\ (y = 0 /\ w = 0) \/ (y = 1 /\ (w = 0 \/ (w = 1 /\ B < E)))
        /\ v = 1 \/ w = 1
    <2>1. vc < vd => A < C
      BY <1>1
    <2>2. fc < fd => B < E
      BY <1>2
    <2> HIDE DEF A, B, C, E
    <2>3. (x = 0 /\ v = 0) \/ (x = 1 /\ (v = 0 \/ (v = 1 /\ A < C)))
      BY <1>1, <2>1
    <2>4. (y = 0 /\ w = 0) \/ (y = 1 /\ (w = 0 \/ (w = 1 /\ B < E)))
      BY <1>2, <2>2
    <2>5. v = 1 \/ w = 1
      BY <1>3
    <2> QED
      BY <2>3, <2>4, <2>5
  <1> HIDE DEF A, B, C, E
  <1>8. /\ x * B = (IF vc = 0 THEN 0 ELSE B) /\ y * A = (IF fc = 0 THEN 0 ELSE A)
        /\ v * E = (IF vd = 0 THEN 0 ELSE E) /\ w * C = (IF fd = 0 THEN 0 ELSE C)
    <2>1. \A z \in Nat : 0 * z = 0 /\ 1 * z = z
      OBVIOUS
    <2> QED
      BY <1>6, <2>1
  <1> HIDE DEF x, y, v, w
  <1>9. /\ x * C >= v * A /\ y * E >= w * B
        /\ x * C > v * A \/ y * E > w * B
    BY <1>6, <1>7
  <1>10. (x * B + y * A) * (C * E) > (v * E + w * C) * (A * B)
    BY <1>6, <1>9, FractionsAdd
  <1>11. /\ Score(c).num = x * B + y * A
         /\ Score(d).num = v * E + w * C
    BY <1>5, <1>8
  <1>12. Score(c).num * Score(d).den > Score(d).num * Score(c).den
    BY <1>5, <1>10, <1>11
  <1> QED
    BY <1>4, <1>12, <1>13 DEF Outscores

\* An order that skips no smaller number counts.
LEMMA Counts ==
    ASSUME NEW n \in Nat, NEW m \in Nat, NEW g \in [1..n -> 1..m],
           \A i, j \in 1..n : i < j => g[i] < g[j],
           \A r \in 1..m : (\A i \in 1..n : g[i] # r) => \A i \in 1..n : g[i] <= r
    PROVE  \A i \in 1..n : g[i] = i
  <1> DEFINE T == {i \in 1..n : g[i] # i}
  <1>0. T \in SUBSET Nat
    OBVIOUS
  <1> SUFFICES ASSUME T # {} PROVE FALSE
    OBVIOUS
  <1>1. PICK i \in T : \A j \in T : i <= j
    BY <1>0, LeastExists
  <1>2. \A j \in 1..n : j < i => g[j] = j
    BY <1>1
  <1>3. g[i] > i
    <2>1. CASE i = 1
      BY <1>1, <2>1
    <2>2. CASE i > 1
      <3>1. i - 1 \in 1..n /\ g[i - 1] = i - 1
        BY <1>1, <1>2, <2>2
      <3>2. g[i - 1] < g[i] /\ g[i] \in 1..m /\ i \in 1..n
        BY <1>1, <3>1
      <3> QED
        BY <1>1, <3>1, <3>2
    <2> QED
      BY <1>1, <2>1, <2>2
  <1>4. \A j \in 1..n : g[j] # i
    <2> SUFFICES ASSUME NEW j \in 1..n, g[j] = i PROVE FALSE
      OBVIOUS
    <2>1. CASE j < i
      BY <1>2, <2>1
    <2>2. CASE j >= i
      BY <1>1, <1>3, <2>2
    <2> QED
      BY <1>1, <2>1, <2>2
  <1> QED
    BY <1>1, <1>3, <1>4

\* Cutting the rankings off at 4 k leaves enough chunks to fill the answer.
LEMMA AnswerCounted ==
    ASSUME Ranking(byVector), Ranking(byText), k \in Nat \ {0}
    PROVE  LET all == ToSet(byVector) \cup ToSet(byText) IN
           /\ Fused \subseteq all
           /\ AnswerLen \in Nat
           /\ AnswerLen = IF Cardinality(all) <= k THEN Cardinality(all) ELSE k
           /\ byText = <<>> => AnswerLen <= CutLen(byVector) /\ Fused = ToSet(Cut(byVector))
  <1> DEFINE all == ToSet(byVector) \cup ToSet(byText)
             a == CutLen(byVector)
             b == CutLen(byText)
             V == ToSet(Cut(byVector))
             F == ToSet(Cut(byText))
  <1>1. /\ a \in Nat /\ a <= Len(byVector) /\ Len(byVector) \in Nat
        /\ ToSet(byVector) = {byVector[i] : i \in 1..Len(byVector)}
        /\ V = {byVector[i] : i \in 1..a}
    BY CutIs
  <1>2. /\ b \in Nat /\ b <= Len(byText) /\ Len(byText) \in Nat
        /\ ToSet(byText) = {byText[i] : i \in 1..Len(byText)}
        /\ F = {byText[i] : i \in 1..b}
    BY CutIs
  <1> HIDE DEF a, b, V, F
  <1>3. /\ IsFiniteSet(V) /\ Cardinality(V) = a
        /\ IsFiniteSet(ToSet(byVector)) /\ Cardinality(ToSet(byVector)) = Len(byVector)
    BY <1>1, RowsCounted
  <1>4. /\ IsFiniteSet(F) /\ Cardinality(F) = b
        /\ IsFiniteSet(ToSet(byText)) /\ Cardinality(ToSet(byText)) = Len(byText)
    BY <1>2, RowsCounted
  <1>5. V \subseteq ToSet(byVector) /\ F \subseteq ToSet(byText)
    BY <1>1, <1>2
  <1>6. Fused = V \cup F
    BY DEF Fused, V, F
  <1>7. /\ IsFiniteSet(all) /\ Cardinality(all) \in Nat
        /\ Len(byVector) <= Cardinality(all) /\ Len(byText) <= Cardinality(all)
    <2>1. IsFiniteSet(all)
      BY <1>3, <1>4, FS_Union
    <2>2. ToSet(byVector) \in SUBSET all /\ ToSet(byText) \in SUBSET all
      OBVIOUS
    <2> HIDE DEF all
    <2> QED
      BY <1>3, <1>4, <2>1, <2>2, FS_Subset, FS_CardinalityType
  <1>8. /\ IsFiniteSet(Fused) /\ Cardinality(Fused) \in Nat
        /\ a <= Cardinality(Fused) /\ b <= Cardinality(Fused)
    BY <1>3, <1>4, <1>6, FS_Union, FS_Subset, FS_CardinalityType
  <1>9. ASSUME Len(byVector) <= 4 * k, Len(byText) <= 4 * k
        PROVE  Fused = all
    <2>1. a = Len(byVector) /\ b = Len(byText)
      BY <1>9 DEF CutLen, a, b
    <2> QED
      BY <2>1, <1>1, <1>2, <1>6
  <1>10. ASSUME Len(byVector) > 4 * k \/ Len(byText) > 4 * k
         PROVE  Cardinality(Fused) > k /\ Cardinality(all) > k
    BY <1>10, <1>1, <1>2, <1>7, <1>8 DEF CutLen, a, b
  <1>11. ASSUME byText = <<>>
         PROVE  b = 0 /\ Fused = V
    BY <1>11, <1>1, <1>2, <1>6
  <1>12. Fused \subseteq all
    BY <1>5, <1>6
  <1> HIDE DEF all
  <1>13. /\ AnswerLen \in Nat
         /\ AnswerLen = IF Cardinality(all) <= k THEN Cardinality(all) ELSE k
    <2>1. CASE Fused = all
      BY <2>1, <1>7 DEF AnswerLen
    <2>2. CASE Cardinality(Fused) > k /\ Cardinality(all) > k
      BY <2>2, <1>7, <1>8 DEF AnswerLen
    <2> QED
      BY <2>1, <2>2, <1>1, <1>2, <1>9, <1>10
  <1>14. byText = <<>> => AnswerLen <= a /\ Fused = V
    <2> SUFFICES ASSUME byText = <<>> PROVE AnswerLen <= a /\ Fused = V
      OBVIOUS
    <2>1. Fused = V /\ Cardinality(Fused) = a
      BY <1>3, <1>11
    <2> QED
      BY <2>1, <1>1 DEF AnswerLen
  <1> QED
    BY <1>12, <1>13, <1>14 DEF V, a, all

\* The rows of one execution, cleared of primes.
Ordered(list) ==
    /\ list \in [1..AnswerLen -> Fused]
    /\ \A i, j \in 1..AnswerLen : i < j => list[i] # list[j] /\ ~Outscores(list[j], list[i])
    /\ \A d \in Fused \ {list[i] : i \in 1..AnswerLen} :
          \A i \in 1..AnswerLen : ~Outscores(d, list[i])

\* An answer names AnswerLen different chunks.
LEMMA OrderedRows ==
    ASSUME Ranking(byVector), Ranking(byText), k \in Nat \ {0}, RrfK \in Nat \ {0},
           NEW list, Ordered(list)
    PROVE  /\ AnswerLen \in Nat
           /\ Len(list) = AnswerLen /\ list \in Seq(Fused)
           /\ ToSet(list) = {list[i] : i \in 1..AnswerLen} /\ ToSet(list) \subseteq Fused
           /\ \A i, j \in 1..AnswerLen : list[i] = list[j] => i = j
           /\ Cardinality(ToSet(list)) = AnswerLen
  <1>1. AnswerLen \in Nat
    BY AnswerCounted
  <1> DEFINE n == AnswerLen
  <1>2. /\ list \in [1..n -> Fused]
        /\ \A i, j \in 1..n : i < j => list[i] # list[j]
    BY DEF Ordered
  <1> HIDE DEF n
  <1>3. list \in Seq(Fused) /\ Len(list) = n
    BY <1>1, <1>2 DEF n
  <1>4. \A i, j \in 1..n : list[i] = list[j] => i = j
    <2> SUFFICES ASSUME NEW i \in 1..n, NEW j \in 1..n, list[i] = list[j], i # j PROVE FALSE
      OBVIOUS
    <2>1. i < j \/ j < i
      BY <1>1 DEF n
    <2> QED
      BY <1>2, <2>1
  <1>5. ToSet(list) = {list[i] : i \in 1..n} /\ ToSet(list) \subseteq Fused
    BY <1>2 DEF ToSet
  <1>6. list \in Bijection(1..n, ToSet(list))
    BY <1>2, <1>4, <1>5 DEF Bijection, Injection, Surjection, IsInjective
  <1>7. Cardinality(ToSet(list)) = n
    BY <1>1, <1>6, FS_CountingElements DEF ExistsBijection, n
  <1> QED
    BY <1>1, <1>3, <1>4, <1>5, <1>7 DEF n

\* The better of two chunks comes before the other.
LEMMA BetterBefore ==
    ASSUME Ranking(byVector), Ranking(byText), k \in Nat \ {0}, RrfK \in Nat \ {0},
           NEW list, Ordered(list), NEW c, NEW d \in ToSet(list),
           NotBehind(byVector, c, d), NotBehind(byText, c, d)
    PROVE  Ahead(list, c, d)
  <1> DEFINE n == AnswerLen
  <1>1. /\ n \in Nat /\ Len(list) = n
        /\ ToSet(list) = {list[i] : i \in 1..n} /\ ToSet(list) \subseteq Fused
        /\ \A i, j \in 1..n : list[i] = list[j] => i = j
    BY OrderedRows
  <1>2. c \in Fused /\ c # d /\ Outscores(c, d)
    BY <1>1, BetterOutscores
  <1>3. /\ \A i, j \in 1..n : i < j => ~Outscores(list[j], list[i])
        /\ \A e \in Fused \ {list[i] : i \in 1..n} : \A i \in 1..n : ~Outscores(e, list[i])
    BY DEF Ordered
  <1> HIDE DEF n
  <1>4. PICK j \in 1..n : d = list[j]
    BY <1>1
  <1>5. PICK i \in 1..n : c = list[i]
    BY <1>2, <1>3, <1>4
  <1>6. i <= j
    BY <1>1, <1>2, <1>3, <1>4, <1>5
  <1> QED
    BY <1>1, <1>2, <1>4, <1>5, <1>6 DEF Ahead

\* With no words to match, the answer is a prefix of the vector ranking.
LEMMA VectorOrder ==
    ASSUME Ranking(byVector), Ranking(byText), k \in Nat \ {0}, RrfK \in Nat \ {0},
           NEW list, Ordered(list), byText = <<>>
    PROVE  list = SubSeq(byVector, 1, Len(list))
  <1> DEFINE n == AnswerLen
             m == CutLen(byVector)
             g == [i \in 1..n |-> Rank(byVector, list[i])]
  <1>1. /\ n \in Nat /\ n <= m /\ Fused = ToSet(Cut(byVector))
        /\ Len(list) = n /\ list \in [1..n -> Fused]
        /\ \A i, j \in 1..n : list[i] = list[j] => i = j
    BY AnswerCounted, OrderedRows DEF Ordered
  <1>2. /\ m \in Nat /\ m <= Len(byVector) /\ Len(byVector) \in Nat
        /\ Fused = {byVector[i] : i \in 1..m}
        /\ \A i, j \in 1..m : byVector[i] = byVector[j] => i = j
        /\ byVector \in Seq(ToSet(byVector))
    <2>1. \A i, j \in DOMAIN byVector : byVector[i] = byVector[j] => i = j
      BY DEF Ranking, IsInjective
    <2>2. byVector \in Seq(ToSet(byVector))
      BY DEF Ranking
    <2>3. /\ m \in Nat /\ m <= Len(byVector) /\ Len(byVector) \in Nat
          /\ ToSet(Cut(byVector)) = {byVector[i] : i \in 1..m}
      BY CutIs
    <2> HIDE DEF m
    <2>4. Fused = {byVector[i] : i \in 1..m}
      BY <1>1, <2>3
    <2> QED
      BY <2>1, <2>2, <2>3, <2>4
  <1>3. /\ \A i, j \in 1..n : i < j => ~Outscores(list[j], list[i])
        /\ \A e \in Fused \ {list[i] : i \in 1..n} : \A i \in 1..n : ~Outscores(e, list[i])
    BY DEF Ordered
  <1> HIDE DEF n, m
  <1>4. \A i \in 1..m : Rank(byVector, byVector[i]) = i
    BY <1>2, RankIs DEF m
  <1>5. ASSUME NEW i \in 1..m, NEW j \in 1..m, i < j
        PROVE  Outscores(byVector[i], byVector[j])
    <2>1. Ahead(byVector, byVector[i], byVector[j])
      BY <1>2, <1>5 DEF Ahead
    <2>2. NotBehind(byText, byVector[i], byVector[j])
      BY CutIs DEF NotBehind
    <2>3. NotBehind(byVector, byVector[i], byVector[j])
      BY <2>1 DEF NotBehind
    <2>4. byVector[j] \in Fused
      BY <1>2
    <2>5. \A c, d : d \in Fused /\ NotBehind(byVector, c, d) /\ NotBehind(byText, c, d)
                    => Outscores(c, d)
      BY BetterOutscores
    <2> QED
      BY <2>2, <2>3, <2>4, <2>5
  <1>6. ASSUME NEW i \in 1..n
        PROVE  g[i] \in 1..m /\ byVector[g[i]] = list[i]
    <2>1. list[i] \in Fused
      BY <1>1
    <2>2. PICK r \in 1..m : list[i] = byVector[r]
      BY <1>2, <2>1
    <2>3. g[i] = r
      BY <1>4, <2>2
    <2> QED
      BY <2>2, <2>3
  <1>7. g \in [1..n -> 1..m]
    BY <1>6
  <1> HIDE DEF g
  <1>8. ASSUME NEW i \in 1..n, NEW j \in 1..n, i < j
        PROVE  g[i] < g[j]
    <2>1. g[i] # g[j]
      BY <1>1, <1>6, <1>8
    <2>2. ~(g[j] < g[i])
      BY <1>3, <1>5, <1>6, <1>8
    <2> QED
      BY <1>6, <2>1, <2>2
  <1>9. ASSUME NEW r \in 1..m, \A i \in 1..n : g[i] # r, NEW i \in 1..n
        PROVE  g[i] <= r
    <2>1. byVector[r] \in Fused \ {list[j] : j \in 1..n}
      BY <1>2, <1>6, <1>9
    <2>2. ~(r < g[i])
      BY <1>3, <1>5, <1>6, <2>1
    <2> QED
      BY <1>6, <2>2
  <1>10. \A i \in 1..n : g[i] = i
    <2>1. \A i, j \in 1..n : i < j => g[i] < g[j]
      BY <1>8
    <2>2. \A r \in 1..m : (\A i \in 1..n : g[i] # r) => \A i \in 1..n : g[i] <= r
      BY <1>9
    <2>3. n \in Nat /\ m \in Nat
      BY <1>1, <1>2
    <2> QED
      BY <1>7, <2>1, <2>2, <2>3, Counts
  <1>11. \A i \in 1..n : list[i] = byVector[i]
    BY <1>6, <1>10
  <1>12. n <= Len(byVector)
    BY <1>1, <1>2
  <1>13. /\ DOMAIN SubSeq(byVector, 1, n) = 1..n
         /\ \A i \in 1..n : SubSeq(byVector, 1, n)[i] = byVector[i]
         /\ SubSeq(byVector, 1, n) \in Seq(ToSet(byVector))
    BY <1>1, <1>2, <1>12
  <1>14. SubSeq(byVector, 1, n) = [i \in 1..n |-> byVector[i]]
    BY <1>1, <1>2, <1>12, <1>13
  <1>15. list = [i \in 1..n |-> byVector[i]]
    BY <1>1, <1>11
  <1> QED
    BY <1>1, <1>14, <1>15

SearchInv ==
    /\ Ranking(byVector) /\ Ranking(byText)
    /\ k \in Nat \ {0}
    /\ BetterStaysAhead
    /\ AnswerIsFull

\* Both properties of an answer, of the one step that makes it.
LEMMA SearchStep ==
    ASSUME SearchInv, [Search]_searchVars
    PROVE  SearchInv'
  <1>1. CASE Search
    <2>1. PICK list : Ordered(list) /\ answer' = list
      BY <1>1 DEF Search, Ordered
    <2>2. Ranking(byVector) /\ Ranking(byText) /\ k \in Nat \ {0} /\ RrfK \in Nat \ {0}
      BY SearchAssumption DEF SearchInv
    <2>3. UNCHANGED <<byVector, byText, k>>
      BY <1>1 DEF Search
    <2> DEFINE all == ToSet(byVector) \cup ToSet(byText)
    <2>4. /\ ToSet(list) \subseteq all
          /\ Cardinality(ToSet(list)) = IF Cardinality(all) <= k THEN Cardinality(all) ELSE k
      BY <2>1, <2>2, AnswerCounted, OrderedRows
    <2>5. byText = <<>> => list = SubSeq(byVector, 1, Len(list))
      BY <2>1, <2>2, VectorOrder
    <2>6. AnswerIsFull'
      BY <2>1, <2>3, <2>4, <2>5 DEF AnswerIsFull
    <2>7. ASSUME NEW c \in ToSet(byVector) \cup ToSet(byText), NEW d \in ToSet(list),
                 NotBehind(byVector, c, d) /\ NotBehind(byText, c, d)
          PROVE  Ahead(list, c, d)
      BY <2>1, <2>2, <2>7, BetterBefore
    <2>8. BetterStaysAhead'
      BY <2>1, <2>3, <2>7 DEF BetterStaysAhead
    <2>9. (Ranking(byVector) /\ Ranking(byText) /\ k \in Nat \ {0})'
      BY <2>2, <2>3
    <2> QED
      BY <2>6, <2>8, <2>9 DEF SearchInv
  <1>2. CASE UNCHANGED searchVars
    BY <1>2 DEF SearchInv, searchVars, BetterStaysAhead, AnswerIsFull
  <1> QED
    BY <1>1, <1>2

\* No query is answered at the start.
LEMMA SearchStart == SearchInit => SearchInv
  BY SearchAssumption DEF SearchInit, SearchInv, BetterStaysAhead, AnswerIsFull

\* For rankings of any length, any k and any rrf_k: the answer of hybrid_search
\* does not turn around the order of two chunks on which both rankings agree.
THEOREM FusionKeepsOrder == SearchSpec => []BetterStaysAhead
  <1>1. SearchInv => BetterStaysAhead
    BY DEF SearchInv
  <1> QED
    BY <1>1, SearchStart, SearchStep, PTL DEF SearchSpec

\* For rankings of any length, any k and any rrf_k: the answer of hybrid_search
\* has k chunks if there are k, and follows the vectors if no words match.
THEOREM AnswersAreFull == SearchSpec => []AnswerIsFull
  <1>1. SearchInv => AnswerIsFull
    BY DEF SearchInv
  <1> QED
    BY <1>1, SearchStart, SearchStep, PTL DEF SearchSpec

=============================================================================
