-------------------------------- MODULE MCText --------------------------------
(* The three computations that run on data of their own, one per behaviour:  *)
(* Extraction, Chunking and HybridSearch on small inputs.  The two that are  *)
(* not looked at rest, finished, on an empty input.                          *)
EXTENDS Chunking, Extraction, HybridSearch

CONSTANTS
    MaxBytes,    \* the bytes of a text
    MaxChunks    \* the live chunks of an address

-----------------------------------------------------------------------------
(* Texts: UTF-8 of up to MaxBytes bytes, cut into tokens anywhere; segments  *)
(* of at least a character, with the two characters of the separator between *)
(* them.                                                                     *)

Utf8(leads, n) == \A i \in 1..n : \E j \in leads : j <= i /\ i - j < 4

Beginnings(leads) ==
    {S \in SUBSET leads : 1 \in S /\ \A b \in S \ {1} : b > 3 /\ {b - 2, b - 1} \subseteq leads \ S}

CutAt(ends) ==
    [i \in 0..Cardinality(ends) |->
        IF i = 0 THEN 0 ELSE CHOOSE e \in ends : Cardinality({f \in ends : f <= e}) = i]

TextsOf(n) ==
    {[tokens |-> Cardinality(e), cut |-> CutAt(e), leads |-> p[1], segments |-> p[2]] :
        e \in {S \in SUBSET (1..n) : n \in S},
        p \in UNION {{leads} \X Beginnings(leads) :
                        leads \in {S \in SUBSET (1..n) : 1 \in S /\ Utf8(S, n)}}}

EmptyText == [tokens |-> 0, cut |-> [i \in {0} |-> 0], leads |-> {}, segments |-> {}]

MCTexts == {EmptyText} \cup UNION {TextsOf(n) : n \in 1..MaxBytes}

-----------------------------------------------------------------------------
(* Files of up to two pages, with up to two paragraphs and two tables each.  *)

Tables == [rows : 0..2, cols : 1..2]

PagesMC == [paras : 0..2, tables : {<<>>} \cup {<<x>> : x \in Tables}]
             \cup [paras : {1}, tables : {<<x, y>> : x, y \in Tables}]

NoFile == [pdf |-> FALSE, pages |-> <<[paras |-> 0, tables |-> <<>>]>>]

MCFiles ==
    {NoFile} \cup {[pdf |-> FALSE, pages |-> <<[paras |-> 2, tables |-> <<>>]>>]}
    \cup {[pdf |-> TRUE, pages |-> s] :
             s \in {<<>>} \cup {<<p>> : p \in PagesMC}
                     \cup {<<p, q>> : p \in PagesMC, q \in [paras : 0..2, tables : {<<>>}]}}

MCReplies ==
    LET blocks == [page : 1..2, paras : 0..2] IN
    {<<b>> : b \in blocks} \cup {<<b, c>> : b, c \in blocks}

-----------------------------------------------------------------------------
(* Rankings of up to MaxChunks chunks, named in the order of the vectors.    *)

MCRankings ==
    {SetToSortSeq(S, <) : S \in SUBSET (1..MaxChunks)} \X SetToAllKPermutations(1..MaxChunks)

-----------------------------------------------------------------------------
(* One of the three at a time. *)

ChunkingRests ==
    /\ text = EmptyText /\ size = 1 /\ overlap = 0 /\ at = "done"
    /\ start = 0 /\ ordinal = 0 /\ prefixLen = 0 /\ rows = {}

ExtractionRests ==
    /\ file = NoFile /\ stage = "done" /\ nextPage = 1
    /\ plumbed = {} /\ ocr = {} /\ result = {}

SearchRests ==
    byVector = <<>> /\ byText = <<>> /\ k = 1 /\ answered = TRUE /\ answer = <<>>

TextInit ==
    \/ ExtractionInit /\ ChunkingRests /\ SearchRests
    \/ ChunkingInit /\ ExtractionRests /\ SearchRests
    \/ SearchInit /\ ExtractionRests /\ ChunkingRests

TextNext ==
    \/ ExtractionNext /\ UNCHANGED <<chunkingVars, searchVars>>
    \/ ChunkingNext /\ UNCHANGED <<extractionVars, searchVars>>
    \/ Search /\ UNCHANGED <<extractionVars, chunkingVars>>

TextSpec == TextInit /\ [][TextNext]_<<chunkingVars, extractionVars, searchVars>>

=============================================================================
