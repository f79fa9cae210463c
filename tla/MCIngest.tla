------------------------------ MODULE MCIngest -------------------------------
(* Small instances of IngestPipeline.  A short upload makes one chunk, a     *)
(* long one two, a blank one (no extractable text) none, a torn file one.    *)
EXTENDS IngestPipeline, TLC

CONSTANTS short, long, blank, torn

MCChunkCount ==
    [c \in Contents |-> CASE c \in {short, torn} -> 1 [] c = long -> 2 [] c = blank -> 0]

MCSlot        == {[address |-> <<"a">>, upload |-> <<"p", "/", "q">>]}
MCStorageKeys == [s \in Slots |-> StorageKey(s, {"a", "p", "q", "_"})]
MCKeys        == {StorageKey(s, {"a", "p", "q", "_"}) : s \in MCSlot}

RequestSymmetry == Permutations(Tasks) \cup Permutations(Workers)

=============================================================================
