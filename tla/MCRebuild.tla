------------------------------ MODULE MCRebuild ------------------------------
(* Small instances of Rebuild: every upload makes two chunks, every slot has *)
(* an address and a storage key of its own.                                  *)
EXTENDS Rebuild, TLC

MCChunkCount == [c \in Contents |-> 2]
MCOwn        == [s \in Slots |-> s]

RebuildSymmetry == Permutations(Tasks) \cup Permutations(Models)

=============================================================================
