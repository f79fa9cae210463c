------------------------------ MODULE MCReadSide ------------------------------
(* A small instance of ReadSide: every upload makes two chunks; two of the   *)
(* three slots share an address, two an upload_id, and two a storage key.    *)
EXTENDS ReadSide, TLC

MCChunkCount == [c \in Contents |-> 2]

MCSlash   == [address |-> <<"a">>, upload |-> <<"p", "/", "q">>]
MCUnder   == [address |-> <<"a">>, upload |-> <<"p", "_", "q">>]
MCOther   == [address |-> <<"b">>, upload |-> <<"p", "_", "q">>]
MCKept    == {"a", "b", "p", "q", "_"}

MCSlot     == {MCUnder}
MCSlots    == {MCSlash, MCUnder, MCOther}
MCStorageKeys == [s \in Slots |-> StorageKey(s, MCKept)]
MCKeys     == {StorageKey(s, MCKept) : s \in {MCSlash, MCUnder, MCOther}}

MCAddresses == {<<"a">>, <<"b">>}
MCAddressOf == [s \in Slots |-> s.address]

ReadSymmetry == Permutations(Tasks) \cup Permutations(Uploads)

=============================================================================
