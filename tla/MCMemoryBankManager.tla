------------------------ MODULE MCMemoryBankManager ------------------------
(* Two banks, one of them at an address that is not a multiple of the page *)
(* size, and requests that meet every case: with and without excess bytes, *)
(* a first page out of place, pages lost to the alignment, an alignment    *)
(* larger than the block, and one that an int cannot hold.                 *)
EXTENDS MemoryBankManager, TLC

MCBankBase == ("a" :> 3) @@ ("b" :> 8)
MCBankSize == ("a" :> 40) @@ ("b" :> 16)

Ask(size, n, bank, first, align) ==
  [pageSize |-> size, pageNumber |-> n, bank |-> bank, firstPageOffset |-> first, blockAlign |-> align]

MCRequests == {
  Ask(2, 3, "a", 0, 0), Ask(3, 2, "a", 1, 4), Ask(2, 2, "a", 0, 8), Ask(1, 2, "a", 0, 12),
  Ask(2, 4, "a", 0, 16), Ask(3, 1, "a", 7, 4), Ask(3, 1, "b", 0, 8), Ask(2, 1, "b", 2, 4) }

=============================================================================
