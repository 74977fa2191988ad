--------------------------- MODULE MCKVAllocator ----------------------------
(* Small instances of KVAllocator: pages of two tokens with the release    *)
(* list, and the token allocator without it.                               *)
EXTENDS KVAllocator, TLC

Allocators ==
  {[page_size |-> 2, need_sort |-> TRUE, max_len |-> 4],
   [page_size |-> 1, need_sort |-> FALSE, max_len |-> 3]}

Symmetry == Permutations(Owners)
=============================================================================
