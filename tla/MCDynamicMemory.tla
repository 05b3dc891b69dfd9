--------------------------- MODULE MCDynamicMemory ---------------------------
(* DynamicMemory on an arena of 12 octets.  The requests are those of the     *)
(* runtime, scaled down: a struct aligned to 8, items aligned to 4 and 1, an  *)
(* empty list (count 0), the items of an empty list (align 0), an align that  *)
(* is too large, one request above TooLarge, one that fills the arena and     *)
(* Blob.make with the Int -2, which is Word - 2 as a size_t.                  *)
EXTENDS DynamicMemory

MCWord == 64

MCRequests == {
  [itemCount |-> 1, itemSize |-> 3, align |-> 8],
  [itemCount |-> 2, itemSize |-> 2, align |-> 4],
  [itemCount |-> 0, itemSize |-> 4, align |-> 4],
  [itemCount |-> 1, itemSize |-> 1, align |-> 1],
  [itemCount |-> 3, itemSize |-> 1, align |-> 1],
  [itemCount |-> 0, itemSize |-> 0, align |-> 0],
  [itemCount |-> 1, itemSize |-> 1, align |-> 9],
  [itemCount |-> 12, itemSize |-> 1, align |-> 1],
  [itemCount |-> 7, itemSize |-> 3, align |-> 1],
  [itemCount |-> MCWord - 2, itemSize |-> 1, align |-> 1] }

\* Zero-sized blocks do not move the bump pointer: without a bound on the
\* number of blocks there would be no end of them.
MaxBlocks == 5
BlocksBound == Len(blocks) <= MaxBlocks
=============================================================================
