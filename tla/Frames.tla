------------------------------- MODULE Frames -------------------------------
(***************************************************************************)
(* Where the native functions put the arguments of the functions they run  *)
(* (list.c, blob.c, maybe.c), with swampExecutePrepare.  Positions are in  *)
(* octets behind the base pointer.                                         *)
(*                                                                         *)
(* A function [returns, params] leaves its result at 0 and expects its     *)
(* parameters behind it.  A closure has its first argument already, the    *)
(* octets swampCurryFuncAllocate copied when it was made.                  *)
(***************************************************************************)
EXTENDS Integers, Sequences, Outcomes

\* A type is the size and the alignment of its values.
Typed(size, align) == [size |-> size, align |-> align]
IntType == Typed(4, 4)
PositionType == Typed(8, 4)

\* The tag, and the value at the next multiple of its alignment.
MaybeType(type) == Typed(type.align + type.size, type.align)

\* Mutant of AlignUp: a position is moved even if it is aligned.
AlignUpAlways(position, align) == position + align - (position % align)
AlignUp(position, align) ==
  IF position % align = 0 THEN position ELSE position + align - (position % align)

\* What is behind the result: the argument of a closure, or nothing.
Closed(func, closure) == IF closure THEN <<AlignUp(func.returns.size, func.params[1].align)>> ELSE << >>
Prepared(func, closure) ==
  IF closure THEN Closed(func, closure)[1] + func.params[1].size ELSE func.returns.size

\* The arguments one after the other, each at a multiple of its alignment.
Placed(start, types) ==
  LET at[i \in 1 .. Len(types)] ==
        AlignUp(IF i = 1 THEN start ELSE at[i - 1] + types[i - 1].size, types[i].align)
  IN  at

(***************************************************************************)
(* The native functions by the types of the arguments they give to a       *)
(* function over items of type a and results, or accumulators, b.          *)
(***************************************************************************)
ArgumentsOf(name, a, b) ==
  CASE name \in {"List.map", "List.concatMap", "List.any", "List.find", "Maybe.maybe"} -> <<a>>
    [] name \in {"List.map2", "List.foldl", "List.foldlstop"} -> <<a, b>>
    [] name = "List.indexedMap" -> <<IntType, a>>
    [] name = "List.reduce" -> <<a, a>>
    [] name \in {"Blob.mapToBlob", "Blob.any"} -> <<IntType>>
    [] name \in {"Blob.indexedMapToBlob", "Blob.indexedMapToBlob!", "Blob.filterIndexedMap"} ->
         <<IntType, IntType>>
    [] name \in {"Blob.map2d", "Blob.filterIndexedMap2d"} -> <<PositionType, IntType>>

ReturnOf(name, a, b) ==
  CASE name = "List.reduce" -> a
    [] name = "List.foldlstop" -> MaybeType(b)
    [] OTHER -> b

FrameFunctions ==
  {"List.map", "List.concatMap", "List.any", "List.find", "Maybe.maybe", "List.map2", "List.foldl",
   "List.foldlstop", "List.indexedMap", "List.reduce", "Blob.mapToBlob", "Blob.any",
   "Blob.indexedMapToBlob", "Blob.indexedMapToBlob!", "Blob.filterIndexedMap", "Blob.map2d",
   "Blob.filterIndexedMap2d"}

\* These give swampRun a count of 1 whatever the function, which refuses to
\* run another.
CountsOne == {"Blob.mapToBlob", "Blob.any"}

\* foldlstop takes a closure for a function, and goes through two buffers of
\* this size: the item and the accumulator, and the last accumulator.  What is
\* written behind them is undefined.
TempSize == 32

\* The accumulator is behind the item as if that were at 0, and the item
\* behind the result; the size of the accumulator is taken to be the result's.
FoldlStop(func, closure) ==
  LET a == func.params[1]
      b == func.params[2]
      offset == AlignUp(a.size, b.align)
      resultSize == func.returns.size
  IN  IF closure \/ offset + resultSize > TempSize THEN Stopped("fault")
      ELSE Returned([at |-> <<resultSize, resultSize + offset>>,
                     end |-> resultSize + a.size + resultSize,
                     result |-> resultSize])

\* Maybe.maybe aligns the position after it wrote there.
LaysOut(name, func, closure) ==
  LET start == Prepared(func, closure)
      types == SubSeq(func.params, IF closure THEN 2 ELSE 1, Len(func.params))
      at == IF name = "Maybe.maybe" THEN <<start>> ELSE Placed(start, types)
  IN  CASE name = "List.foldlstop" -> FoldlStop(func, closure)
        [] name \in CountsOne /\ closure -> NotSet
        [] OTHER -> Returned([at |-> Closed(func, closure) \o at,
                              end |-> at[Len(at)] + types[Len(types)].size,
                              result |-> func.returns.size])
=============================================================================
