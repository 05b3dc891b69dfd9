--------------------------- MODULE CoreCollections ---------------------------
(***************************************************************************)
(* The functions of lib/core/list.c, array.c and maybe.c that run no       *)
(* function argument, or, Maybe.maybe, one at most.  A list or an array is *)
(* the sequence of its items, and an item is the word it is stored as: an  *)
(* integer, or the address of a string.                                    *)
(***************************************************************************)
EXTENDS Integers, Sequences, Outcomes

CONSTANTS
  Unset          \* memory nothing was written to

\* An array of more items is "suspicious".
GrabLimit == 2048

ListHead(list) == Returned(IF list = << >> THEN Nothing ELSE Just(list[1]))

\* The last item, not the list without the first.
ListTail(list) == Returned(IF list = << >> THEN Nothing ELSE Just(list[Len(list)]))

ListIsEmpty(list) == Returned(Len(list) = 0)
Length(items) == Returned(Len(items))

\* Mutant of ListMember: the items are walked from the second.
ListMemberOfTail(data, list) == Returned(\E i \in 2 .. Len(list) : list[i] = data)

\* The items are compared as octets.
ListMember(data, list) == Returned(\E i \in 1 .. Len(list) : list[i] = data)

\* The items 0 .. length - 1.
ListRange0(traps, length) ==
  Allocated(traps, length, {Returned([i \in 1 .. length |-> i - 1])})

\* The loop counts in size_t, from start up to end, both converted to it.
LoopIsEntered(start, end) ==
  \/ start <= end /\ (start < 0) = (end < 0)
  \/ start >= 0 /\ end < 0

\* It writes through the first octets of the new items, taken for an address,
\* so only a loop that is not entered returns.
ListRange(traps, start, end) ==
  LET length == Int32(end - start + 1)
  IN  Allocated(traps, length,
                {IF LoopIsEntered(start, end) THEN Stopped("fault")
                 ELSE Returned([i \in 1 .. length |-> Unset])})

\* CLOG_ERROR("Not implemented").
ListFilterMap(traps) == AfterError(traps, NotSet)

\* An array is a list under another type.
Same(collection) == Returned(collection)

Has(array, index) == 0 <= index /\ index < Len(array)

\* Also what Array.repeat does.
ArrayGet(index, array) ==
  Returned(IF Has(array, index) THEN Just(array[index + 1]) ELSE Nothing)

ArrayGrab(traps, index, array) ==
  IF Len(array) > GrabLimit \/ ~Has(array, index) THEN Panic(traps)
  ELSE Returned(array[index + 1])

\* Array.set and Array.slice write no result.
ArraySet(traps, index, array) == IF Has(array, index) THEN NotSet ELSE Panic(traps)

(***************************************************************************)
(* A Maybe in memory: its tag, whether the seven octets behind it are      *)
(* zero, the item of a Just, and what is eight times as far away as the    *)
(* item.  Nothing leaves all but the tag as it was.                        *)
(***************************************************************************)
MaybeWithDefault(default, maybe) == Returned(IF maybe.tag = 0 THEN default ELSE maybe.item)

\* The pointer to the Maybe is taken for a pointer to pointers: the first word
\* is tested, and offsets into it count in words.
MaybeMaybe(default, maybe) ==
  Returned(IF maybe.tag = 0 /\ maybe.restIsZero THEN [default |-> default]
           ELSE [appliedTo |-> maybe.beyond])
=============================================================================
