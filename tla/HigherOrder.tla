----------------------------- MODULE HigherOrder -----------------------------
(***************************************************************************)
(* The functions of lib/core/list.c and lib/core/blob.c that run a         *)
(* function argument once per item.  Machine has the contexts and the      *)
(* nested swampRun they run it in; this module has what they compute.      *)
(*                                                                         *)
(* The argument is any function of the program: a run of it returns any    *)
(* value of its result type, and may have called more of these functions   *)
(* in the meantime.  Three things are shared between such nested calls:    *)
(* the blobs, which a function with a "!" in its name writes in place; the *)
(* tempResult buffer, one for all contexts, in which List.concatMap        *)
(* gathers its items; and nothing else, since each call has a temporary    *)
(* context of its own.  There it reads the result of each run at the base  *)
(* pointer, the "slot" below, where the folds keep their accumulator.      *)
(*                                                                         *)
(* All items are integers of one size, and the temporary buffer is         *)
(* measured in items.  Positions 1 .. n stand for the indices 0 .. n - 1.  *)
(***************************************************************************)
EXTENDS Integers, Sequences, SequencesExt

CONSTANTS
  Lists,           \* the lists of the program
  Ints,            \* the integers in them, and those a run may return
  OctetLimit,      \* an octet is an integer modulo this, 256 in the code
  Blobs,           \* the blobs of the program
  NoBlob,
  FirstOctets,     \* what each blob holds at first
  Widths,          \* the widths a blob is taken to have, in two dimensions
  Unset,           \* uninitialized memory
  TempCapacity,    \* items that fit into tempResult
  TempCounts,      \* what the uninitialized tempResultSize of a temporary context may be, in items
  MaxDepth,        \* bound: how deep these functions are nested
  MaxNested        \* bound: calls the runs of one function's argument make

Octets == 0 .. OctetLimit - 1

ASSUME ListsAssumption == Ints \subseteq Int /\ Ints # {} /\ Lists \subseteq Seq(Ints) /\ Widths \subseteq Int
ASSUME BlobsAssumption ==
  OctetLimit \in Nat \ {0} /\ FirstOctets \in [Blobs -> Seq(Octets)] /\ NoBlob \notin Blobs
ASSUME TempAssumption == TempCapacity \in Nat /\ TempCounts \subseteq Nat
ASSUME OtherAssumption == MaxDepth \in Nat /\ MaxNested \in Nat

VARIABLES
  stack,       \* the calls of these functions that have not returned, oldest first
  blobs,       \* the octets of each blob
  temp,        \* tempResult
  errorTraps,  \* does CLOG_ERROR stop the process in this build?
  status

vars == <<stack, blobs, temp, errorTraps, status>>

ListFunctions == {"map", "map2", "indexedMap", "any", "find", "concatMap", "foldl", "reduce", "foldlstop"}
InPlace == "indexedMapToBlob!"
Indexed == {"indexedMap", "indexedMapToBlob", InPlace, "filterIndexedMap"}
InTwoDimensions == {"map2d", "filterIndexedMap2d"}
PassOne == {"mapToBlob", "blobAny"}
BlobFunctions == PassOne \cup InTwoDimensions \cup (Indexed \ {"indexedMap"})
Filters == {"filterIndexedMap", "filterIndexedMap2d"}
Searches == {"any", "find", "blobAny"}
Accumulating == {"foldl", "reduce", "foldlstop"}
IntoOctets == {"mapToBlob", "indexedMapToBlob", InPlace}
Collectors == IntoOctets \cup {"map", "map2", "indexedMap", "map2d"}

\* A Maybe: Nothing, or Just one value.
Nothing == << >>
Just(v) == <<v>>

\* The values a run of the function argument may return.
Results(op) ==
  CASE op \in Searches -> BOOLEAN
    [] op = "concatMap" -> Lists
    [] op \in Filters \cup {"foldlstop"} -> {Nothing} \cup {Just(v) : v \in Ints}
    [] OTHER -> Ints

\* A call: its arguments, the loop in it, and what it gathers.  was, log and
\* during are history variables: the octets of its blob when it began, what
\* each run was given and returned, and the calls that runs of its function
\* argument made, with the blob of each.
Call(op, list, other, blob, width, initial, refused) ==
  [op |-> op, list |-> list, other |-> other, blob |-> blob, width |-> width,
   initial |-> initial, refused |-> refused,
   i |-> IF op = "reduce" THEN 2 ELSE 1, running |-> FALSE, stopped |-> FALSE, args |-> << >>,
   slot |-> CASE op = "reduce" -> Head(list)
              [] op = "foldlstop" \/ (op = "foldl" /\ list = << >>) -> initial
              [] OTHER -> Unset,
   good |-> initial, out |-> << >>, count |-> 0, max |-> 0,
   was |-> IF blob = NoBlob THEN << >> ELSE blobs[blob], log |-> << >>, during |-> << >>]

Top == Last(stack)
TopBecomes(a) == stack' = [stack EXCEPT ![Len(stack)] = a]
Stop(how) == status' = how /\ UNCHANGED <<stack, blobs, temp, errorTraps>>
Depth == Len(stack)

Count(a) ==
  CASE a.op \in BlobFunctions -> Len(blobs[a.blob])
    [] a.op = "map2" -> IF Len(a.other) < Len(a.list) THEN Len(a.other) ELSE Len(a.list)
    [] OTHER -> Len(a.list)

Finished(a) == ~a.running /\ (a.stopped \/ a.i > Count(a))
CanCall ==
  /\ status = "running" /\ Depth < MaxDepth
  /\ stack # << >> => Top.running /\ Len(Top.during) < MaxNested

TypeOK ==
  /\ blobs \in [Blobs -> Seq(Octets)]
  /\ temp \in [1 .. TempCapacity -> Ints \cup {Unset}]
  /\ errorTraps \in BOOLEAN
  /\ status \in {"running", "trap", "fault"}
  /\ \A k \in DOMAIN stack :
       LET a == stack[k]
       IN /\ a.op \in ListFunctions \cup BlobFunctions
          /\ a.i \in 1 .. Count(a) + 1
          /\ a.running => a.i <= Count(a) /\ ~a.stopped
          /\ a.count <= TempCapacity
          /\ Len(a.out) <= Count(a)
          /\ k < Depth => a.running

-----------------------------------------------------------------------------
Init ==
  /\ stack = << >>
  /\ blobs = FirstOctets
  /\ temp = [k \in 1 .. TempCapacity |-> Unset]
  /\ errorTraps \in BOOLEAN
  /\ status = "running"

\* swampContextCreateTemp copies tempResult, but not tempResultSize.
Capacities == IF stack = << >> THEN {TempCapacity} ELSE TempCounts

Begin(a) ==
  /\ stack' = Append(stack, a)
  /\ UNCHANGED <<blobs, temp, errorTraps, status>>

\* List.map, indexedMap, any and find are called.
CallList(op, list) ==
  /\ CanCall /\ op \in {"map", "indexedMap", "any", "find"}
  /\ Begin(Call(op, list, << >>, NoBlob, 0, Unset, FALSE))

CallMap2(list, other) ==
  /\ CanCall
  /\ Begin(Call("map2", list, other, NoBlob, 0, Unset, FALSE))

CallConcatMap(list) ==
  /\ CanCall
  /\ \E max \in Capacities :
       Begin([Call("concatMap", list, << >>, NoBlob, 0, Unset, FALSE) EXCEPT !.max = max])

CallReduce(list) ==
  /\ CanCall
  /\ IF list = << >> THEN Stop(IF errorTraps THEN "trap" ELSE "fault")
     ELSE Begin(Call("reduce", list, << >>, NoBlob, 0, Unset, FALSE))

\* swampCoreListFoldlStop takes its function to be a SwampFunc, without
\* swampExecutePrepare: what it reads in a closure is no program.
CallFold(op, list, initial, closure) ==
  /\ CanCall /\ op \in {"foldl", "foldlstop"}
  /\ IF op = "foldlstop" /\ closure THEN Stop("fault")
     ELSE Begin(Call(op, list, << >>, NoBlob, 0, initial, FALSE))

\* A call of a blob function.  swampRun refuses the function behind a closure
\* to those that say it has one parameter.
CallBlob(op, b, closure) ==
  /\ CanCall /\ op \in BlobFunctions \ InTwoDimensions
  /\ Begin(Call(op, << >>, << >>, b, 0, Unset, closure /\ op \in PassOne))

\* In two dimensions, the index is divided by the width, after map2d looked
\* at it.
CallBlob2d(op, b, width) ==
  /\ CanCall /\ op \in InTwoDimensions
  /\ IF op = "map2d" /\ width <= 0 /\ errorTraps THEN Stop("trap")
     ELSE IF width = 0 /\ blobs[b] # << >> THEN Stop("fault")
     ELSE Begin(Call(op, << >>, << >>, b, width, Unset, FALSE))

-----------------------------------------------------------------------------
\* Mutant of Place: indices from one.
PlaceFromOne(a) == CASE a.op \in Indexed -> <<a.i>>
                     [] a.op \in InTwoDimensions -> <<a.i, 0>>
                     [] OTHER -> << >>

\* A negative width becomes a size_t larger than any index.
Place(a) ==
  LET index == a.i - 1
  IN CASE a.op \in Indexed -> <<index>>
       [] a.op \in InTwoDimensions ->
            IF a.width > 0 THEN <<index % a.width, index \div a.width>> ELSE <<index, 0>>
       [] OTHER -> << >>

Items(a) ==
  CASE a.op \in BlobFunctions -> <<blobs[a.blob][a.i]>>
    [] a.op = "map2" -> <<a.list[a.i], a.other[a.i]>>
    [] OTHER -> <<a.list[a.i]>>

\* Mutant of Accumulator: every run is given the initial value.
AccumulatorOfFirst(a) == IF a.op \in Accumulating THEN <<a.initial>> ELSE << >>
Accumulator(a) ==
  IF a.op \in Accumulating THEN <<IF a.op = "foldl" /\ a.i = 1 THEN a.initial ELSE a.slot>> ELSE << >>

\* The arguments of the next run are laid out on the temporary context.
StartRun ==
  /\ status = "running" /\ stack # << >> /\ ~Top.running /\ ~Finished(Top)
  /\ TopBecomes([Top EXCEPT !.running = TRUE, !.args = Place(Top) \o Items(Top) \o Accumulator(Top)])
  /\ UNCHANGED <<blobs, temp, errorTraps, status>>

\* Mutant of Octet: not clipped.
OctetUnclipped(v) == v
Octet(v) == v % OctetLimit

Kept(a, v) ==
  CASE a.op \in IntoOctets -> Append(a.out, Octet(v))
    [] a.op \in Collectors \ IntoOctets -> Append(a.out, v)
    [] a.op \in Filters /\ v # Nothing -> Append(a.out, v[1])
    [] OTHER -> a.out

\* Mutant of Stops: the loop goes on after the answer.
StopsNever(op, v) == FALSE
Stops(op, v) == CASE op \in Searches -> v
                  [] op = "foldlstop" -> v = Nothing
                  [] OTHER -> FALSE

\* The accumulator of foldlstop is moved out of the Just.
Slot(a, v) == IF a.op = "foldlstop" /\ v # Nothing THEN v[1] ELSE v
Good(a, v) == IF a.op = "foldlstop" /\ v # Nothing THEN v[1] ELSE a.good

\* What the loop does with the value v of a run, and on to the next item.
Taken(a, v) ==
  LET stops == Stops(a.op, v)
  IN [a EXCEPT !.running = FALSE, !.args = << >>, !.stopped = stops, !.i = IF stops THEN @ ELSE @ + 1,
               !.slot = Slot(a, v), !.good = Good(a, v), !.out = Kept(a, v),
               !.log = Append(@, [args |-> a.args, value |-> v])]

Returning == status = "running" /\ stack # << >> /\ Top.running

\* A run returns to a function that keeps the value on its own.
RunReturns(v) ==
  /\ Returning /\ ~Top.refused /\ Top.op \notin {"concatMap", InPlace} /\ v \in Results(Top.op)
  /\ TopBecomes(Taken(Top, v))
  /\ UNCHANGED <<blobs, temp, errorTraps, status>>

\* A run returns to Blob.indexedMapToBlob!: its value goes into the blob that
\* the loop reads.
RunReturnsInPlace(v) ==
  /\ Returning /\ Top.op = InPlace /\ v \in Results(InPlace)
  /\ TopBecomes(Taken(Top, v))
  /\ blobs' = [blobs EXCEPT ![Top.blob][Top.i] = Octet(v)]
  /\ UNCHANGED <<temp, errorTraps, status>>

Fits(count, list, max) == count + Len(list) < max

\* Mutant of TempWith: every list goes to the start of the buffer.
TempFromStart(list, count) == [k \in 1 .. TempCapacity |-> IF k <= Len(list) THEN list[k] ELSE temp[k]]
TempWith(list, count) ==
  [k \in 1 .. TempCapacity |-> IF k - count \in DOMAIN list THEN list[k - count] ELSE temp[k]]

\* A run returns to List.concatMap: the list goes behind those gathered so far,
\* or is left out where the guard says it does not fit.
RunReturnsList(list) ==
  /\ Returning /\ Top.op = "concatMap" /\ list \in Lists
  /\ IF list = << >> \/ ~Fits(Top.count, list, Top.max)
       THEN TopBecomes(Taken(Top, list)) /\ UNCHANGED <<blobs, temp, errorTraps, status>>
     ELSE IF Top.count + Len(list) > TempCapacity THEN Stop("fault")
     ELSE /\ TopBecomes([Taken(Top, list) EXCEPT !.count = @ + Len(list)])
          /\ temp' = TempWith(list, Top.count)
          /\ UNCHANGED <<blobs, errorTraps, status>>

\* swampRun refused to run the function; what is at the base pointer, from no
\* run at all, is taken for its value.
RunRefused(v) ==
  /\ Returning /\ Top.refused /\ v \in Results(Top.op)
  /\ Top.slot \in {Unset, v}
  /\ TopBecomes([Taken(Top, v) EXCEPT !.log = << >>])
  /\ UNCHANGED <<blobs, temp, errorTraps, status>>

\* The call returns.  What it leaves in temp is forgotten with the outermost
\* one: no call reads there what it has not written.
Return ==
  /\ status = "running" /\ stack # << >> /\ Finished(Top)
  /\ stack' = [k \in 1 .. Depth - 1 |->
                 [stack[k] EXCEPT !.during = Append(@, [op |-> Top.op, blob |-> Top.blob])]]
  /\ temp' = IF Depth = 1 THEN [k \in 1 .. TempCapacity |-> Unset] ELSE temp
  /\ UNCHANGED <<blobs, errorTraps, status>>

Next ==
  \/ \E list \in Lists :
       \/ \E op \in ListFunctions : CallList(op, list)
       \/ \E other \in Lists : CallMap2(list, other)
       \/ CallConcatMap(list)
       \/ CallReduce(list)
       \/ \E op \in {"foldl", "foldlstop"}, initial \in Ints, closure \in BOOLEAN :
            CallFold(op, list, initial, closure)
  \/ \E op \in BlobFunctions, b \in Blobs :
       \/ \E closure \in BOOLEAN : CallBlob(op, b, closure)
       \/ \E width \in Widths : CallBlob2d(op, b, width)
  \/ StartRun
  \/ \E v \in Ints : RunReturnsInPlace(v)
  \/ \E list \in Lists : RunReturnsList(list)
  \/ Returning /\ \E v \in Results(Top.op) : RunReturns(v) \/ RunRefused(v)
  \/ Return

Spec == Init /\ [][Next]_vars

-----------------------------------------------------------------------------
\* The properties look at a call of one of these functions, at any depth, at
\* the moment it is about to return.
Ready(op) == status = "running" /\ stack # << >> /\ Finished(Top) /\ ~Top.refused /\ Top.op = op
ReadyIn(ops) == \E op \in ops : Ready(op)

Values(a) == [k \in DOMAIN a.log |-> a.log[k].value]
Undisturbed(a) == ~Contains(a.during, [op |-> InPlace, blob |-> a.blob])
NoOtherConcatMap(a) == Depth = 1 /\ \A k \in DOMAIN a.during : a.during[k].op # "concatMap"

\* The elements the function is mapped over, as they were when it was called.
Source(a) == CASE a.op \in BlobFunctions -> a.was
               [] a.op = "map2" -> Zip(a.list, a.other)
               [] OTHER -> a.list

PlaceIs(a, k, args) ==
  CASE a.op \in Indexed -> args[1] = k - 1
    [] a.op \in InTwoDimensions /\ a.width > 0 ->
         args[2] * a.width + args[1] = k - 1 /\ args[1] \in 0 .. a.width - 1
    [] OTHER -> TRUE

\* A map is pointwise, whatever calls its function makes: every element is
\* handed over once, in order and with its own place, and the result has what
\* the runs returned, in the same order.  The elements are those of the moment
\* of the call, unless a nested indexedMapToBlob! wrote the same blob.
MapsArePointwise ==
  ReadyIn(Collectors \cup Filters) =>
    LET a == Top
    IN /\ Len(a.log) = IF a.op = "map2" THEN Count(a) ELSE Len(Source(a))
       /\ \A k \in DOMAIN a.log :
            /\ PlaceIs(a, k, a.log[k].args)
            /\ a.op = "map2" => a.log[k].args = <<a.list[k], a.other[k]>>
            /\ a.op # "map2" /\ Undisturbed(a) => Last(a.log[k].args) = Source(a)[k]
       /\ a.out = IF a.op \in Filters THEN FlattenSeq(Values(a))
                  ELSE [k \in DOMAIN a.log |-> IF a.op \in IntoOctets THEN Octet(a.log[k].value) ELSE a.log[k].value]
       /\ a.op = InPlace /\ Undisturbed(a) => blobs[a.blob] = a.out

\* The folds hand each run the next item and what the previous run returned,
\* the first one the initial value (the first item, for reduce), and return
\* what the last run returned; foldlstop the last it returned before Nothing,
\* and no run follows that.
FoldsThread ==
  ReadyIn(Accumulating) =>
    LET a == Top
        skipped == IF a.op = "reduce" THEN 1 ELSE 0
        first == IF a.op = "reduce" THEN Head(a.list) ELSE a.initial
        After(k) == IF a.op = "foldlstop" THEN a.log[k].value[1] ELSE a.log[k].value
        stopped == a.op = "foldlstop" /\ a.log # << >> /\ Last(a.log).value = Nothing
        kept == Len(a.log) - IF stopped THEN 1 ELSE 0
    IN /\ \A k \in DOMAIN a.log :
            a.log[k].args = <<a.list[k + skipped], IF k = 1 THEN first ELSE After(k - 1)>>
       /\ ~stopped => Len(a.log) + skipped = Len(a.list)
       /\ (IF a.op = "foldlstop" THEN a.good ELSE a.slot) = IF kept = 0 THEN first ELSE After(kept)

\* A search asks about the items in order, not one after the first for which
\* the answer is true, and does not end before without having asked about all;
\* the item that List.find returns is the one it asked about last.
SearchesStopAtTheFirst ==
  ReadyIn(Searches) =>
    LET a == Top
    IN /\ \A k \in 1 .. Len(a.log) - 1 : ~a.log[k].value
       /\ a.stopped = (a.log # << >> /\ Last(a.log).value)
       /\ ~a.stopped => Len(a.log) = Count(a)
       /\ a.op = "find" /\ a.stopped => <<a.list[a.i]>> = Last(a.log).args

\* What List.concatMap gathered, and what its signature in list.c promises.
Gathered(a) == SubSeq(temp, 1, a.count)
Concatenates(a) == Gathered(a) = FlattenSeq(Values(a))
TotalOf(a) == Len(FlattenSeq(Values(a)))

\* Called by the program's outermost function, with no other concatMap in the
\* runs of its argument and with less than a full buffer (the guard of list.c
\* drops a list that would fill it exactly), List.concatMap returns all the
\* items of all the lists, in order.
ConcatMapConcatenates ==
  Ready("concatMap") /\ NoOtherConcatMap(Top) /\ TotalOf(Top) < TempCapacity => Concatenates(Top)

\* The same, up to a full buffer: items that fit it are not left out.  It does
\* not hold: TLC refutes it in HigherOrder_clobbered.cfg.
ConcatMapFills ==
  Ready("concatMap") /\ NoOtherConcatMap(Top) /\ TotalOf(Top) <= TempCapacity => Concatenates(Top)

\* As ConcatMapConcatenates, where runs of the argument may call it as well.
ConcatMapNests ==
  Ready("concatMap") /\ Depth = 1 /\ TotalOf(Top) < TempCapacity => Concatenates(Top)
=============================================================================
