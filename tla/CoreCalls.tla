----------------------------- MODULE CoreCalls -----------------------------
(***************************************************************************)
(* Calls of the native functions of lib/core that run no function          *)
(* argument, by the names a package binds them with, and of the opcodes    *)
(* that compute; and the frames the others make for the functions they     *)
(* run.  Only calls on blobs read and write a state that a later call can  *)
(* see, so a behaviour calls the functions of one library: one function,   *)
(* or as many as MaxCalls on the blobs it has.  What they compute is in    *)
(* CoreMath, CoreCollections, CoreBlob, DebugInfo, Opcodes and Frames.     *)
(***************************************************************************)
EXTENDS CoreMath, CoreCollections, CoreBlob, DebugInfo, Opcodes, Frames

CONSTANTS
  Ints, Angles, Words, Lists, Maybes,     \* inputs of functions of the kind
  Positions, Dimensions, Sizes, FillValues, \* inputs of the functions on blobs
  LineTables, FileCounts, VariableTables, Positions16,  \* inputs of the lookups
  Factors, Strings, SizedLists,         \* inputs of the opcodes
  FirstFrames, Tags, EnumTables, IntTables,
  Types,         \* of the items and results of functions that are run
  Meaning,       \* what an item that is stored as a word stands for
  FirstBlobs,    \* the blobs of a program at first
  MaxCalls       \* bound on the calls on blobs

Octets == 0 .. OctetLimit - 1

\* Integers have their width, a table of lines is in the order of the opcodes
\* they are about, and the size of a type is a multiple of its alignment.
ASSUME InputsAssumption ==
  /\ Ints \cup Angles \cup FillValues \subseteq Integers32
  /\ Words \subseteq Int /\ Lists \subseteq Seq(Words)
  /\ Maybes \subseteq [tag : {0, 1}, restIsZero : BOOLEAN, item : Words, beyond : Words]
  /\ Positions \subseteq [x : Integers32, y : Integers32]
  /\ Dimensions \cup Sizes \subseteq [width : Integers32, height : Integers32]
  /\ FirstBlobs \subseteq Seq(Seq(Octets))
  /\ \A first \in FirstBlobs : \A b \in DOMAIN first : Len(first[b]) <= Capacity
  /\ MaxCalls \in Nat

ASSUME TablesAssumption ==
  /\ LineTables \subseteq Seq([at : Nat, file : Nat, line : Nat, column : Nat])
  /\ \A lines \in LineTables : \A i, j \in DOMAIN lines : i <= j => lines[i].at <= lines[j].at
  /\ FileCounts \cup Positions16 \subseteq Nat
  /\ VariableTables \subseteq Seq([start : Nat, end : Nat])
  /\ EnumTables \subseteq Seq([value : Nat, at : Nat]) /\ Tags \subseteq Nat
  /\ IntTables \subseteq Seq([value : Integers32, at : Nat]) \ {<< >>}

ASSUME ValuesAssumption ==
  /\ Strings \subseteq Seq(Nat) /\ FirstFrames \subseteq Seq(Int)
  /\ SizedLists \subseteq [size : Nat, items : Seq(Words)]
  /\ Types \subseteq [size : Nat, align : {1, 2, 4, 8}]
  /\ \A type \in Types : type.size % type.align = 0

VARIABLES
  library,       \* whose functions the behaviour calls
  errorTraps,    \* whether CLOG_ERROR and CLOG_BREAK stop the process in this build
  status,        \* "running", or how the process stopped
  blobs,         \* the octets of each blob, oldest first
  last,          \* the last call: name, arguments, how it ended
  calls          \* how many there were

vars == <<library, errorTraps, status, blobs, last, calls>>

\* The compiler lays the code of the cases out behind each other.
Encoded(table, entrySize) ==
  [i \in DOMAIN table |->
     [value |-> table[i].value,
      offset |-> table[i].at - IF i = 1 THEN entrySize ELSE table[i - 1].at]]

Frame(lines, variables, pc, named) ==
  [lines |-> lines, variables |-> variables, pc |-> pc, named |-> named]

-----------------------------------------------------------------------------
Init ==
  /\ library \in {"scalars", "collections", "lookups", "opcodes", "frames", "blobs"}
  /\ errorTraps \in BOOLEAN
  /\ status = "running"
  /\ blobs \in FirstBlobs
  /\ last = [name |-> ""]
  /\ calls = 0

Ends(name, args, outcome) ==
  /\ last' = [name |-> name, args |-> args, outcome |-> outcome]
  /\ status' = IF IsStopped(outcome) THEN outcome.how ELSE "running"
  /\ UNCHANGED <<library, errorTraps>>

\* A call that is the only one of its behaviour.
IsFirst == status = "running" /\ calls = 0
Calls(name, args, outcomes) ==
  /\ \E outcome \in outcomes : Ends(name, args, outcome)
  /\ calls' = MaxCalls
  /\ UNCHANGED blobs

-----------------------------------------------------------------------------
\* Math, Int and Char.
CallRemainderBy == \E divider, value \in Ints :
  Calls("Math.remainderBy", [divider |-> divider, value |-> value], {RemainderBy(divider, value)})
CallMod == \E divider, value \in Ints :
  Calls("Math.mod", [divider |-> divider, value |-> value], {Mod(divider, value)})
CallAbs == \E a \in Ints : Calls("Math.abs", [a |-> a], {Abs(a)})
CallSign == \E a \in Ints : Calls("Math.sign", [a |-> a], {Sign(a)})
CallMid == \E a, b \in Ints : Calls("Math.mid", [a |-> a, b |-> b], {Mid(a, b)})
CallClamp == \E min, max, v \in Ints :
  Calls("Math.clamp", [min |-> min, max |-> max, v |-> v], {Clamp(min, max, v)})
CallLerp == \E t, start, end \in Ints :
  /\ -FixedFactor <= t /\ t <= FixedFactor
  /\ Calls("Math.lerp", [t |-> t, start |-> start, end |-> end], {Lerp(t, start, end)})
CallMetronome == \E t, cycleCount, enableCount \in Ints, offset \in {0, 1} :
  Calls("Math.metronome",
        [t |-> t, cycleCount |-> cycleCount, enableCount |-> enableCount, offset |-> offset],
        {Metronome(t, cycleCount, enableCount, offset)})
CallDrunk == \E t, value, delta \in {0, 1} :
  Calls("Math.drunk", [t |-> t, value |-> value, delta |-> delta], {RandomDelta(t, value, delta)})
CallRnd == \E basis, modulus \in {-1, 0, 1} :
  Calls("Math.rnd", [basis |-> basis, modulus |-> modulus], {Rnd(basis, modulus)})
CallSin == \E angle \in Angles : Calls("Math.sin", [angle |-> angle], {Sin(angle)})
CallCos == \E angle \in Angles : Calls("Math.cos", [angle |-> angle], {Cos(angle)})
CallATan == \E name \in {"Math.atan", "Math.atan2"}, y, x \in Angles :
  Calls(name, [y |-> y, x |-> x], {ATan(y, x)})
CallRound == \E fixed \in Ints : Calls("Int.round", [fixed |-> fixed], {IntRound(fixed)})
CallToFixed == \E int \in Ints : Calls("Int.toFixed", [int |-> int], {IntToFixed(int)})
CallCharCode == \E name \in {"Char.fromCode", "Char.toCode", "Char.ord"}, code \in Ints :
  Calls(name, [code |-> code], {SameCode(code)})

CallScalar ==
  /\ library = "scalars" /\ IsFirst
  /\ \/ CallRemainderBy \/ CallMod \/ CallAbs \/ CallSign \/ CallMid \/ CallClamp \/ CallLerp
     \/ CallMetronome \/ CallDrunk \/ CallRnd \/ CallSin \/ CallCos \/ CallATan
     \/ CallRound \/ CallToFixed \/ CallCharCode

-----------------------------------------------------------------------------
\* List, Array and Maybe.
CallHead == \E list \in Lists : Calls("List.head", [list |-> list], {ListHead(list)})
CallTail == \E list \in Lists : Calls("List.tail", [list |-> list], {ListTail(list)})
CallIsEmpty == \E list \in Lists : Calls("List.isEmpty", [list |-> list], {ListIsEmpty(list)})
CallLength == \E name \in {"List.length", "Array.length"}, list \in Lists :
  Calls(name, [list |-> list], {Length(list)})
CallMember == \E data \in Words, list \in Lists :
  Calls("List.member", [data |-> data, list |-> list], {ListMember(data, list)})
CallRange == \E start, end \in Ints :
  Calls("List.range", [start |-> start, end |-> end], ListRange(errorTraps, start, end))
CallRange0 == \E length \in Ints :
  Calls("List.range0", [length |-> length], ListRange0(errorTraps, length))
CallFilterMap == Calls("List.filterMap", [none |-> 0], {ListFilterMap(errorTraps)})
CallSame == \E name \in {"Array.fromList", "Array.toList"}, list \in Lists :
  Calls(name, [list |-> list], {Same(list)})
CallGet == \E name \in {"Array.get", "Array.repeat"}, index \in Ints, list \in Lists :
  Calls(name, [index |-> index, list |-> list], {ArrayGet(index, list)})
CallGrab == \E index \in Ints, list \in Lists :
  Calls("Array.grab", [index |-> index, list |-> list], {ArrayGrab(errorTraps, index, list)})
CallSet == \E name \in {"Array.set", "Array.slice"}, index \in Ints, list \in Lists :
  Calls(name, [index |-> index, list |-> list], {ArraySet(errorTraps, index, list)})
CallWithDefault == \E default \in Words, maybe \in Maybes :
  Calls("Maybe.withDefault", [default |-> default, maybe |-> maybe], {MaybeWithDefault(default, maybe)})
CallMaybe == \E default \in Words, maybe \in Maybes :
  Calls("Maybe.maybe", [default |-> default, maybe |-> maybe], {MaybeMaybe(default, maybe)})

CallCollection ==
  /\ library = "collections" /\ IsFirst
  /\ \/ CallHead \/ CallTail \/ CallIsEmpty \/ CallLength \/ CallMember \/ CallRange \/ CallRange0
     \/ CallFilterMap \/ CallSame \/ CallGet \/ CallGrab \/ CallSet \/ CallWithDefault \/ CallMaybe

-----------------------------------------------------------------------------
\* The lookups of a place and of variables, and Debug.
CallSingleLine == \E lines \in LineTables, files \in FileCounts, pc \in Positions16 :
  LET frame == Frame(lines, << >>, pc, FALSE)
  IN  Calls("singleLine", [frame |-> frame, files |-> files], {Returned(SingleLine(frame, files))})
CallBacktrace == \E inner, outer \in LineTables, files \in FileCounts,
                    pc \in Positions16, named \in BOOLEAN :
  LET frames == <<Frame(inner, << >>, pc, FALSE), Frame(outer, << >>, 1, named)>>
  IN  Calls("backtrace", [frames |-> frames, files |-> files],
            {Returned(AsString(LinesToString(frames, files)))})
CallVariables == \E inner, outer \in VariableTables, pc \in Positions16 :
  LET frames == <<Frame(<< >>, inner, pc, FALSE), Frame(<< >>, outer, 1, FALSE)>>
  IN  Calls("variables", [frames |-> frames], {Returned(VariablesToString(frames))})
CallLog == \E predicting, isTuple \in BOOLEAN, dumped \in {-1, 0, 1} :
  Calls("Debug.log", [predicting |-> predicting, isTuple |-> isTuple, dumped |-> dumped],
        {DebugLog(errorTraps, predicting, isTuple, dumped)})
CallPanic == Calls("Debug.panic", [none |-> 0], {DebugPanic(errorTraps)})

CallLookup ==
  /\ library = "lookups" /\ IsFirst
  /\ CallSingleLine \/ CallBacktrace \/ CallVariables \/ CallLog \/ CallPanic

-----------------------------------------------------------------------------
\* Blobs.  A call on one of them, `args` say which.
CanCallBlob == status = "running" /\ calls < MaxCalls

\* A blob is made, at the end of the sequence.
Makes(name, args, outcomes) ==
  /\ calls' = calls + 1
  /\ \E outcome \in outcomes :
       /\ Ends(name, args, outcome)
       /\ blobs' = IF IsReturned(outcome) THEN Append(blobs, outcome.value) ELSE blobs

Reads(name, args, outcomes) ==
  /\ calls' = calls + 1
  /\ \E outcome \in outcomes : Ends(name, args, outcome)
  /\ UNCHANGED blobs

\* The blob args.target is written in place; args.was is what the blobs held before.
Paints(name, args, outcomes) ==
  /\ calls' = calls + 1
  /\ \E outcome \in outcomes :
       /\ Ends(name, args, outcome)
       /\ blobs' = IF IsReturned(outcome) THEN [blobs EXCEPT ![args.target] = outcome.value] ELSE blobs

CallMake == \E count \in Ints : Makes("Blob.make", [count |-> count], BlobMake(errorTraps, count))
CallBlobFrom == \E name \in {"Blob.fromArray", "Blob.fromList"}, list \in Lists, sized \in BOOLEAN :
  /\ list # << >> => sized
  /\ Makes(name, [list |-> list, sized |-> sized], BlobFrom(errorTraps, list, sized))
CallSlice2d == \E b \in DOMAIN blobs, pos \in Positions, blobSize \in Dimensions, size \in Sizes :
  Makes("Blob.slice2d", [blob |-> blobs[b], pos |-> pos, blobSize |-> blobSize, size |-> size],
        BlobSlice2d(errorTraps, pos, blobSize, size, blobs[b]))
CallGet2d == \E b \in DOMAIN blobs, position \in Positions, size \in Dimensions :
  Reads("Blob.get2d", [blob |-> blobs[b], position |-> position, size |-> size],
        {BlobGet2d(position, size, blobs[b])})
CallBlobMember == \E b \in DOMAIN blobs, rune \in Ints :
  Reads("Blob.member", [blob |-> blobs[b], rune |-> rune], {BlobMember(rune, blobs[b])})
CallToString2d == \E b \in DOMAIN blobs, size \in Sizes :
  Reads("Blob.toString2d", [blob |-> blobs[b], size |-> size], BlobToString2d(errorTraps, size, blobs[b]))
CallFill2d == \E b \in DOMAIN blobs, position \in Positions,
                 size \in Dimensions, part \in Sizes, value \in FillValues :
  Paints("Blob.fill2d!",
         [target |-> b, was |-> blobs, position |-> position, size |-> size, part |-> part, value |-> value],
         {BlobFill2d(errorTraps, position, size, value, part, blobs[b])})
CallDrawWindow2d == \E b \in DOMAIN blobs, position \in Positions, size \in Dimensions, part \in Sizes :
  Paints("Blob.drawWindow2d!",
         [target |-> b, was |-> blobs, position |-> position, size |-> size, part |-> part],
         {BlobDrawWindow2d(errorTraps, position, size, part, blobs[b])})
CallCopy2d == \E b, source \in DOMAIN blobs, position \in Positions, size \in Dimensions, part \in Sizes :
  Paints("Blob.copy2d!",
         [target |-> b, was |-> blobs, position |-> position, size |-> size, part |-> part, source |-> source],
         BlobCopy2d(errorTraps, position, size, part, blobs[source], blobs[b], source = b))

CallBlob ==
  /\ library = "blobs" /\ CanCallBlob
  /\ \/ CallMake \/ CallBlobFrom \/ CallSlice2d \/ CallGet2d \/ CallBlobMember \/ CallToString2d
     \/ CallFill2d \/ CallDrawWindow2d \/ CallCopy2d

-----------------------------------------------------------------------------
\* The opcodes that compute.
CallInt == \E op \in IntOpcodes, a, b \in Ints :
  /\ op \in Products => a \in Factors /\ b \in Factors
  /\ Calls(op, [a |-> a, b |-> b], IntOpcode(op, a, b))
CallNot == \E a \in Ints : Calls("not", [a |-> a], {IntNot(a)})
CallNegate == \E a \in Ints : Calls("negate", [a |-> a], {IntNegate(a)})
CallListCreate == \E name \in {"listCreate", "arrayCreate"}, list \in SizedLists :
  Calls(name, [list |-> list], ListCreate(errorTraps, list.size, list.items))
\* Where the error for items of another size is only logged, the octets of the
\* list would be those of other items: there the compiler, which gives the items
\* of a list one type, is relied on.
CallListConj == \E list \in SizedLists, item \in Words, size \in {4, 8} :
  /\ ~errorTraps /\ list.items # << >> => list.size = size
  /\ Calls("listConj", [list |-> list, item |-> item, size |-> size],
           ListConj(errorTraps, list, item, size))
CallListAppend == \E a, b \in SizedLists :
  Calls("listAppend", [a |-> a, b |-> b], ListAppend(errorTraps, a, b))
CallStringAppend == \E a, b \in Strings :
  Calls("stringAppend", [a |-> a, b |-> b], StringAppend(errorTraps, a, b))
CallStringEqual == \E a, b \in Strings :
  Calls("stringEqual", [a |-> a, b |-> b], {Returned(StringEqual(a, b))})
CallSetEnum == \E frame \in FirstFrames, tag \in Tags :
  \E at \in 0 .. Len(frame) - 1 : \E size \in 0 .. Len(frame) - at :
    Calls("setEnum", [frame |-> frame, at |-> at, tag |-> tag, size |-> size],
          {SetEnum(frame, at, tag, size)})
CallMemCopy == \E frame \in FirstFrames :
  \E target, source \in 0 .. Len(frame) - 1 :
    \E range \in 0 .. Len(frame) - (IF target > source THEN target ELSE source) :
      Calls("memCopy", [frame |-> frame, target |-> target, source |-> source, range |-> range],
            MemCopy(frame, target, source, range))
CallEnumCase == \E table \in EnumTables, tag \in Tags :
  Calls("enumCase", [cases |-> table, value |-> tag],
        {EnumCase(errorTraps, tag, Encoded(table, EnumEntrySize))})
CallIntCase == \E table \in IntTables, value \in Ints :
  LET offsets == Encoded(table, IntEntrySize)
      end == Len(table)
  IN  Calls("intCase", [cases |-> table, value |-> value],
            {PatternMatchingInt(value, SubSeq(offsets, 1, end - 1), offsets[end].offset)})

CallOpcode ==
  /\ library = "opcodes" /\ IsFirst
  /\ \/ CallInt \/ CallNot \/ CallNegate \/ CallListCreate \/ CallListConj \/ CallListAppend
     \/ CallStringAppend \/ CallStringEqual \/ CallSetEnum \/ CallMemCopy \/ CallEnumCase \/ CallIntCase

-----------------------------------------------------------------------------
\* A native function makes the frame of a function it was given.
CallLaysOut ==
  /\ library = "frames" /\ IsFirst
  /\ \E name \in FrameFunctions, a, b, first \in Types, closure \in BOOLEAN :
       LET func == [returns |-> ReturnOf(name, a, b),
                    params |-> (IF closure THEN <<first>> ELSE << >>) \o ArgumentsOf(name, a, b)]
       IN  /\ closure \/ first = a
           /\ Calls("frame", [by |-> name, func |-> func, closure |-> closure],
                    {LaysOut(name, func, closure)})

Next == CallScalar \/ CallCollection \/ CallLookup \/ CallOpcode \/ CallLaysOut \/ CallBlob
Spec == Init /\ [][Next]_vars
=============================================================================
