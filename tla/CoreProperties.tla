--------------------------- MODULE CoreProperties ---------------------------
(***************************************************************************)
(* What the native functions and opcodes promise: properties of CoreCalls, *)
(* each about one library, stated without the definitions they are about.  *)
(***************************************************************************)
EXTENDS CoreCalls

Args == last.args
How == last.outcome.how
Value == last.outcome.value
Called(names) == calls > 0 /\ last.name \in names
Returns(names) == Called(names) /\ How = "returned"

Fits(n) == n \in -Half .. Half - 1
Between(v, a, b) == (a <= v /\ v <= b) \/ (b <= v /\ v <= a)

\* Division by 0 and the one quotient that overflows: the only ways to stop.
DivisionIsRight ==
  /\ Called({"Math.mod", "Math.remainderBy"}) /\ How # "returned" =>
       \/ How = "fault" /\ Args.value = -Half /\ Args.divider = -1
       \/ How = "abort" /\ Args.divider = 0 /\ last.name = "Math.remainderBy"
  /\ Returns({"Math.remainderBy"}) =>
       /\ (Args.value - Value) % Size(Args.divider) = 0
       /\ Size(Value) < Size(Args.divider)
       /\ Value # 0 => (Value < 0) = (Args.value < 0)
  \* A modulus of 0 is 0.  The others are congruent and small, and that of a
  \* positive divider is not negative, unless the sum inside wraps.
  /\ Returns({"Math.mod"}) /\ Size(Args.divider) <= Half \div 2 =>
       IF Args.divider = 0 THEN Value = 0
       ELSE /\ (Args.value - Value) % Size(Args.divider) = 0
            /\ Size(Value) < Size(Args.divider)
            /\ Args.divider > 0 => Value >= 0

\* Results that are off only where a sum or product does not fit.
ArithmeticIsRight ==
  /\ Returns({"Math.abs"}) => Value = Size(Args.a) \/ Args.a = -Half
  /\ Returns({"Math.sign"}) => Value * Size(Args.a) = Args.a
  /\ Returns({"Math.mid"}) /\ Fits(Args.a + Args.b) =>
       Between(Value, Args.a, Args.b) /\ Size(2 * Value - (Args.a + Args.b)) <= 1
  /\ Returns({"Math.clamp"}) /\ Args.min <= Args.max =>
       /\ Args.min <= Value /\ Value <= Args.max
       /\ IF Between(Args.v, Args.min, Args.max) THEN Value = Args.v
          ELSE \A n \in {Args.min, Args.max} : Between(Value, Args.v, n)
  /\ Returns({"Math.lerp"}) =>
       LET change == Args.end - Args.start
       IN  Fits(change) /\ Fits(Args.start * FixedFactor) /\ Fits(Args.t * change)
             /\ Fits(Args.start * FixedFactor + Args.t * change) =>
             /\ Size(Value * FixedFactor
                       - (Args.start * (FixedFactor - Args.t) + Args.end * Args.t)) < FixedFactor
             /\ Args.t >= 0 => Between(Value, Args.start, Args.end)
  \* Frame offset + t of a metronome, if it is not before the first.
  /\ Returns({"Math.metronome"}) /\ Fits(Args.offset + Args.t)
       /\ Args.offset + Args.t >= 0 /\ Args.cycleCount > 0 =>
       Value = ((Args.offset + Args.t) % Args.cycleCount < Args.enableCount)
  /\ Called({"Math.metronome"}) /\ How = "fault" => Args.cycleCount \in {-1, 0}
  /\ Returns({"Int.round"}) => Size(Args.fixed - Value * FixedFactor) < FixedFactor
  /\ Returns({"Int.toFixed"}) /\ Fits(Args.int * FixedFactor) => Value = Args.int * FixedFactor

\* Tangents of 0 .. 47 degrees, in thousandths.
Tangents ==
  <<
    0, 17, 35, 52, 70, 87, 105, 123, 141, 158, 176, 194, 213, 231, 249, 268,
    287, 306, 325, 344, 364, 384, 404, 424, 445, 466, 488, 510, 532, 554, 577,
    601, 625, 649, 675, 700, 727, 754, 781, 810, 839, 869, 900, 933, 966,
    1000, 1036, 1072
  >>
Tangent(degrees) == Tangents[degrees + 1]

\* The angle between two sides is within two degrees of degrees, at most 45.
IsAngle(degrees, opposite, adjacent) ==
  /\ opposite * 1000 <= Tangent(degrees + 2) * adjacent
  /\ degrees > 1 => Tangent(degrees - 2) * adjacent <= opposite * 1000

\* The entry of the table whose part of the turn the angle is in.
IsSine(value, angle) ==
  \E i \in DOMAIN SinTable :
    /\ value = SinTable[i]
    /\ i * FullTurn <= (angle % FullTurn) * SinEntries
    /\ (angle % FullTurn) * SinEntries < (i + 1) * FullTurn

\* A direction of whole degrees, from 0 for x > 0 through 90 for y > 0.
IsDirection(degrees, y, x) ==
  LET toAxis == IF degrees % 180 > 90 THEN 180 - (degrees % 180) ELSE degrees % 180
  IN  /\ degrees \in 0 .. 360
      /\ y > 0 => degrees <= 180
      /\ y < 0 => degrees >= 180
      /\ x > 0 => degrees <= 90 \/ degrees >= 270
      /\ x < 0 => degrees \in 90 .. 270
      /\ IF toAxis <= 45 THEN IsAngle(toAxis, Size(y), Size(x))
         ELSE IsAngle(90 - toAxis, Size(x), Size(y))

\* atan takes both sides in whole degrees, and stops only if both are none.
AnglesAreRight ==
  /\ Called({"Math.sin"}) => IsSine(Value, Args.angle)
  /\ Called({"Math.atan", "Math.atan2"}) =>
       LET y == FixedAngleToDegree(Args.y)
           x == FixedAngleToDegree(Args.x)
       IN  \/ y = 0 /\ x = 0
           \/ /\ How = "returned"
              /\ \E degrees \in 0 .. 360 :
                   Value = DegreeToFixedAngle(degrees) /\ IsDirection(degrees, y, x)

\* Sums and products are right modulo the word, quotients are truncated, and
\* the only ways to stop are those of a division.
IntOpcodesAreRight ==
  /\ Returns({"add"}) => Fits(Value) /\ (Value - (Args.a + Args.b)) % (2 * Half) = 0
  /\ Returns({"sub"}) => Fits(Value) /\ (Value - (Args.a - Args.b)) % (2 * Half) = 0
  /\ Returns({"mul"}) => Fits(Value) /\ (Value - Args.a * Args.b) % (2 * Half) = 0
  /\ Returns({"negate"}) => Fits(Value) /\ (Value + Args.a) % (2 * Half) = 0
  /\ Called(IntOpcodes) /\ How = "fault" =>
       /\ last.name \in {"div", "fixedDiv", "remainder"}
       /\ \/ Args.b = 0
          \/ Args.b = -1 /\ Args.a = -Half /\ last.name # "fixedDiv"
          \/ Args.b = -1 /\ Int32(Args.a * FixedFactor) = -Half /\ last.name = "fixedDiv"
  /\ Returns({"div"}) =>
       /\ Size(Args.a - Value * Args.b) < Size(Args.b)
       /\ Size(Value * Args.b) <= Size(Args.a)
  /\ Returns({"remainder"}) =>
       /\ (Args.a - Value) % Size(Args.b) = 0 /\ Size(Value) < Size(Args.b)
       /\ Value # 0 => (Value < 0) = (Args.a < 0)
  /\ Returns({"fixedMul"}) /\ Fits(Args.a * Args.b) =>
       Size(Args.a * Args.b - Value * FixedFactor) < FixedFactor
  /\ Returns({"fixedDiv"}) /\ Fits(Args.a * FixedFactor) =>
       Size(Args.a * FixedFactor - Value * Args.b) < Size(Args.b)

\* Bit by bit, the sign bit like any other; shifts by less than a word only.
BitsAreRight ==
  /\ Returns({"and"}) => \A k \in Bits : Bit(Value, k) = Bit(Args.a, k) * Bit(Args.b, k)
  /\ Returns({"or"}) =>
       \A k \in Bits : Bit(Value, k) = 1 <=> Bit(Args.a, k) = 1 \/ Bit(Args.b, k) = 1
  /\ Returns({"xor"}) => \A k \in Bits : Bit(Value, k) = (Bit(Args.a, k) + Bit(Args.b, k)) % 2
  /\ Returns({"not"}) => \A k \in Bits : Bit(Value, k) = 1 - Bit(Args.a, k)
  /\ Returns({"shiftLeft"}) /\ Args.b \in Bits =>
       \A k \in Bits : Bit(Value, k) = IF k < Args.b THEN 0 ELSE Bit(Args.a, k - Args.b)
  /\ Returns({"shiftRight"}) /\ Args.b \in Bits =>
       \A k \in Bits : Bit(Value, k) = Bit(Args.a, IF k + Args.b < WordBits THEN k + Args.b ELSE WordBits - 1)

\* What remainderBy, mod, abs, sign, mid, clamp, lerp, metronome, sin, atan,
\* Int.round and Int.toFixed of math.c and int.c and the opcodes on integers
\* return is the mathematical result, or the next one that can be represented,
\* as long as every sum and product on the way fits into an integer, and they
\* stop for the divisions that have no result only.
ScalarsMatch ==
  DivisionIsRight /\ ArithmeticIsRight /\ AnglesAreRight /\ IntOpcodesAreRight /\ BitsAreRight

-----------------------------------------------------------------------------
ListsAreRight ==
  LET items == Args.list
  IN  /\ Returns({"List.head"}) =>
           /\ Value = Nothing <=> items = << >>
           /\ items # << >> => Value = Just(items[1])
      /\ Returns({"List.isEmpty"}) => Value = (items = << >>)
      /\ Returns({"List.length", "Array.length"}) => Value = Cardinality(DOMAIN items)
      /\ Called({"Array.fromList", "Array.toList"}) => Value = items
      /\ Called({"List.range0"}) =>
           CASE Args.length < 0 -> IsStopped(last.outcome)
             [] Args.length \in 0 .. Capacity ->
                  How = "returned" /\ Len(Value) = Args.length /\ \A k \in DOMAIN Value : Value[k] = k - 1
             [] OTHER -> How \in {"trap", "abort"}

\* An item that is found stands for the same thing, and one of the list that
\* is stored as the same word is found; equal strings at two addresses are not.
MembersAreRight ==
  Returns({"List.member"}) =>
    LET same == {i \in DOMAIN Args.list : Meaning[Args.list[i]] = Meaning[Args.data]}
    IN  /\ Value => same # {}
        /\ ~Value => \A i \in same : Args.list[i] # Args.data

\* An index is either one of the array, and what is returned is its item, or
\* answered with Nothing or a panic, and never read.  A grab out of a long array
\* is a panic as well, and so is a place outside that is to be set.
IndicesAreRight ==
  LET valid == Args.index \in 0 .. Len(Args.list) - 1
  IN  /\ Called({"Array.get"}) =>
           Value = IF valid THEN Just(Args.list[Args.index + 1]) ELSE Nothing
      /\ Called({"Array.grab"}) =>
           IF valid /\ Len(Args.list) <= 2048 THEN Value = Args.list[Args.index + 1]
           ELSE How = IF errorTraps THEN "trap" ELSE "notSet"
      /\ Called({"Array.set", "Array.slice"}) /\ ~valid =>
           How = IF errorTraps THEN "trap" ELSE "notSet"

\* Maybe.maybe never takes a Just for Nothing, nor Nothing for a Just if the
\* octets behind its tag are zero.
MaybesAreRight ==
  LET isJust == Args.maybe.tag = 1
  IN  /\ Returns({"Maybe.withDefault"}) =>
           Value = IF isJust THEN Args.maybe.item ELSE Args.default
      /\ Returns({"Maybe.maybe"}) /\ isJust => DOMAIN Value = {"appliedTo"}
      /\ Returns({"Maybe.maybe"}) /\ ~isJust /\ Args.maybe.restIsZero =>
           DOMAIN Value = {"default"}

\* The opcodes keep the items, their order and their size, whichever of the
\* lists is an empty one of no size; they stop for want of memory, or if the
\* sizes of two lists differ, and nothing is put before items of another size
\* where errors trap.
MadeOfOthers ==
  /\ Returns({"listCreate", "arrayCreate"}) => Value = Args.list
  /\ Returns({"listConj"}) =>
       /\ Value.size = Args.size /\ Head(Value.items) = Args.item /\ Tail(Value.items) = Args.list.items
       /\ errorTraps /\ Args.list.items # << >> => Args.list.size = Args.size
  /\ Returns({"listAppend"}) =>
       /\ Value.items = Args.a.items \o Args.b.items
       /\ \A list \in {Args.a, Args.b} : list.items # << >> => Value.size = list.size
  /\ Called({"listAppend"}) /\ How # "returned" =>
       \/ Args.a.size # Args.b.size
       \/ Len(Args.a.items) + Len(Args.b.items) > Capacity
  /\ Returns({"stringAppend"}) => Value = Args.a \o Args.b
  /\ Returns({"stringEqual"}) => Value = (Args.a = Args.b)

\* A value of a custom type is its tag and zeros, and a copy is what was there
\* before unless the two places overlap; the rest of the frame is as it was.
FramesAreKept ==
  LET Outside(at, size) == DOMAIN Args.frame \ (at + 1 .. at + size)
  IN  /\ Returns({"setEnum"}) =>
           /\ \A k \in Outside(Args.at, Args.size) : Value[k] = Args.frame[k]
           /\ SubSeq(Value, Args.at + 1, Args.at + Args.size)
                = [k \in 1 .. Args.size |-> IF k = 1 THEN Args.tag ELSE 0]
      /\ Returns({"memCopy"}) =>
           /\ \A k \in Outside(Args.target, Args.range) : Value[k] = Args.frame[k]
           /\ Size(Args.target - Args.source) >= Args.range =>
                SubSeq(Value, Args.target + 1, Args.target + Args.range)
                  = SubSeq(Args.frame, Args.source + 1, Args.source + Args.range)

\* head, isEmpty, length, range0 and member of list.c, fromList, toList, length,
\* get and grab of array.c and withDefault of maybe.c return what their types
\* and names say, and the opcodes that make values of others keep those.
CollectionsMatch ==
  /\ ListsAreRight /\ MembersAreRight /\ IndicesAreRight /\ MaybesAreRight
  /\ MadeOfOthers /\ FramesAreKept

-----------------------------------------------------------------------------
\* The entries that say where an opcode comes from: no other with a place is
\* between them and the opcode.
IsPlaceOf(i, lines, position) ==
  LET HasPlace(k) == lines[k].line # 0 /\ lines[k].column # 0 /\ lines[k].at <= position
  IN  IF i = 0 THEN \A k \in DOMAIN lines : ~HasPlace(k)
      ELSE HasPlace(i) /\ \A k \in DOMAIN lines : HasPlace(k) => k <= i

\* Positions are 16 bits: behind them, the places of the first opcodes are found.
PlacesAreRight ==
  /\ Called({"singleLine"}) /\ Args.frame.pc < PositionLimit =>
       LET lines == Args.frame.lines
       IN  CASE Value.kind = "nothing" -> IsPlaceOf(0, lines, Args.frame.pc)
             [] Value.kind = "place" ->
                  /\ IsPlaceOf(Value.entry, lines, Args.frame.pc)
                  /\ lines[Value.entry].file < Args.files
             [] OTHER -> \E i \in DOMAIN lines :
                           IsPlaceOf(i, lines, Args.frame.pc) /\ lines[i].file >= Args.files
  \* A panic shows each context, from the running one, up to the first that
  \* has no place; a place in a file that is not known is left out.
  /\ Called({"backtrace"}) /\ Args.frames[1].pc < PositionLimit =>
       \A k \in 1 .. Len(Args.frames) :
         LET lines == Args.frames[k].lines
             Unplaced(j) == IsPlaceOf(0, Args.frames[j].lines, Args.frames[j].pc)
             shown == {t \in DOMAIN Value : Value[t].context = k /\ Value[t].kind \in {"place", "nothing"}}
         IN  IF \E j \in 1 .. k - 1 : Unplaced(j) THEN \A t \in DOMAIN Value : Value[t].context < k
             ELSE \/ \E t \in shown : shown = {t} /\ IsPlaceOf(Value[t].entry, lines, Args.frames[k].pc)
                  \/ shown = {} /\ \E i \in DOMAIN lines :
                       IsPlaceOf(i, lines, Args.frames[k].pc) /\ lines[i].file >= Args.files

\* The variables of each frame in the order of the table, all of those that are
\* alive behind the opcode, or nothing of any frame if there are too many.
VariablesAreRight ==
  Called({"variables"}) /\ Args.frames[1].pc < PositionLimit =>
    LET Alive(f) == {i \in DOMAIN f.variables : f.pc \in f.variables[i].start + 1 .. f.variables[i].end}
    IN  IF \E k \in DOMAIN Args.frames : Cardinality(Alive(Args.frames[k])) > MaxEntries
        THEN Value = << >>
        ELSE \A k \in DOMAIN Args.frames :
               /\ Range(Value[k]) = Alive(Args.frames[k])
               /\ \A i, j \in DOMAIN Value[k] : i < j => Value[k][i] < Value[k][j]

\* A case starts where the compiler put the code of the first case that fits,
\* or, for integers, of the default; without one the process stops, also for
\* integers if there is nothing but the default.
CasesAreRight ==
  LET cases == Args.cases
      fits == {k \in DOMAIN cases : cases[k].value = Args.value
                                     \/ (last.name = "enumCase" /\ cases[k].value = EnumLimit - 1)}
      Lands(k) == How = "returned" /\ Value = cases[k].at
      byValue == {k \in fits : k < Len(cases)}
  IN  /\ Called({"enumCase"}) =>
           IF fits = {} THEN How = IF errorTraps THEN "trap" ELSE "fault"
           ELSE Lands(Min(fits))
      /\ Called({"intCase"}) =>
           IF Len(cases) = 1 THEN How = "fault"
           ELSE Lands(IF byValue = {} THEN Len(cases) ELSE Min(byValue))

\* A Debug.log while predicting does nothing, whatever it is given.
LogsAreRight == Called({"Debug.log"}) /\ Args.predicting => How = "returned"

\* The lookups show the place and the variables of the opcodes they are asked
\* about, and find the case of a value.
LookupsMatch == PlacesAreRight /\ VariablesAreRight /\ CasesAreRight /\ LogsAreRight

-----------------------------------------------------------------------------
\* Rows and columns of octets that are whole rows.
IsWhole(octets, size) == size.width > 0 /\ size.height >= 0 /\ Len(octets) = size.width * size.height
Pixel(octets, width, x, y) == octets[y * width + x + 1]
InArea(x, y, position, part) ==
  /\ position.x <= x /\ x < position.x + part.width
  /\ position.y <= y /\ y < position.y + part.height
OnFrame(x, y, position, part) ==
  /\ InArea(x, y, position, part)
  /\ \/ x \in {position.x, position.x + part.width - 1}
     \/ y \in {position.y, position.y + part.height - 1}
LiesIn(position, part, size) ==
  /\ position.x >= 0 /\ position.y >= 0 /\ part.width > 0 /\ part.height > 0
  /\ position.x + part.width <= size.width /\ position.y + part.height <= size.height

Painting == {"Blob.fill2d!", "Blob.drawWindow2d!", "Blob.copy2d!"}

\* A call that writes a blob leaves octets, and all others alone.  If the dimensions are
\* those of the blob, and the area lies in it, the call returns and changes no
\* octet outside the area, and in it fills, draws the frame or copies row for
\* row, unless the blob is copied onto itself.  In a build where errors trap,
\* it stops with a fault only for dimensions that are not the blob's, or for
\* an area with a side below 1 or so long that the sum with the position wraps.
PaintsTheArea ==
  Called(Painting) =>
    LET was == Args.was[Args.target]
        now == blobs[Args.target]
        Was(x, y) == Pixel(was, Args.size.width, x, y)
        Now(x, y) == Pixel(now, Args.size.width, x, y)
        Source(x, y) == Pixel(Args.was[Args.source], Args.part.width, x - Args.position.x, y - Args.position.y)
        sourceIsWhole == last.name = "Blob.copy2d!" => IsWhole(Args.was[Args.source], Args.part)
    IN  /\ Len(blobs) = Len(Args.was) /\ Len(now) = Len(was) /\ Range(now) \subseteq 0 .. OctetLimit - 1
        /\ \A b \in DOMAIN blobs \ {Args.target} : blobs[b] = Args.was[b]
        /\ How # "returned" => now = was
        /\ IsWhole(was, Args.size) /\ LiesIn(Args.position, Args.part, Args.size) /\ sourceIsWhole =>
             /\ How = "returned"
             /\ \A x \in 0 .. Args.size.width - 1, y \in 0 .. Args.size.height - 1 :
                  IF ~InArea(x, y, Args.position, Args.part) THEN Now(x, y) = Was(x, y)
                  ELSE CASE last.name = "Blob.fill2d!" -> Now(x, y) = Args.value % OctetLimit
                         [] last.name = "Blob.drawWindow2d!" ->
                              IF OnFrame(x, y, Args.position, Args.part) THEN Now(x, y) \in {Plus, Minus, Bar}
                              ELSE Now(x, y) = Was(x, y)
                         [] OTHER -> Args.source # Args.target => Now(x, y) = Source(x, y)
        /\ errorTraps /\ How = "fault" =>
             \/ ~IsWhole(was, Args.size) \/ ~sourceIsWhole
             \/ Args.part.width < 1 \/ Args.part.height < 1
             \/ ~Fits(Args.position.x + Args.part.width) \/ ~Fits(Args.position.y + Args.part.height)

\* What is read out of a blob is what is in it: get2d is the octet of a place in
\* it or Nothing, a slice of whole rows has the octets of its area, and shown
\* rows those of the blob.  Slicing a blob by its own dimensions never faults
\* where errors trap, unless a side is negative or so long that the sum with the
\* position wraps.
BlobsReadBack ==
  /\ Called({"Blob.get2d"}) /\ IsWhole(Args.blob, Args.size) =>
       Value = IF LiesIn(Args.position, [width |-> 1, height |-> 1], Args.size)
               THEN Just(Pixel(Args.blob, Args.size.width, Args.position.x, Args.position.y))
               ELSE Nothing
  /\ Called({"Blob.slice2d"}) /\ IsWhole(Args.blob, Args.blobSize) =>
       /\ LiesIn(Args.pos, Args.size, Args.blobSize) =>
            /\ How = "returned" /\ IsWhole(Value, Args.size)
            /\ \A x \in 0 .. Args.size.width - 1, y \in 0 .. Args.size.height - 1 :
                 Pixel(Value, Args.size.width, x, y)
                   = Pixel(Args.blob, Args.blobSize.width, Args.pos.x + x, Args.pos.y + y)
       /\ errorTraps /\ How = "fault" =>
            \/ Args.size.width < 0 \/ Args.size.height < 0
            \/ ~Fits(Args.pos.x + Args.size.width) \/ ~Fits(Args.pos.y + Args.size.height)
  /\ Returns({"Blob.toString2d"}) /\ IsWhole(Args.blob, Args.size) =>
       \A x \in 0 .. Args.size.width - 1, y \in 0 .. Args.size.height - 1 :
         LET octet == Pixel(Args.blob, Args.size.width, x, y)
         IN  Value[y * (Args.size.width + 1) + x + 2] = IF octet < 32 THEN Dot ELSE octet
  /\ Returns({"Blob.member"}) => Value = (Args.rune % OctetLimit \in Range(Args.blob))
  /\ Returns({"Blob.fromList", "Blob.fromArray"}) =>
       Len(Value) = Len(Args.list) /\ \A i \in DOMAIN Value : (Value[i] - Args.list[i]) % OctetLimit = 0
\* A call on a blob writes and reads what its name says.
BlobsMatch == PaintsTheArea /\ BlobsReadBack

-----------------------------------------------------------------------------
\* Parameters where the compiler puts them: behind the result and each other,
\* as close as their alignments allow.
IsFrame(func, at) ==
  /\ DOMAIN at = DOMAIN func.params
  /\ \A i \in DOMAIN at :
       LET end == IF i = 1 THEN func.returns.size ELSE at[i - 1] + func.params[i - 1].size
       IN  /\ at[i] % func.params[i].align = 0
           /\ end <= at[i] /\ at[i] < end + func.params[i].align

\* A function that a native one runs finds its arguments, those of a closure
\* too, where it expects them, with all of their octets, and as much of its
\* result is taken as there is.  Maybe.maybe gets this wrong if the argument
\* has to be aligned, foldlstop if the item needs more alignment than the size
\* of the result gives it.  Only foldlstop faults, for a closure or if the item
\* and the accumulator with a tag are longer than 32 octets; the functions
\* that do not run a closure are two of Blob.
ArgumentsArrive ==
  Called({"frame"}) =>
    LET func == Args.func
        count == Len(func.params)
        item == func.params[1]
        isStop == Args.by = "List.foldlstop"
    IN  /\ How = "returned" =>
             /\ IsFrame(func, Value.at) <=>
                  CASE Args.by = "Maybe.maybe" -> Value.at[count] % func.params[count].align = 0
                    [] isStop -> func.returns.size % item.align = 0
                    [] OTHER -> TRUE
             /\ Value.at[count] + func.params[count].size <= Value.end
             /\ Value.result = func.returns.size
        /\ How = "fault" =>
             isStop /\ (Args.closure \/ item.size + func.returns.size > 32)
        /\ How = "notSet" => Args.closure /\ Args.by \in {"Blob.mapToBlob", "Blob.any"}

-----------------------------------------------------------------------------
(***************************************************************************)
(* What comments and signatures of the code say of single calls and the    *)
(* code does not do.  None of these holds: TLC refutes each as the         *)
(* invariant of Core_calls.cfg.  The properties above do not speak of what *)
(* these are about.                                                        *)
(***************************************************************************)
\* "Euclidean modulus. Always returns positive results", for negative dividers
\* as well (math.c:260).  The code adds the divider to the remainder.
ModulusIsNotNegative == Returns({"Math.mod"}) => Value >= 0

\* The cosine of an angle is the sine of one a quarter turn on, as the name of
\* the constant that is added says (math.c:150).
CosineIsAQuarterTurnOn ==
  LET turned == Args.angle + FullTurn \div 4
  IN  Called({"Math.cos"}) /\ Fits(turned) => IsSine(Value, turned)

\* "tail : List a -> Maybe (List a)" (list.c:31): what it returns of a list is
\* a list, and no item.
TailIsAList == Returns({"List.tail"}) => Value \notin {Just(item) : item \in Range(Args.list)}

\* "range : Int -> Int -> List Int" (list.c:57): the integers from the first to
\* the last, if there is room for them.
RangeHasItsItems ==
  LET count == Args.end - Args.start + 1
  IN  Called({"List.range"}) /\ Args.start >= 0 /\ count \in 1 .. Capacity =>
        How = "returned" /\ Value = [k \in 1 .. count |-> Args.start + k - 1]

\* "repeat : Int -> a -> Array a" (array.c:35): an array of that many items.
RepeatIsAnArray ==
  Called({"Array.repeat"}) /\ Args.index \in 0 .. Capacity => Len(Value) = Args.index

\* "set : Int -> a -> Array a -> Array a" and "slice : Int -> Int -> Array a ->
\* Array a" (array.c:85, 98): for an index of the array there is a result.
SetHasAResult ==
  Called({"Array.set", "Array.slice"}) /\ Args.index \in 0 .. Len(Args.list) - 1 => How = "returned"

\* "maybe : b -> (a -> b) -> Maybe a -> b" (maybe.c:90): the default for Nothing,
\* and what the function makes of its item for a Just.
MaybeIsDecided ==
  Returns({"Maybe.maybe"}) =>
    Value = IF Args.maybe.tag = 0 THEN [default |-> Args.default] ELSE [appliedTo |-> Args.maybe.item]
=============================================================================
