------------------------------ MODULE Opcodes ------------------------------
(***************************************************************************)
(* What the opcodes of swampRun that do not move control compute, and      *)
(* where those that choose among cases go.  Operands are the values at the *)
(* places of the frame they name; division and wrapping are as in          *)
(* CoreMath.                                                               *)
(***************************************************************************)
EXTENDS Integers, Sequences, CoreMath

CONSTANTS
  WordBits,      \* bits of an integer, 32 in the code
  EnumLimit      \* the tags of custom types are 0 .. EnumLimit - 1, 2^8 in the code

\* The powers of two.
Power[n \in 0 .. WordBits] == IF n = 0 THEN 1 ELSE 2 * Power[n - 1]

ASSUME WordBitsAssumption == WordBits \in Nat \ {0} /\ Half = Power[WordBits - 1]

(***************************************************************************)
(* Opcodes on two integers, the set of ways they may end.                  *)
(***************************************************************************)
Word(a) == a % (2 * Half)
Bits == 0 .. WordBits - 1
Bit(a, k) == (a \div Power[k]) % 2

\* The integer that has these bits, of which the last is its sign.
FromBits(bits) ==
  LET below[k \in 0 .. WordBits] == IF k = 0 THEN 0 ELSE below[k - 1] + bits[k - 1] * Power[k - 1]
  IN  Int32(below[WordBits])
IntAnd(a, b) == FromBits([k \in Bits |-> IF Bit(a, k) = 1 /\ Bit(b, k) = 1 THEN 1 ELSE 0])
IntOr(a, b) == FromBits([k \in Bits |-> IF Bit(a, k) = 1 \/ Bit(b, k) = 1 THEN 1 ELSE 0])
IntXor(a, b) == FromBits([k \in Bits |-> IF Bit(a, k) # Bit(b, k) THEN 1 ELSE 0])

IntDiv(a, b) == IF b = 0 \/ Overflows(a, b) THEN Stopped("fault") ELSE Returned(Quot(a, b))
IntRemainder(a, b) == IF b = 0 \/ Overflows(a, b) THEN Stopped("fault") ELSE Returned(Rem(a, b))

\* Mutant of FixedMul: one factor is scaled down first, and loses its fraction.
FixedMulOfWhole(a, b) == Returned(Int32(Quot(a, FixedFactor) * b))
FixedMul(a, b) == Returned(Quot(Int32(a * b), FixedFactor))
FixedDiv(a, b) == IntDiv(Int32(a * FixedFactor), b)

LeftBy(a, b) == Int32((Word(a) % Power[WordBits - b]) * Power[b])
RightBy(a, b) == a \div Power[b]

\* A shift by a count that is none of 0 .. WordBits - 1 is undefined: the
\* processor takes the count modulo the bits, or shifts all bits out.
ShiftLeft(a, b) ==
  {Returned(LeftBy(a, b % WordBits))}
    \cup IF b \in 0 .. WordBits - 1 THEN {} ELSE {Returned(0)}
ShiftRight(a, b) ==
  {Returned(RightBy(a, b % WordBits))}
    \cup IF b \in 0 .. WordBits - 1 THEN {} ELSE {Returned(IF a < 0 THEN -1 ELSE 0)}

Compared(op, a, b) ==
  CASE op = "equal" -> a = b
    [] op = "notEqual" -> a # b
    [] op = "less" -> a < b
    [] op = "lessOrEqual" -> a <= b
    [] op = "greater" -> a > b
    [] op = "greaterOrEqual" -> a >= b

Products == {"mul", "fixedMul"}
Comparisons == {"equal", "notEqual", "less", "lessOrEqual", "greater", "greaterOrEqual"}
IntOpcodes ==
  {"add", "sub", "div", "fixedDiv", "remainder", "and", "or", "xor", "shiftLeft", "shiftRight"}
    \cup Products \cup Comparisons

IntOpcode(op, a, b) ==
  CASE op = "add" -> {Returned(Int32(a + b))}
    [] op = "sub" -> {Returned(Int32(a - b))}
    [] op = "mul" -> {Returned(Int32(a * b))}
    [] op = "div" -> {IntDiv(a, b)}
    [] op = "remainder" -> {IntRemainder(a, b)}
    [] op = "fixedMul" -> {FixedMul(a, b)}
    [] op = "fixedDiv" -> {FixedDiv(a, b)}
    [] op = "and" -> {Returned(IntAnd(a, b))}
    [] op = "or" -> {Returned(IntOr(a, b))}
    [] op = "xor" -> {Returned(IntXor(a, b))}
    [] op = "shiftLeft" -> ShiftLeft(a, b)
    [] op = "shiftRight" -> ShiftRight(a, b)
    [] OTHER -> {Returned(Compared(op, a, b))}

IntNot(a) == Returned(-a - 1)
IntNegate(a) == Returned(Int32(-a))

(***************************************************************************)
(* Opcodes that make a list, an array or a string of others.  A list keeps *)
(* the size of its items; that of an empty one may be 0.                   *)
(***************************************************************************)
ListOf(size, items) == [size |-> size, items |-> items]

ListCreate(traps, size, items) == Allocated(traps, Len(items), {Returned(ListOf(size, items))})

\* The new item is the first.  Items of another size are an error.
ListConj(traps, list, item, size) ==
  IF traps /\ list.items # << >> /\ list.size # size THEN {Stopped("trap")}
  ELSE Allocated(traps, Len(list.items) + 1, {Returned(ListOf(size, <<item>> \o list.items))})

\* An empty list is left out, whatever the size of its items.
ListAppend(traps, a, b) ==
  CASE a.items # << >> /\ b.items # << >> /\ a.size # b.size -> {Stopped("abort")}
    [] a.items = << >> -> {Returned(b)}
    [] a.items # << >> /\ b.items = << >> -> {Returned(a)}
    [] OTHER -> Allocated(traps, Len(a.items) + Len(b.items),
                          {Returned(ListOf(a.size, a.items \o b.items))})

StringAppend(traps, a, b) == Text(traps, a \o b)

\* As long as each other, and the same up to that length.
StringEqual(a, b) == Len(a) = Len(b) /\ \A i \in 1 .. Len(a) : a[i] = b[i]

(***************************************************************************)
(* Opcodes that write octets of the frame.                                 *)
(***************************************************************************)
FrameWith(frame, at, octets) ==
  [k \in DOMAIN frame |-> IF k - at \in DOMAIN octets THEN octets[k - at] ELSE frame[k]]

\* The tag, and zeros up to the size; no size is one of almost everything.
SetEnum(frame, at, tag, size) ==
  IF size = 0 THEN Stopped("fault")
  ELSE Returned(FrameWith(frame, at, [k \in 1 .. size |-> IF k = 1 THEN tag ELSE 0]))

\* What memcpy makes of octets that overlap is undefined: it moves them, or
\* reads some that it has overwritten.
MemCopy(frame, target, source, range) ==
  LET distance == target - source
      moved == [k \in 1 .. range |-> frame[source + k]]
      repeated == [k \in 1 .. range |-> frame[source + 1 + ((k - 1) % distance)]]
  IN  {Returned(FrameWith(frame, target, moved))}
        \cup IF 0 < distance /\ distance < range THEN {Returned(FrameWith(frame, target, repeated))} ELSE {}

(***************************************************************************)
(* Cases.  A table has an entry [value, offset] for each case, and the     *)
(* code of a case starts offset behind that of the case before it, or, for *)
(* the first, behind the first entry of the table.  Positions count from   *)
(* the start of the table.                                                 *)
(***************************************************************************)
AnyEnum == EnumLimit - 1
EnumEntrySize == 3
IntEntrySize == 6

\* Mutant of CaseStart: the offset is taken from the start of the table.
CaseStartAlone(entries, entrySize, k) == entrySize + entries[k].offset
CaseStart(entries, entrySize, k) ==
  LET start[i \in 0 .. Len(entries)] == IF i = 0 THEN entrySize ELSE start[i - 1] + entries[i].offset
  IN  start[k]

FirstOf(indices) == CHOOSE i \in indices : \A j \in indices : i <= j

\* None that fits: the next opcode is read through a null pointer.
EnumCase(traps, tag, entries) ==
  LET fitting == {k \in DOMAIN entries : entries[k].value \in {tag, AnyEnum}}
  IN  IF fitting = {} THEN AfterError(traps, Stopped("fault"))
      ELSE Returned(CaseStart(entries, EnumEntrySize, FirstOf(fitting)))

\* The default has an entry of its own, without a value, behind the others; a
\* table with no other starts it from a null pointer.
PatternMatchingInt(value, entries, default) ==
  LET fitting == {k \in DOMAIN entries : entries[k].value = value}
  IN  CASE fitting # {} -> Returned(CaseStart(entries, IntEntrySize, FirstOf(fitting)))
        [] fitting = {} /\ entries # << >> ->
             Returned(CaseStart(entries, IntEntrySize, Len(entries)) + default)
        [] OTHER -> Stopped("fault")
=============================================================================
