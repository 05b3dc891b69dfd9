------------------------------ MODULE CoreMath ------------------------------
(***************************************************************************)
(* The functions of lib/core/math.c, int.c and char.c, which compute on    *)
(* one to four integers of 32 bits.  Division truncates.  Fixed point      *)
(* numbers are integers, FixedFactor to the unit, and angles are fixed     *)
(* point radians.                                                          *)
(***************************************************************************)
EXTENDS Integers, Outcomes

CONSTANTS
  SinTable,      \* the 256 sines sinf gives for a turn, in thousandths
  Noise(_)       \* pseudoRandom: 31 bits that depend on its argument alone

FixedFactor == 1000
FullTurn == 6280
Degrees == 360
SinEntries == 256

ASSUME SinTableAssumption == SinTable \in [0 .. SinEntries - 1 -> Int]

Size(n) == IF n < 0 THEN -n ELSE n

\* Division and remainder of C99.
Quot(a, b) == LET q == Size(a) \div Size(b) IN IF (a < 0) = (b < 0) THEN q ELSE -q
Rem(a, b) == a - b * Quot(a, b)

\* The one quotient that is no integer of 32 bits; the processor traps.
Overflows(a, b) == a = -Half /\ b = -1

RemainderBy(divider, value) ==
  CASE divider = 0 -> Stopped("abort")
    [] divider # 0 /\ Overflows(value, divider) -> Stopped("fault")
    [] OTHER -> Returned(Rem(value, divider))

Modulus(v, div) == Rem(Int32(Rem(v, div) + div), div)

Mod(divider, value) ==
  CASE divider = 0 -> Returned(0)
    [] divider # 0 /\ Overflows(value, divider) -> Stopped("fault")
    [] OTHER -> Returned(Modulus(value, divider))

Abs(a) == Returned(IF a >= 0 THEN a ELSE Int32(-a))
Sign(a) == Returned(IF a = 0 THEN 0 ELSE IF a > 0 THEN 1 ELSE -1)
Mid(a, b) == Returned(Quot(Int32(b + a), 2))
Clamp(min, max, v) == Returned(IF v < min THEN min ELSE IF v > max THEN max ELSE v)

Lerp(t, start, end) ==
  Returned(Quot(Int32(Int32(start * FixedFactor) + Int32(t * Int32(end - start))), FixedFactor))

Metronome(t, cycleCount, enableCount, offset) ==
  LET frame == Int32(offset + t)
  IN  IF cycleCount = 0 \/ Overflows(frame, cycleCount) THEN Stopped("fault")
      ELSE Returned(Rem(frame, cycleCount) < enableCount)

\* drunk: "TODO: value + delta".
RandomDelta(t, value, randomMaxDelta) == Returned(0)

\* The modulus does not bound the result; it goes into what Noise depends on.
Rnd(basis, modulus) == Returned(Noise(Int32(basis + Int32(modulus * 5303))))

TrueModulo(a, b) == LET r == Rem(a, b) IN IF r < 0 THEN r + b ELSE r
SinIndex(fixedRadian) == Quot(TrueModulo(fixedRadian, FullTurn) * SinEntries, FullTurn) % SinEntries
Sin(angle) == Returned(SinTable[SinIndex(angle)])

\* Named a quarter turn, which is 1570: the result is the sine 9 degrees on.
QuarterTurn == 628 \div 4
Cos(angle) == Returned(SinTable[SinIndex(Int32(angle + QuarterTurn))])

FixedAngleToDegree(angle) == Quot(Int32(angle * Degrees), FullTurn)
DegreeToFixedAngle(degrees) == Quot(degrees * FullTurn, Degrees)

\* The octant of the first 45 degrees is a line; it is bent up in the middle,
\* by a degree behind or before each of these.
One(holds) == IF holds THEN 1 ELSE 0
Compensation(degree) ==
  IF degree > 22
  THEN One(degree <= 44) + One(degree <= 41) + One(degree <= 37) + One(degree <= 32)
  ELSE One(degree >= 2) + One(degree >= 6) + One(degree >= 10) + One(degree >= 15)
Octant(small, large) == LET d == (small * 45) \div large IN d + Compensation(d)
FastAtan2(x, y) ==
  LET ux == Size(x)
      uy == Size(y)
      quadrant == IF ux > uy THEN 90 - Octant(uy, ux) ELSE Octant(ux, uy)
  IN  CASE y < 0 /\ x < 0 -> 180 + quadrant
        [] y < 0 /\ x >= 0 -> 180 - quadrant
        [] y >= 0 /\ x < 0 -> 360 - quadrant
        [] OTHER -> quadrant

\* atan2 and, under another name, atan.  Both less than a degree: 0 / 0.
ATan(y, x) ==
  LET yInt == FixedAngleToDegree(y)
      xInt == FixedAngleToDegree(x)
  IN  IF yInt = 0 /\ xInt = 0 THEN Stopped("fault")
      ELSE Returned(DegreeToFixedAngle(FastAtan2(yInt, xInt)))

IntRound(fixed) == Returned(Quot(fixed, FixedFactor))
IntToFixed(int) == Returned(Int32(int * FixedFactor))

\* Char.fromCode, Char.toCode and Char.ord.
SameCode(code) == Returned(code)
=============================================================================
