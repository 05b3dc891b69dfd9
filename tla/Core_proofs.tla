---------------------------- MODULE Core_proofs ----------------------------
(***************************************************************************)
(* Proofs about the functions and opcodes that compute, for every width of *)
(* a word and every argument, list, table and type.                        *)
(***************************************************************************)
EXTENDS CoreProperties, SequenceTheorems, FiniteSetTheorems, WellFoundedInduction, TLAPS

-----------------------------------------------------------------------------
(* Arithmetic of math.c and int.c.                                          *)

\* Division with a remainder.
LEMMA DivMod ==
  ASSUME NEW a \in Int, NEW b \in Nat \ {0}
  PROVE  a = b * (a \div b) + (a % b) /\ a % b \in 0 .. b - 1 /\ a \div b \in Int
  OBVIOUS

\* The quotient and the remainder of C are whole numbers that make up the number again.
LEMMA QuotType ==
  ASSUME NEW a \in Int, NEW b \in Int \ {0}
  PROVE  Quot(a, b) \in Int /\ Rem(a, b) \in Int /\ a = b * Quot(a, b) + Rem(a, b)
  <1>1. Quot(a, b) \in Int
    BY DEF Quot, Size
  <1>2. QED
    BY <1>1 DEF Rem

\* The remainder is smaller than the divider and has the sign of what is divided.
LEMMA QuotBounds ==
  ASSUME NEW a \in Int, NEW b \in Int \ {0}
  PROVE  /\ Size(Rem(a, b)) < Size(b)
         /\ Size(b * Quot(a, b)) <= Size(a)
         /\ Rem(a, b) # 0 => (Rem(a, b) < 0) = (a < 0)
  BY DEF Quot, Rem, Size

\* A multiple leaves no remainder.
LEMMA MultipleMod ==
  ASSUME NEW k \in Int, NEW b \in Int \ {0}
  PROVE  (b * k) % Size(b) = 0
  BY DEF Size

\* A wrapped number is an integer of the code; one that is already stays.
LEMMA Int32Fits ==
  ASSUME NEW n \in Int
  PROVE  Fits(Int32(n)) /\ (Fits(n) => Int32(n) = n) /\ Int32(n) \in Int
  BY HalfAssumption DEF Int32, Fits

\* Wrapping adds a multiple of the word.
LEMMA Int32Wraps ==
  ASSUME NEW n \in Int
  PROVE  /\ \E k \in Int : Int32(n) = n + (2 * Half) * k
         /\ (Int32(n) - n) % (2 * Half) = 0
  <1> DEFINE m == 2 * Half
             k == -((n + Half) \div m)
  <1>1. m \in Nat \ {0} /\ Half \in Int
    BY HalfAssumption
  <1> HIDE DEF m
  <1>2. n + Half = m * ((n + Half) \div m) + ((n + Half) % m) /\ k \in Int /\ (n + Half) % m \in Int
    BY <1>1, DivMod
  <1>3. Int32(n) = ((n + Half) % m) - Half
    BY DEF Int32, m
  <1>4. Int32(n) = n + m * k
    BY <1>1, <1>2, <1>3 DEF m
  <1> HIDE DEF k
  <1>5. (Int32(n) - n) = m * k /\ Size(m) = m
    BY <1>1, <1>2, <1>4 DEF Size
  <1>6. (m * k) % m = 0
    BY <1>1, <1>2, <1>5, MultipleMod
  <1>7. QED
    BY <1>2, <1>4, <1>5, <1>6 DEF m

\* Math.remainderBy.
LEMMA RemainderBySteps ==
  ASSUME CallRemainderBy PROVE DivisionIsRight'
  <1>1. PICK divider, value \in Ints :
          last' = [name |-> "Math.remainderBy", args |-> [divider |-> divider, value |-> value],
                   outcome |-> RemainderBy(divider, value)]
    BY DEF CallRemainderBy, Calls, Ends
  <1>2. divider \in Int /\ value \in Int
    BY InputsAssumption, HalfAssumption DEF Integers32
  <1>3. CASE divider = 0
    BY <1>1, <1>3 DEF DivisionIsRight, Returns, Called, How, Value, Args, RemainderBy, Stopped
  <1>4. CASE divider # 0 /\ Overflows(value, divider)
    BY <1>1, <1>4 DEF DivisionIsRight, Returns, Called, How, Value, Args, RemainderBy, Stopped, Overflows
  <1>5. CASE divider # 0 /\ ~Overflows(value, divider)
    <2>1. RemainderBy(divider, value) = Returned(Rem(value, divider))
      BY <1>5 DEF RemainderBy
    <2>2. value - Rem(value, divider) = divider * Quot(value, divider) /\ Quot(value, divider) \in Int
      BY <1>2, <1>5, QuotType DEF Rem
    <2>3. (value - Rem(value, divider)) % Size(divider) = 0
      BY <1>2, <1>5, <2>2, MultipleMod
    <2>4. QED
      BY <1>1, <1>2, <1>5, <2>1, <2>3, QuotBounds
      DEF DivisionIsRight, Returns, Called, How, Value, Args, Returned
  <1>6. QED
    BY <1>3, <1>4, <1>5

\* Math.mod where the sum of divider and value does not wrap: congruent, smaller than the divider,
\* and not negative for a positive one.
LEMMA ModulusIsRight ==
  ASSUME NEW v \in Int, NEW d \in Int \ {0}, 2 * Size(d) <= Half
  PROVE  /\ (v - Modulus(v, d)) % Size(d) = 0
         /\ Size(Modulus(v, d)) < Size(d)
         /\ d > 0 => Modulus(v, d) >= 0
  <1> DEFINE r == Rem(v, d)
             q == Quot(v, d)
             t == Quot(r + d, d)
  <1>1. r \in Int /\ q \in Int /\ v = d * q + r /\ Size(r) < Size(d)
    BY QuotType, QuotBounds
  <1>2. Fits(r + d)
    BY <1>1, HalfAssumption DEF Fits, Size
  <1>3. Modulus(v, d) = Rem(r + d, d)
    BY <1>1, <1>2, Int32Fits DEF Modulus
  <1>4. t \in Int /\ Rem(r + d, d) = (r + d) - d * t
    <2>1. r + d \in Int
      BY <1>1
    <2>2. t \in Int
      BY <2>1, QuotType
    <2> HIDE DEF r
    <2>3. Rem(r + d, d) = (r + d) - d * t
      BY DEF Rem
    <2>4. QED
      BY <2>2, <2>3
  <1>5. /\ Size(Rem(r + d, d)) < Size(d)
        /\ Rem(r + d, d) # 0 => (Rem(r + d, d) < 0) = (r + d < 0)
    BY <1>1, QuotBounds
  <1>6. (r + d < 0) = (d < 0)
    BY <1>1 DEF Size
  <1> HIDE DEF r, q, t
  <1>7. v - Modulus(v, d) = d * (q + t - 1)
    BY <1>1, <1>3, <1>4
  <1>8. q + t - 1 \in Int
    BY <1>1, <1>4
  <1>9. (v - Modulus(v, d)) % Size(d) = 0
    BY <1>7, <1>8, MultipleMod
  <1>10. Modulus(v, d) \in Int
    BY <1>1, <1>3, <1>4
  <1>11. QED
    BY <1>1, <1>3, <1>5, <1>6, <1>9, <1>10

\* Math.mod.
LEMMA ModSteps ==
  ASSUME CallMod PROVE DivisionIsRight'
  <1>1. PICK divider, value \in Ints :
          last' = [name |-> "Math.mod", args |-> [divider |-> divider, value |-> value],
                   outcome |-> Mod(divider, value)]
    BY DEF CallMod, Calls, Ends
  <1>2. divider \in Int /\ value \in Int
    BY InputsAssumption, HalfAssumption DEF Integers32
  <1>3. CASE divider = 0
    BY <1>1, <1>3 DEF DivisionIsRight, Returns, Called, How, Value, Args, Mod, Returned
  <1>4. CASE divider # 0 /\ Overflows(value, divider)
    BY <1>1, <1>4 DEF DivisionIsRight, Returns, Called, How, Value, Args, Mod, Stopped, Overflows
  <1>5. CASE divider # 0 /\ ~Overflows(value, divider)
    <2>1. Mod(divider, value) = Returned(Modulus(value, divider))
      BY <1>5 DEF Mod
    <2>2. Size(divider) <= Half \div 2 => 2 * Size(divider) <= Half
      BY <1>2, HalfAssumption DEF Size
    <2>4. QED
      BY <1>1, <1>2, <1>5, <2>1, <2>2, ModulusIsRight
      DEF DivisionIsRight, Returns, Called, How, Value, Args, Returned
  <1>6. QED
    BY <1>3, <1>4, <1>5

\* Math.abs.
LEMMA AbsSteps ==
  ASSUME CallAbs PROVE ArithmeticIsRight'
  <1>1. PICK a \in Ints : last' = [name |-> "Math.abs", args |-> [a |-> a], outcome |-> Abs(a)]
    BY DEF CallAbs, Calls, Ends
  <1>2. a \in Int /\ (a < 0 /\ a # -Half => Int32(-a) = -a)
    BY InputsAssumption, Int32Fits, HalfAssumption DEF Fits, Integers32
  <1>3. QED
    BY <1>1, <1>2 DEF ArithmeticIsRight, Returns, Called, How, Value, Args, Abs, Returned, Size

\* Math.sign.
LEMMA SignSteps ==
  ASSUME CallSign PROVE ArithmeticIsRight'
  <1>1. PICK a \in Ints : last' = [name |-> "Math.sign", args |-> [a |-> a], outcome |-> Sign(a)]
    BY DEF CallSign, Calls, Ends
  <1>2. a \in Int
    BY InputsAssumption, HalfAssumption DEF Integers32
  <1>3. QED
    BY <1>1, <1>2 DEF ArithmeticIsRight, Returns, Called, How, Value, Args, Sign, Returned, Size

\* Math.mid.
LEMMA MidSteps ==
  ASSUME CallMid PROVE ArithmeticIsRight'
  <1>1. PICK a, b \in Ints : last' = [name |-> "Math.mid", args |-> [a |-> a, b |-> b], outcome |-> Mid(a, b)]
    BY DEF CallMid, Calls, Ends
  <1>2. a \in Int /\ b \in Int
    BY InputsAssumption, HalfAssumption DEF Integers32
  <1>3. ASSUME Fits(a + b)
        PROVE  Between(Quot(Int32(b + a), 2), a, b) /\ Size(2 * Quot(Int32(b + a), 2) - (a + b)) <= 1
    <2>1. Int32(b + a) = a + b
      BY <1>2, <1>3, Int32Fits
    <2>2. QED
      BY <1>2, <2>1 DEF Between, Quot, Size
  <1>4. QED
    BY <1>1, <1>3 DEF ArithmeticIsRight, Returns, Called, How, Value, Args, Mid, Returned

\* Math.clamp.
LEMMA ClampSteps ==
  ASSUME CallClamp PROVE ArithmeticIsRight'
  <1>1. PICK min, max, v \in Ints :
          last' = [name |-> "Math.clamp", args |-> [min |-> min, max |-> max, v |-> v],
                   outcome |-> Clamp(min, max, v)]
    BY DEF CallClamp, Calls, Ends
  <1>2. min \in Int /\ max \in Int /\ v \in Int
    BY InputsAssumption, HalfAssumption DEF Integers32
  <1>3. QED
    BY <1>1, <1>2 DEF ArithmeticIsRight, Returns, Called, How, Value, Args, Clamp, Returned, Between

(* A part of a distance, in thousandths, lies between its ends.             *)

\* A part of a change leads to a number between its ends, rounded towards zero.
LEMMA PartOfChange ==
  ASSUME NEW t \in Int, 0 <= t, t <= FixedFactor, NEW start \in Int, NEW end \in Int,
         NEW sum \in Int, sum = start * FixedFactor + t * (end - start)
  PROVE  Between(Quot(sum, FixedFactor), start, end)
  <1> DEFINE change == end - start
             part == t * change
  <1>1. change \in Int /\ part \in Int
    OBVIOUS
  <1>2. CASE change >= 0
    <2>1. 0 <= part /\ part <= 1000 * change
      <3>1. part = t * change /\ t \in Int /\ t >= 0 /\ t <= 1000
        BY DEF FixedFactor
      <3> HIDE DEF part, change
      <3>2. 0 <= t * change
        BY <1>1, <1>2, <3>1
      <3>3. 0 <= (1000 - t) * change
        BY <1>1, <1>2, <3>1
      <3>4. QED
        BY <1>1, <3>1, <3>2, <3>3
    <2>2. sum = 1000 * start + part
      BY DEF FixedFactor
    <2> HIDE DEF part
    <2>3. QED
      BY <1>1, <2>1, <2>2 DEF FixedFactor, Quot, Size, Between
  <1>3. CASE change < 0
    <2>1. part <= 0 /\ 1000 * change <= part
      <3>1. part = t * change /\ t \in Int /\ t >= 0 /\ t <= 1000
        BY DEF FixedFactor
      <3> HIDE DEF part, change
      <3>2. t * change <= 0
        BY <1>1, <1>3, <3>1
      <3>3. (1000 - t) * change <= 0
        BY <1>1, <1>3, <3>1
      <3>4. QED
        BY <1>1, <3>1, <3>2, <3>3
    <2>2. sum = 1000 * start + part
      BY DEF FixedFactor
    <2> HIDE DEF part
    <2>3. QED
      BY <1>1, <2>1, <2>2 DEF FixedFactor, Quot, Size, Between
  <1>4. QED
    BY <1>1, <1>2, <1>3

\* Math.lerp.
LEMMA LerpSteps ==
  ASSUME CallLerp PROVE ArithmeticIsRight'
  <1>1. PICK t, start, end \in Ints :
          /\ t <= FixedFactor
          /\ last' = [name |-> "Math.lerp", args |-> [t |-> t, start |-> start, end |-> end],
                      outcome |-> Lerp(t, start, end)]
    BY DEF CallLerp, Calls, Ends
  <1>2. t \in Int /\ start \in Int /\ end \in Int
    BY InputsAssumption, HalfAssumption DEF Integers32
  <1> DEFINE change == end - start
             value == Quot(Int32(Int32(start * FixedFactor) + Int32(t * Int32(end - start))), FixedFactor)
  <1>3. ASSUME Fits(change), Fits(start * FixedFactor), Fits(t * change),
               Fits(start * FixedFactor + t * change)
        PROVE  /\ Size(value * FixedFactor - (start * (FixedFactor - t) + end * t)) < FixedFactor
               /\ t >= 0 => Between(value, start, end)
    <2> DEFINE sum == start * FixedFactor + t * change
    <2>1. change \in Int /\ start * FixedFactor \in Int /\ t * change \in Int /\ sum \in Int
      BY <1>2 DEF FixedFactor
    <2>2. value = Quot(sum, FixedFactor)
      BY <1>3, <2>1, Int32Fits
    <2>3. sum = start * (FixedFactor - t) + end * t
      BY <1>2 DEF FixedFactor
    <2>4. t >= 0 => Between(Quot(sum, FixedFactor), start, end)
      BY <1>1, <1>2, <2>1, PartOfChange
    <2>5. Size(Quot(sum, FixedFactor) * FixedFactor - sum) < FixedFactor
      <3> HIDE DEF sum
      <3>1. QED
        BY <2>1 DEF FixedFactor, Quot, Size
    <2>6. QED
      BY <2>2, <2>3, <2>4, <2>5
  <1>4. QED
    BY <1>1, <1>3 DEF ArithmeticIsRight, Returns, Called, How, Value, Args, Lerp, Returned

\* Math.metronome.
LEMMA MetronomeSteps ==
  ASSUME CallMetronome PROVE ArithmeticIsRight'
  <1>1. PICK t, cycleCount, enableCount \in Ints, offset \in {0, 1} :
          last' = [name |-> "Math.metronome",
                   args |-> [t |-> t, cycleCount |-> cycleCount, enableCount |-> enableCount,
                        offset |-> offset],
                   outcome |-> Metronome(t, cycleCount, enableCount, offset)]
    BY DEF CallMetronome, Calls, Ends
  <1>2. t \in Int /\ cycleCount \in Int /\ enableCount \in Int /\ offset \in Int
    BY InputsAssumption, HalfAssumption DEF Integers32
  <1> DEFINE frame == Int32(offset + t)
  <1>3. frame \in Int /\ (Fits(offset + t) => frame = offset + t)
    BY <1>2, Int32Fits
  <1>4. CASE cycleCount = 0 \/ Overflows(frame, cycleCount)
    <2>1. Metronome(t, cycleCount, enableCount, offset) = Stopped("fault")
      BY <1>4 DEF Metronome
    <2>2. cycleCount \in {-1, 0}
      BY <1>4 DEF Overflows
    <2>3. QED
      BY <1>1, <2>1, <2>2 DEF ArithmeticIsRight, Returns, Called, How, Value, Args, Stopped
  <1>5. CASE ~(cycleCount = 0 \/ Overflows(frame, cycleCount))
    <2>1. Metronome(t, cycleCount, enableCount, offset) = Returned(Rem(frame, cycleCount) < enableCount)
      BY <1>5 DEF Metronome
    <2>2. ASSUME Fits(offset + t), offset + t >= 0, cycleCount > 0
          PROVE  Rem(frame, cycleCount) = (offset + t) % cycleCount
      <3>1. frame = offset + t /\ frame >= 0
        BY <1>3, <2>2
      <3> HIDE DEF frame
      <3>2. Quot(frame, cycleCount) = frame \div cycleCount
        BY <1>2, <1>3, <2>2, <3>1 DEF Quot, Size
      <3>3. Rem(frame, cycleCount) = frame % cycleCount
        BY <1>2, <1>3, <2>2, <3>2, DivMod DEF Rem
      <3>4. QED
        BY <3>1, <3>3
    <2>3. QED
      BY <1>1, <2>1, <2>2 DEF ArithmeticIsRight, Returns, Called, How, Value, Args, Returned
  <1>6. QED
    BY <1>4, <1>5

\* Int.round.
LEMMA RoundSteps ==
  ASSUME CallRound PROVE ArithmeticIsRight'
  <1>1. PICK fixed \in Ints : last' = [name |-> "Int.round", args |-> [fixed |-> fixed],
       outcome |-> IntRound(fixed)]
    BY DEF CallRound, Calls, Ends
  <1>2. fixed \in Int
    BY InputsAssumption, HalfAssumption DEF Integers32
  <1>3. Size(fixed - Quot(fixed, FixedFactor) * FixedFactor) < FixedFactor
    BY <1>2 DEF Quot, Size, FixedFactor
  <1>4. QED
    BY <1>1, <1>3 DEF ArithmeticIsRight, Returns, Called, How, Value, Args, IntRound, Returned

\* Int.toFixed.
LEMMA ToFixedSteps ==
  ASSUME CallToFixed PROVE ArithmeticIsRight'
  <1>1. PICK int \in Ints : last' = [name |-> "Int.toFixed", args |-> [int |-> int],
       outcome |-> IntToFixed(int)]
    BY DEF CallToFixed, Calls, Ends
  <1>2. int * FixedFactor \in Int
    BY InputsAssumption, HalfAssumption DEF Integers32, FixedFactor
  <1>3. QED
    BY <1>1, <1>2, Int32Fits DEF ArithmeticIsRight, Returns, Called, How, Value, Args, IntToFixed, Returned

-----------------------------------------------------------------------------
(* Angles.                                                                  *)

\* The compensated angle against the table of tangents, degree by degree.
LEMMA Table ==
  ASSUME NEW d \in 0 .. 45
  PROVE  LET o == d + Compensation(d)
         IN  /\ o \in 0 .. 45 /\ (o = 45 => d >= 44)
             /\ d < 45 => (d + 1) * 1000 <= 45 * Tangent(o + 2)
             /\ o > 1 => 45 * Tangent(o - 2) <= d * 1000
             /\ Tangent(o + 2) \in Nat /\ (o > 1 => Tangent(o - 2) \in Nat)
             /\ (o = 45 => 1000 <= Tangent(o + 2))
  BY SMTT(60) DEF Compensation, One, Tangent, Tangents

\* An angle of the first octant.
LEMMA OctantIsRight ==
  ASSUME NEW small \in Nat, NEW large \in Nat \ {0}, small <= large
  PROVE  /\ Octant(small, large) \in 0 .. 45
         /\ IsAngle(Octant(small, large), small, large)
         /\ Octant(small, large) = 45 => IsAngle(45, large, small)
         /\ small = 0 => Octant(small, large) = 0
  <1> DEFINE d == (small * 45) \div large
             o == Octant(small, large)
  <1>1. d \in 0 .. 45 /\ d * large <= 45 * small /\ 45 * small < (d + 1) * large
    <2>1. small * 45 \in Nat
      OBVIOUS
    <2> DEFINE p == small * 45
    <2>a. p \in Int
      BY <2>1
    <2>2. small * 45 = large * d + ((small * 45) % large) /\ (small * 45) % large \in 0 .. large - 1 /\ d \in Int
      <3> HIDE DEF p
      <3>1. p = large * (p \div large) + (p % large) /\ p % large \in 0 .. large - 1 /\ p \div large \in Int
        BY <2>a, DivMod
      <3>2. QED
        BY <3>1 DEF p
    <2> HIDE DEF d
    <2>3. d >= 0
      BY <2>1, <2>2
    <2>4. d <= 45
      BY <2>1, <2>2, <2>3
    <2>5. QED
      BY <2>2, <2>3, <2>4
  <1>2. o = d + Compensation(d)
    BY DEF Octant
  <1>3. small = 0 => d = 0
    OBVIOUS
  <1> HIDE DEF d, o
  <1>4. /\ o \in 0 .. 45 /\ (o = 45 => d >= 44)
        /\ d < 45 => (d + 1) * 1000 <= 45 * Tangent(o + 2)
        /\ o > 1 => 45 * Tangent(o - 2) <= d * 1000
        /\ Tangent(o + 2) \in Nat /\ (o > 1 => Tangent(o - 2) \in Nat)
    BY <1>1, <1>2, Table
  <1>5. small * 1000 <= Tangent(o + 2) * large
    <2>1. CASE d < 45
      <3>1. 45 * small * 1000 <= (d + 1) * large * 1000
        BY <1>1
      <3>2. (d + 1) * 1000 * large <= 45 * Tangent(o + 2) * large
        <4> DEFINE u == (d + 1) * 1000
                   v == 45 * Tangent(o + 2)
        <4>1. u \in Nat /\ v \in Nat /\ u <= v
          BY <1>1, <1>4, <2>1
        <4> HIDE DEF u, v
        <4>2. u * large <= v * large
          BY <4>1
        <4>3. QED
          BY <4>2 DEF u, v
      <3> DEFINE w == Tangent(o + 2) * large
      <3>3. 45 * Tangent(o + 2) * large = 45 * w /\ w \in Nat
        BY <1>4
      <3>4. (d + 1) * large * 1000 = (d + 1) * 1000 * large /\ (d + 1) * 1000 * large \in Int
        BY <1>1
      <3> HIDE DEF w
      <3>5. 45 * (small * 1000) <= 45 * w
        BY <3>1, <3>2, <3>3, <3>4
      <3>6. QED
        BY <3>3, <3>5 DEF w
    <2>2. CASE d = 45
      <3>1. o = 45 /\ Tangent(o + 2) = 1072
        BY <1>2, <2>2 DEF Compensation, One, Tangent, Tangents
      <3>2. QED
        BY <3>1
    <2>3. QED
      BY <1>1, <2>1, <2>2
  <1>6. ASSUME o > 1 PROVE Tangent(o - 2) * large <= small * 1000
    <2> DEFINE v == Tangent(o - 2)
    <2>1. v \in Nat /\ 45 * v <= d * 1000
      BY <1>4, <1>6
    <2> HIDE DEF v
    <2>2. 45 * v * large <= d * 1000 * large
      <3> DEFINE p == 45 * v
                 q == d * 1000
      <3>1. p \in Nat /\ q \in Nat /\ p <= q
        BY <1>1, <2>1
      <3> HIDE DEF p, q
      <3>2. p * large <= q * large
        BY <3>1
      <3>3. QED
        BY <3>2 DEF p, q
    <2> DEFINE w == v * large
               e == d * large
    <2>3. w \in Nat /\ e \in Nat /\ 45 * v * large = 45 * w /\ d * 1000 * large = 1000 * e /\ e <= 45 * small
      BY <1>1, <2>1
    <2> HIDE DEF w, e
    <2>4. w <= small * 1000
      BY <2>2, <2>3
    <2>5. QED
      BY <2>4 DEF v, w
  <1>7. ASSUME o = 45 PROVE IsAngle(45, large, small)
    <2>1. Tangent(47) = 1072 /\ Tangent(43) = 933
      BY DEF Tangent, Tangents
    <2>2. 44 * large <= 45 * small
      <3>1. d >= 44
        BY <1>4, <1>7
      <3>2. 44 * large <= d * large
        BY <1>1, <3>1
      <3>3. QED
        BY <1>1, <3>2
    <2>3. QED
      BY <2>1, <2>2 DEF IsAngle
  <1>8. small = 0 => o = 0
    BY <1>2, <1>3 DEF Compensation, One
  <1>9. QED
    BY <1>4, <1>5, <1>6, <1>7, <1>8 DEF IsAngle, o

\* The entry of the table of sines is that of the angle within the turn.
LEMMA SinIndexIsRight ==
  ASSUME NEW angle \in Int
  PROVE  /\ SinIndex(angle) \in 0 .. 255
         /\ SinIndex(angle) * FullTurn <= (angle % FullTurn) * SinEntries
         /\ (angle % FullTurn) * SinEntries < (SinIndex(angle) + 1) * FullTurn
  <1>1. TrueModulo(angle, FullTurn) = angle % FullTurn
    BY DEF TrueModulo, FullTurn, Rem, Quot, Size
  <1> DEFINE turn == angle % FullTurn
  <1>2. turn \in 0 .. 6279
    BY DEF FullTurn
  <1> HIDE DEF turn
  <1>3. SinIndex(angle) = Quot(turn * 256, 6280) % 256
    BY <1>1 DEF SinIndex, turn, FullTurn, SinEntries
  <1>4. Quot(turn * 256, 6280) = (turn * 256) \div 6280
    BY <1>2 DEF Quot, Size
  <1>5. QED
    BY <1>2, <1>3, <1>4 DEF FullTurn, SinEntries, turn

\* What it leads to is the sine of the angle.
LEMMA SineIsRight ==
  ASSUME NEW angle \in Int
  PROVE  IsSine(SinTable[SinIndex(angle)], angle)
  <1> DEFINE i == SinIndex(angle)
             turn == (angle % FullTurn) * SinEntries
  <1>1. i \in DOMAIN SinTable
    BY SinIndexIsRight, SinTableAssumption DEF SinEntries
  <1>2. i * FullTurn <= turn /\ turn < (i + 1) * FullTurn
    BY SinIndexIsRight
  <1> HIDE DEF i, turn
  <1>3. \E k \in DOMAIN SinTable :
          SinTable[i] = SinTable[k] /\ k * FullTurn <= turn /\ turn < (k + 1) * FullTurn
    BY <1>1, <1>2
  <1>4. QED
    BY <1>3 DEF IsSine, i, turn

\* Math.sin.
LEMMA SinSteps ==
  ASSUME CallSin PROVE AnglesAreRight'
  <1>1. PICK angle \in Angles : last' = [name |-> "Math.sin", args |-> [angle |-> angle],
       outcome |-> Sin(angle)]
    BY DEF CallSin, Calls, Ends
  <1>2. angle \in Int
    BY InputsAssumption, HalfAssumption DEF Integers32
  <1>3. IsSine(SinTable[SinIndex(angle)], angle)
    BY <1>2, SineIsRight
  <1>4. QED
    BY <1>1, <1>3 DEF AnglesAreRight, Called, How, Value, Args, Sin, Returned

\* The octants put together: a direction of the whole circle.
LEMMA DirectionIsRight ==
  ASSUME NEW y \in Int, NEW x \in Int, ~(y = 0 /\ x = 0)
  PROVE  IsDirection(FastAtan2(y, x), y, x) /\ FastAtan2(y, x) \in 0 .. 360
  <1> DEFINE q == IF Size(y) > Size(x) THEN 90 - Octant(Size(x), Size(y)) ELSE Octant(Size(y), Size(x))
             toAxis(d) == IF d % 180 > 90 THEN 180 - (d % 180) ELSE d % 180
             Near(a) == IF a <= 45 THEN IsAngle(a, Size(y), Size(x)) ELSE IsAngle(90 - a, Size(x), Size(y))
  <1>1. Size(y) \in Nat /\ Size(x) \in Nat
    BY DEF Size
  <1>2. /\ q \in 0 .. 90 /\ Near(q) /\ (y = 0 => q = 0)
    <2>1. CASE Size(y) > Size(x)
      <3> DEFINE o == Octant(Size(x), Size(y))
      <3>1. o \in 0 .. 45 /\ IsAngle(o, Size(x), Size(y)) /\ (o = 45 => IsAngle(45, Size(y), Size(x)))
        BY <1>1, <2>1, OctantIsRight
      <3>2. q = 90 - o /\ y # 0
        BY <1>1, <2>1 DEF Size
      <3> HIDE DEF o, q
      <3>3. 90 - q = o
        BY <3>1, <3>2
      <3>4. CASE o = 45
        <4>1. q = 45
          BY <3>2, <3>4
        <4>2. QED
          BY <3>1, <3>2, <3>4, <4>1
      <3>5. CASE o # 45
        <4>1. ~(q <= 45) /\ q \in 0 .. 90
          BY <3>1, <3>2, <3>5
        <4>2. QED
          BY <3>1, <3>2, <3>3, <4>1
      <3>6. QED
        BY <3>4, <3>5
    <2>2. CASE ~(Size(y) > Size(x))
      <3> DEFINE o == Octant(Size(y), Size(x))
      <3>1. o \in 0 .. 45 /\ IsAngle(o, Size(y), Size(x)) /\ (Size(y) = 0 => o = 0)
        <4>1. Size(x) \in Nat \ {0} /\ Size(y) <= Size(x)
          BY <1>1, <2>2 DEF Size
        <4>2. QED
          BY <1>1, <4>1, OctantIsRight
      <3>2. q = o /\ (y = 0 => Size(y) = 0)
        BY <2>2 DEF Size
      <3> HIDE DEF o, q
      <3>3. q <= 45 /\ q \in 0 .. 90
        BY <3>1, <3>2
      <3>4. QED
        BY <3>1, <3>2, <3>3
    <2>3. QED
      BY <2>1, <2>2
  <1>3. FastAtan2(y, x) =
          IF x < 0 /\ y < 0 THEN 180 + q ELSE IF x < 0 THEN 180 - q ELSE IF y < 0 THEN 360 - q ELSE q
    BY DEF FastAtan2
  <1> HIDE DEF q, Near
  <1> DEFINE d == FastAtan2(y, x)
  <1>4. d \in 0 .. 360 /\ toAxis(d) = q
    BY <1>2, <1>3
  <1>5. /\ y > 0 => d <= 180
        /\ y < 0 => d >= 180
        /\ x > 0 => d <= 90 \/ d >= 270
        /\ x < 0 => d \in 90 .. 270
    BY <1>2, <1>3
  <1>6. Near(toAxis(d))
    BY <1>2, <1>4
  <1> HIDE DEF d
  <1>7. IsDirection(d, y, x)
    BY <1>4, <1>5, <1>6 DEF IsDirection, Near
  <1>8. QED
    BY <1>4, <1>7 DEF d

\* Math.atan and Math.atan2.
LEMMA ATanSteps ==
  ASSUME CallATan PROVE AnglesAreRight'
  <1>1. PICK name \in {"Math.atan", "Math.atan2"}, y, x \in Angles :
          last' = [name |-> name, args |-> [y |-> y, x |-> x], outcome |-> ATan(y, x)]
    BY DEF CallATan, Calls, Ends
  <1> DEFINE dy == FixedAngleToDegree(y)
             dx == FixedAngleToDegree(x)
  <1>2. dy \in Int /\ dx \in Int
    <2>1. y * Degrees \in Int /\ x * Degrees \in Int
      BY InputsAssumption, HalfAssumption DEF Integers32, Degrees
    <2>2. Int32(y * Degrees) \in Int /\ Int32(x * Degrees) \in Int
      BY <2>1, Int32Fits
    <2>3. QED
      BY <2>2, QuotType DEF FixedAngleToDegree, FullTurn
  <1> HIDE DEF dy, dx
  <1>3. CASE dy = 0 /\ dx = 0
    <2>1. ATan(y, x) = Stopped("fault")
      BY <1>3 DEF ATan, dy, dx
    <2>2. QED
      BY <1>1, <1>3, <2>1 DEF AnglesAreRight, Called, How, Value, Args, Stopped, dy, dx
  <1>4. CASE ~(dy = 0 /\ dx = 0)
    <2>1. ATan(y, x) = Returned(DegreeToFixedAngle(FastAtan2(dy, dx)))
      BY <1>4 DEF ATan, dy, dx
    <2>2. \E degrees \in 0 .. 360 :
            DegreeToFixedAngle(FastAtan2(dy, dx)) = DegreeToFixedAngle(degrees) /\ IsDirection(degrees, dy, dx)
      BY <1>2, <1>4, DirectionIsRight
    <2>3. QED
      BY <1>1, <1>4, <2>1, <2>2 DEF AnglesAreRight, Called, How, Value, Args, Returned, dy, dx
  <1>5. QED
    BY <1>3, <1>4

-----------------------------------------------------------------------------
(* Words, powers of two and bits.                                           *)

\* Induction up to a bound, about a set in place of a predicate.
LEMMA SetInduction ==
  ASSUME NEW n \in Nat, NEW T, 0 \in T, \A i \in 0 .. n - 1 : i \in T => i + 1 \in T
  PROVE  \A i \in 0 .. n : i \in T
  <1> DEFINE Bad == {i \in 0 .. n : i \notin T}
             R == OpToRel(<, Nat)
  <1>1. SUFFICES ASSUME Bad # {} PROVE FALSE
    OBVIOUS
  <1>2. \A x, y \in Nat : <<y, x>> \in R <=> y < x
    BY DEF OpToRel
  <1>3. Bad \in SUBSET Nat
    OBVIOUS
  <1> HIDE DEF R
  <1>4. PICK x \in Bad : \A y \in Bad : ~(<<y, x>> \in R)
    BY <1>1, <1>3, NatLessThanWellFounded, WFMin DEF R
  <1>5. x \in 0 .. n /\ x \notin T /\ x # 0
    BY <1>4
  <1>6. x - 1 \in Nat /\ x \in Nat /\ x - 1 < x
    BY <1>5
  <1>7. x - 1 \notin Bad
    BY <1>2, <1>4, <1>6
  <1>8. x - 1 \in 0 .. n - 1 /\ x - 1 \in T
    BY <1>5, <1>7
  <1>9. (x - 1) + 1 \in T
    BY <1>8
  <1>10. QED
    BY <1>5, <1>9

\* A function that is computed step by step.
IsIteration(f, n, S, base, step) ==
  f \in [0 .. n -> S] /\ f[0] = base /\ \A i \in 1 .. n : f[i] = step[i][f[i - 1]]

\* There is one.
LEMMA Iterates ==
  ASSUME NEW n \in Nat, NEW S, NEW base \in S, NEW step \in [1 .. n -> [S -> S]]
  PROVE  \E f : IsIteration(f, n, S, base, step)
  <1> DEFINE Steps(f, m) == f = [i \in 0 .. m |-> IF i = 0 THEN base ELSE step[i][f[i - 1]]]
             T == {m \in 0 .. n : \E f \in [0 .. m -> S] : Steps(f, m)}
  <1>1. 0 \in T
    <2> DEFINE f == [i \in 0 .. 0 |-> base]
    <2>1. f \in [0 .. 0 -> S]
      OBVIOUS
    <2>2. Steps(f, 0)
      OBVIOUS
    <2> HIDE DEF f
    <2>3. QED
      BY <2>1, <2>2
  <1>2. ASSUME NEW m \in 0 .. n - 1, m \in T PROVE m + 1 \in T
    <2>1. PICK f \in [0 .. m -> S] : Steps(f, m)
      BY <1>2
    <2> DEFINE g == [i \in 0 .. m + 1 |-> IF i = m + 1 THEN step[i][f[m]] ELSE f[i]]
    <2>2. \A i \in 1 .. n, v \in S : step[i][v] \in S
      OBVIOUS
    <2>3. g \in [0 .. m + 1 -> S]
      BY <2>2
    <2>4. \A i \in 0 .. m + 1 : g[i] = IF i = 0 THEN base ELSE step[i][g[i - 1]]
      <3> TAKE i \in 0 .. m + 1
      <3>1. CASE i = m + 1
        BY <3>1
      <3>2. CASE i \in 0 .. m
        <4>1. f[i] = IF i = 0 THEN base ELSE step[i][f[i - 1]]
          BY <2>1, <3>2
        <4>2. i # 0 => g[i - 1] = f[i - 1]
          BY <3>2
        <4>3. g[i] = f[i]
          BY <3>2
        <4>4. QED
          BY <4>1, <4>2, <4>3
      <3>3. QED
        BY <3>1, <3>2
    <2>5. g = [i \in 0 .. m + 1 |-> IF i = 0 THEN base ELSE step[i][g[i - 1]]]
      BY <2>3, <2>4
    <2>6. m + 1 \in 0 .. n
      OBVIOUS
    <2> HIDE DEF g
    <2>7. QED
      BY <2>3, <2>5, <2>6
  <1> HIDE DEF T
  <1>3. \A m \in 0 .. n : m \in T
    BY <1>1, <1>2, SetInduction
  <1>4. n \in T
    BY <1>3
  <1>5. PICK f \in [0 .. n -> S] : f = [i \in 0 .. n |-> IF i = 0 THEN base ELSE step[i][f[i - 1]]]
    BY <1>4 DEF T
  <1>6. IsIteration(f, n, S, base, step)
    BY <1>5 DEF IsIteration
  <1>7. QED
    BY <1>6

\* The powers of two, as they are computed.
LEMMA PowerDef ==
  /\ Power = [n \in 0 .. WordBits |-> IF n = 0 THEN 1 ELSE 2 * Power[n - 1]]
  /\ Power \in [0 .. WordBits -> Nat \ {0}]
  <1> DEFINE S == Nat \ {0}
             step == [i \in 1 .. WordBits |-> [v \in S |-> 2 * v]]
             Good(f) == f = [n \in 0 .. WordBits |-> IF n = 0 THEN 1 ELSE 2 * f[n - 1]]
  <1>1. step \in [1 .. WordBits -> [S -> S]] /\ 1 \in S /\ WordBits \in Nat
    BY WordBitsAssumption
  <1>2. PICK f : IsIteration(f, WordBits, S, 1, step)
    <2> HIDE DEF S, step
    <2>1. QED
      BY <1>1, Iterates
  <1>3. \A i \in 0 .. WordBits : f[i] = IF i = 0 THEN 1 ELSE 2 * f[i - 1]
    <2>1. \A i \in 1 .. WordBits : i - 1 \in 0 .. WordBits
      BY <1>1
    <2>2. \A i \in 1 .. WordBits, v \in S : step[i][v] = 2 * v
      OBVIOUS
    <2> HIDE DEF S, step
    <2>3. \A i \in 0 .. WordBits : f[i] = IF i = 0 THEN 1 ELSE step[i][f[i - 1]]
      BY <1>2 DEF IsIteration
    <2>4. \A i \in 1 .. WordBits : f[i - 1] \in S
      BY <1>2, <2>1 DEF IsIteration
    <2>5. QED
      BY <1>1, <2>2, <2>3, <2>4
  <1>4. Good(f)
    <2>1. f \in [0 .. WordBits -> S]
      BY <1>2 DEF IsIteration
    <2>2. QED
      BY <1>3, <2>1
  <1>5. Power = CHOOSE g : Good(g)
    BY DEF Power
  <1>6. Good(Power)
    <2> HIDE DEF Good
    <2>1. QED
      BY <1>4, <1>5
  <1> DEFINE T == {i \in 0 .. WordBits : Power[i] \in S}
  <1>7. \A i \in 0 .. WordBits : Power[i] = IF i = 0 THEN 1 ELSE 2 * Power[i - 1]
    BY <1>6
  <1>8. 0 \in T
    BY <1>1, <1>7
  <1>9. ASSUME NEW i \in 0 .. WordBits - 1, i \in T PROVE i + 1 \in T
    BY <1>1, <1>7, <1>9
  <1>10. \A i \in 0 .. WordBits : i \in T
    <2> HIDE DEF T
    <2>1. QED
      BY <1>1, <1>8, <1>9, SetInduction
  <1>11. QED
    BY <1>6, <1>10

\* The product of two of them is a third.
LEMMA PowerSum ==
  ASSUME NEW i \in Nat, NEW j \in Nat, i + j <= WordBits
  PROVE  Power[i + j] = Power[i] * Power[j]
  <1> DEFINE T == {k \in 0 .. j : Power[i + k] = Power[i] * Power[k]}
  <1>1. \A n \in 0 .. WordBits : Power[n] \in Nat \ {0} /\ Power[n] = IF n = 0 THEN 1 ELSE 2 * Power[n - 1]
    BY PowerDef
  <1>2. WordBits \in Nat
    BY WordBitsAssumption
  <1>3. 0 \in T
    BY <1>1, <1>2
  <1>4. ASSUME NEW k \in 0 .. j - 1, k \in T PROVE k + 1 \in T
    <2>1. Power[i + (k + 1)] = 2 * Power[i + k]
      BY <1>1, <1>2
    <2>2. Power[k + 1] = 2 * Power[k]
      BY <1>1, <1>2
    <2>3. Power[i] \in Nat /\ Power[k] \in Nat /\ Power[i + k] = Power[i] * Power[k]
      BY <1>1, <1>2, <1>4
    <2>4. Power[i + (k + 1)] = Power[i] * Power[k + 1]
      BY <2>1, <2>2, <2>3
    <2>5. QED
      BY <2>4
  <1>5. \A k \in 0 .. j : k \in T
    <2> HIDE DEF T
    <2>1. QED
      BY <1>3, <1>4, SetInduction
  <1>6. QED
    BY <1>5

\* What the proofs use of them; the word is twice the half.
LEMMA PowerFacts ==
  /\ \A n \in 0 .. WordBits : Power[n] \in Nat \ {0}
  /\ WordBits \in Nat \ {0}
  /\ Power[0] = 1
  /\ \A n \in 0 .. WordBits - 1 : Power[n + 1] = 2 * Power[n]
  /\ Power[WordBits] = 2 * Half
  <1>1. WordBits \in Nat \ {0} /\ Half = Power[WordBits - 1]
    BY WordBitsAssumption
  <1>2. \A n \in 0 .. WordBits : Power[n] \in Nat \ {0} /\ Power[n] = IF n = 0 THEN 1 ELSE 2 * Power[n - 1]
    BY PowerDef
  <1>3. \A n \in 0 .. WordBits - 1 : n + 1 \in 0 .. WordBits /\ n + 1 # 0 /\ (n + 1) - 1 = n
    BY <1>1
  <1>4. \A n \in 0 .. WordBits - 1 : Power[n + 1] = 2 * Power[n]
    BY <1>2, <1>3
  <1>5. WordBits - 1 \in 0 .. WordBits - 1 /\ (WordBits - 1) + 1 = WordBits /\ 0 \in 0 .. WordBits
    BY <1>1
  <1>6. QED
    BY <1>1, <1>2, <1>4, <1>5

\* A longer power is a multiple of a shorter one, and an even one.
LEMMA PowerSplits ==
  ASSUME NEW k \in Nat, NEW n \in Nat, k < n, n <= WordBits
  PROVE  Power[n] = 2 * Power[k] * Power[n - k - 1] /\ Power[n - k - 1] \in Nat \ {0} /\ Power[k] \in Nat \ {0}
  <1>1. WordBits \in Nat /\ k \in 0 .. WordBits /\ n - k - 1 \in 0 .. WordBits /\ k + 1 \in Nat /\ k \in 0 .. WordBits - 1
    BY PowerFacts
  <1>2. (k + 1) + (n - k - 1) = n /\ n - k - 1 \in Nat
    BY <1>1
  <1>3. Power[n] = Power[k + 1] * Power[n - k - 1]
    BY <1>1, <1>2, PowerSum
  <1>4. Power[k + 1] = 2 * Power[k] /\ Power[k] \in Nat \ {0} /\ Power[n - k - 1] \in Nat \ {0}
    BY <1>1, PowerFacts
  <1>5. QED
    BY <1>3, <1>4

\* A quotient is known by its remainder.
LEMMA DivUnique ==
  ASSUME NEW p \in Nat \ {0}, NEW n \in Int, NEW q \in Int, NEW r \in 0 .. p - 1, n = p * q + r
  PROVE  n \div p = q
  <1> DEFINE d == n \div p
             e == n % p
  <1>1. n = p * d + e /\ e \in 0 .. p - 1 /\ d \in Int
    BY DivMod
  <1> HIDE DEF d, e
  <1>2. p * (q - d) = e - r /\ e - r < p /\ e - r > -p
    BY <1>1
  <1>3. q - d < 1 /\ q - d > -1
    <2> DEFINE z == q - d
    <2>1. z \in Int /\ p * z < p /\ p * z > -p
      BY <1>1, <1>2
    <2> HIDE DEF z
    <2>2. z < 1
      BY <2>1
    <2>3. z > -1
      BY <2>1
    <2>4. QED
      BY <2>2, <2>3 DEF z
  <1>4. QED
    BY <1>1, <1>3 DEF d

\* A bit does not depend on a multiple of twice its power.
LEMMA BitShift ==
  ASSUME NEW n \in Int, NEW k \in Bits, NEW m \in Int
  PROVE  Bit(n + 2 * Power[k] * m, k) = Bit(n, k) /\ Bit(n, k) \in {0, 1}
  <1>1. Power[k] \in Nat \ {0}
    BY PowerFacts DEF Bits
  <1> DEFINE p == Power[k]
             q == n \div p
             r == n % p
  <1>2. n = p * q + r /\ q \in Int /\ r \in 0 .. p - 1
    BY <1>1, DivMod
  <1> HIDE DEF p, q, r
  <1>3. n + 2 * p * m = p * (q + 2 * m) + r /\ q + 2 * m \in Int /\ p \in Nat \ {0} /\ n + 2 * p * m \in Int
    BY <1>1, <1>2 DEF p
  <1>4. (n + 2 * p * m) \div p = q + 2 * m
    BY <1>2, <1>3, DivUnique
  <1>5. (q + 2 * m) % 2 = q % 2 /\ q % 2 \in {0, 1}
    BY <1>2
  <1>6. QED
    BY <1>4, <1>5 DEF Bit, p, q

\* The bits of a word are those of any number that is the same modulo the word.
LEMMA BitWord ==
  ASSUME NEW n \in Int, NEW k \in Bits, NEW c \in Int
  PROVE  Bit(n + Power[WordBits] * c, k) = Bit(n, k)
  <1>1. k \in Nat /\ WordBits \in Nat /\ k < WordBits
    BY PowerFacts DEF Bits
  <1> DEFINE p == Power[k]
             e == Power[WordBits - k - 1]
  <1>2. Power[WordBits] = 2 * p * e /\ p \in Nat /\ e \in Nat
    <2>1. WordBits <= WordBits
      BY <1>1
    <2>2. Power[WordBits] = 2 * Power[k] * Power[WordBits - k - 1] /\ Power[WordBits - k - 1] \in Nat /\ Power[k] \in Nat
      BY <1>1, <2>1, PowerSplits
    <2>3. QED
      BY <2>2
  <1> HIDE DEF p, e
  <1>3. Power[WordBits] * c = 2 * p * (e * c) /\ e * c \in Int
    BY <1>2
  <1>4. QED
    BY <1>3, BitShift DEF p

\* Wrapping leaves the bits alone.
LEMMA BitInt32 ==
  ASSUME NEW n \in Int, NEW k \in Bits
  PROVE  Bit(Int32(n), k) = Bit(n, k)
  <1>1. PICK c \in Int : Int32(n) = n + (2 * Half) * c
    BY Int32Wraps
  <1>2. QED
    BY <1>1, BitWord, PowerFacts

-----------------------------------------------------------------------------
(* Numbers made of bits; shifts.                                            *)

\* The sum that FromBits takes, bit by bit.
LEMMA BelowFacts ==
  ASSUME NEW bits \in [Bits -> {0, 1}]
  PROVE  \E below \in [0 .. WordBits -> Nat] :
           /\ FromBits(bits) = Int32(below[WordBits])
           /\ below[0] = 0
           /\ \A k \in Bits : below[k + 1] = below[k] + bits[k] * Power[k]
  <1> DEFINE Good(f) == f = [k \in 0 .. WordBits |-> IF k = 0 THEN 0 ELSE f[k - 1] + bits[k - 1] * Power[k - 1]]
             below == CHOOSE f : Good(f)
             step == [k \in 1 .. WordBits |-> [v \in Nat |-> v + bits[k - 1] * Power[k - 1]]]
  <1>1. \A k \in 1 .. WordBits : k - 1 \in Bits /\ k - 1 \in 0 .. WordBits
    BY PowerFacts DEF Bits
  <1>2. \A k \in 1 .. WordBits : bits[k - 1] \in Nat /\ Power[k - 1] \in Nat
    BY <1>1, PowerFacts
  <1>3. \A k \in 1 .. WordBits : bits[k - 1] * Power[k - 1] \in Nat
    BY <1>2
  <1>4. step \in [1 .. WordBits -> [Nat -> Nat]] /\ WordBits \in Nat /\ 0 \in Nat
    BY <1>3, PowerFacts
  <1>5. PICK f : IsIteration(f, WordBits, Nat, 0, step)
    <2> HIDE DEF step
    <2>1. QED
      BY <1>4, Iterates
  <1>6. \A k \in 0 .. WordBits : f[k] = IF k = 0 THEN 0 ELSE f[k - 1] + bits[k - 1] * Power[k - 1]
    <2>1. \A k \in 1 .. WordBits, v \in Nat : step[k][v] = v + bits[k - 1] * Power[k - 1]
      OBVIOUS
    <2> HIDE DEF step
    <2>2. \A k \in 0 .. WordBits : f[k] = IF k = 0 THEN 0 ELSE step[k][f[k - 1]]
      BY <1>5 DEF IsIteration
    <2>3. \A k \in 1 .. WordBits : f[k - 1] \in Nat
      BY <1>1, <1>5 DEF IsIteration
    <2>4. \A k \in 1 .. WordBits : step[k][f[k - 1]] = f[k - 1] + bits[k - 1] * Power[k - 1]
      BY <2>1, <2>3
    <2>5. \A k \in 0 .. WordBits : k # 0 => k \in 1 .. WordBits
      BY <1>4
    <2>6. QED
      BY <2>2, <2>4, <2>5, Zenon
  <1>7. Good(f)
    <2>1. f \in [0 .. WordBits -> Nat]
      BY <1>5 DEF IsIteration
    <2>2. QED
      BY <1>6, <2>1
  <1>8. Good(below) /\ FromBits(bits) = Int32(below[WordBits])
    <2>1. FromBits(bits) = Int32(below[WordBits])
      BY DEF FromBits
    <2>2. Good(below)
      <3> HIDE DEF Good
      <3>1. QED
        BY <1>7
    <2>3. QED
      BY <2>1, <2>2
  <1> HIDE DEF below
  <1>9. \A k \in 0 .. WordBits : below[k] = IF k = 0 THEN 0 ELSE below[k - 1] + bits[k - 1] * Power[k - 1]
    BY <1>8
  <1> DEFINE T == {k \in 0 .. WordBits : below[k] \in Nat}
  <1>10. 0 \in T
    BY <1>4, <1>9
  <1>11. ASSUME NEW k \in 0 .. WordBits - 1, k \in T PROVE k + 1 \in T
    <2>1. k + 1 \in 1 .. WordBits /\ (k + 1) - 1 = k
      BY <1>4
    <2>2. below[k + 1] = below[k] + bits[k] * Power[k] /\ bits[k] * Power[k] \in Nat /\ below[k] \in Nat
      BY <1>3, <1>9, <1>11, <2>1
    <2>3. QED
      BY <2>1, <2>2
  <1>12. \A k \in 0 .. WordBits : k \in T
    <2> HIDE DEF T
    <2>1. QED
      BY <1>4, <1>10, <1>11, SetInduction
  <1>13. below \in [0 .. WordBits -> Nat]
    BY <1>8, <1>12
  <1>14. below[0] = 0 /\ \A k \in Bits : below[k + 1] = below[k] + bits[k] * Power[k]
    <2>1. \A k \in Bits : k + 1 \in 0 .. WordBits /\ k + 1 # 0 /\ (k + 1) - 1 = k
      BY <1>4 DEF Bits
    <2>2. QED
      BY <1>4, <1>9, <2>1
  <1>15. QED
    BY <1>8, <1>13, <1>14

\* The number made of bits has them.
LEMMA FromBitsHas ==
  ASSUME NEW bits \in [Bits -> {0, 1}], NEW k \in Bits
  PROVE  Bit(FromBits(bits), k) = bits[k]
  <1>1. PICK below \in [0 .. WordBits -> Nat] :
           /\ FromBits(bits) = Int32(below[WordBits])
           /\ below[0] = 0
           /\ \A j \in Bits : below[j + 1] = below[j] + bits[j] * Power[j]
    BY BelowFacts
  <1>2. WordBits \in Nat /\ \A j \in 0 .. WordBits - 1 : j \in Bits /\ j \in 0 .. WordBits /\ j + 1 \in 0 .. WordBits
    BY PowerFacts DEF Bits
  <1> DEFINE T == {n \in 0 .. WordBits : below[n] < Power[n] /\ \A j \in 0 .. n - 1 : Bit(below[n], j) = bits[j]}
  <1>3. 0 \in T
    <2>1. 0 \in 0 .. WordBits /\ 0 .. 0 - 1 = {}
      BY <1>2
    <2>2. QED
      BY <1>1, <2>1, PowerFacts
  <1>4. ASSUME NEW n \in 0 .. WordBits - 1, n \in T PROVE n + 1 \in T
    <2> DEFINE p == Power[n]
               b == bits[n]
               low == below[n]
    <2>1. p \in Nat \ {0} /\ b \in {0, 1} /\ low \in Nat /\ low < p /\ Power[n + 1] = 2 * p
      BY <1>1, <1>2, <1>4, PowerFacts
    <2>2. below[n + 1] = low + b * p
      BY <1>1, <1>2
    <2>a. \A j \in 0 .. n - 1 : Bit(low, j) = bits[j]
      BY <1>4
    <2> HIDE DEF p, b, low
    <2>3. below[n + 1] < Power[n + 1]
      BY <2>1, <2>2
    <2>4. Bit(below[n + 1], n) = b
      <3>1. below[n + 1] \in Int /\ below[n + 1] = p * b + low /\ low \in 0 .. p - 1
        BY <2>1, <2>2
      <3>2. below[n + 1] \div p = b
        BY <2>1, <3>1, DivUnique
      <3>3. b % 2 = b
        BY <2>1
      <3>4. QED
        BY <3>2, <3>3 DEF Bit, p
    <2>5. ASSUME NEW j \in 0 .. n - 1 PROVE Bit(below[n + 1], j) = bits[j]
      <3> DEFINE pj == Power[j]
                 e == Power[n - j - 1]
      <3>1. j \in Nat /\ n \in Nat /\ j < n /\ n <= WordBits /\ j \in Bits
        BY <1>2 DEF Bits
      <3>2. p = 2 * pj * e /\ pj \in Nat /\ e \in Nat
        BY <3>1, PowerSplits DEF p
      <3> HIDE DEF pj, e
      <3>3. below[n + 1] = low + 2 * pj * (e * b) /\ e * b \in Int /\ low \in Int
        BY <2>1, <2>2, <3>2
      <3>4. Bit(below[n + 1], j) = Bit(low, j)
        BY <3>1, <3>3, BitShift DEF pj
      <3>5. QED
        BY <2>a, <3>4
    <2>6. n + 1 \in 0 .. WordBits /\ \A j \in 0 .. (n + 1) - 1 : j \in 0 .. n - 1 \/ j = n
      BY <1>2
    <2>7. \A j \in 0 .. (n + 1) - 1 : Bit(below[n + 1], j) = bits[j]
      BY <2>4, <2>5, <2>6 DEF b
    <2>8. QED
      BY <2>3, <2>6, <2>7
  <1>5. \A n \in 0 .. WordBits : n \in T
    <2> HIDE DEF T
    <2>1. QED
      BY <1>2, <1>3, <1>4, SetInduction
  <1>6. Bit(below[WordBits], k) = bits[k] /\ below[WordBits] \in Int
    <2>1. WordBits \in T /\ k \in 0 .. WordBits - 1
      BY <1>2, <1>5 DEF Bits
    <2>2. QED
      BY <1>1, <1>2, <2>1
  <1>7. QED
    BY <1>1, <1>6, BitInt32

\* The complement has every bit turned.
LEMMA NotHas ==
  ASSUME NEW a \in Int, NEW k \in Bits
  PROVE  Bit(-a - 1, k) = 1 - Bit(a, k)
  <1> DEFINE p == Power[k]
             q == a \div p
             r == a % p
  <1>1. p \in Nat \ {0}
    BY PowerFacts DEF Bits
  <1>2. a = p * q + r /\ q \in Int /\ r \in 0 .. p - 1
    BY <1>1, DivMod
  <1> HIDE DEF p, q, r
  <1>3. -a - 1 = p * (-q - 1) + (p - 1 - r) /\ p - 1 - r \in 0 .. p - 1 /\ -q - 1 \in Int /\ -a - 1 \in Int
    BY <1>1, <1>2
  <1>4. (-a - 1) \div p = -q - 1
    BY <1>1, <1>3, DivUnique
  <1>5. (-q - 1) % 2 = 1 - (q % 2)
    BY <1>2
  <1>6. QED
    BY <1>4, <1>5 DEF Bit, p, q

\* Quotients by two powers in turn.
LEMMA DivDiv ==
  ASSUME NEW n \in Int, NEW p \in Nat \ {0}, NEW e \in Nat \ {0}
  PROVE  (n \div p) \div e = n \div (p * e)
  <1> DEFINE q == n \div p
             r == n % p
             t == q \div e
             s == q % e
  <1>1. n = p * q + r /\ q \in Int /\ r \in 0 .. p - 1
    BY DivMod
  <1> HIDE DEF q, r
  <1>2. q = e * t + s /\ t \in Int /\ s \in 0 .. e - 1
    BY <1>1, DivMod
  <1> HIDE DEF t, s
  <1>3. n = (p * e) * t + (p * s + r)
    BY <1>1, <1>2
  <1>4. p * s + r \in 0 .. (p * e) - 1
    <2>1. p * s >= 0 /\ p * s <= p * (e - 1)
      BY <1>2
    <2>2. p * (e - 1) = p * e - p
      OBVIOUS
    <2>3. p * s \in Int /\ p * e \in Int
      BY <1>2
    <2>4. QED
      BY <1>1, <2>1, <2>2, <2>3
  <1>5. p * e \in Nat \ {0}
    OBVIOUS
  <1>6. n \div (p * e) = t
    <2> DEFINE pe == p * e
               x == p * s + r
    <2> HIDE DEF pe, x
    <2>1. n = pe * t + x /\ x \in 0 .. pe - 1 /\ pe \in Nat \ {0}
      BY <1>3, <1>4, <1>5 DEF pe, x
    <2>2. QED
      BY <1>2, <2>1, DivUnique DEF pe
  <1>7. QED
    BY <1>6 DEF q, t

\* A shift to the left moves the bits up and zeros in.
LEMMA LeftHas ==
  ASSUME NEW a \in Int, NEW b \in Bits, NEW k \in Bits
  PROVE  Bit(LeftBy(a, b), k) = IF k < b THEN 0 ELSE Bit(a, k - b)
  <1> DEFINE w == Word(a)
             e == Power[WordBits - b]
             x == w % e
             p == Power[b]
  <1>1. WordBits \in Nat /\ b \in 0 .. WordBits /\ k \in 0 .. WordBits /\ WordBits - b \in 0 .. WordBits
        /\ b < WordBits /\ k < WordBits
    BY PowerFacts DEF Bits
  <1>2. p \in Nat \ {0} /\ e \in Nat \ {0} /\ 2 * Half = Power[WordBits] /\ 2 * Half \in Nat \ {0}
    BY <1>1, PowerFacts, HalfAssumption
  <1>3. w \in Int /\ x \in Int
    BY <1>2 DEF Word
  <1>4. LeftBy(a, b) = Int32(x * p)
    BY DEF LeftBy
  <1>5. Bit(LeftBy(a, b), k) = Bit(x * p, k)
    <2> HIDE DEF x, p
    <2>1. x * p \in Int
      BY <1>2, <1>3
    <2>2. QED
      BY <1>4, <2>1, BitInt32
  <1>6. CASE k < b
    <2> HIDE DEF x, p
    <2> DEFINE pk == Power[k]
               f == Power[b - k - 1]
    <2>1. p = 2 * pk * f /\ pk \in Nat \ {0} /\ f \in Nat
      BY <1>1, <1>6, PowerSplits DEF p
    <2> HIDE DEF pk, f
    <2>2. x * p = 0 + 2 * pk * (x * f) /\ x * f \in Int
      BY <1>3, <2>1
    <2>3. Bit(x * p, k) = Bit(0, k)
      BY <2>2, BitShift DEF pk
    <2>4. Bit(0, k) = 0
      <3>1. 0 \div pk = 0
        <4>1. 0 = pk * 0 + 0 /\ 0 \in 0 .. pk - 1
          BY <2>1
        <4>2. QED
          BY <2>1, <4>1, DivUnique
      <3>2. QED
        BY <3>1 DEF Bit, pk
    <2>5. QED
      BY <1>5, <1>6, <2>3, <2>4
  <1>7. CASE ~(k < b)
    <2>1. k - b \in Nat /\ k - b \in Bits /\ b + (k - b) = k /\ b \in Nat /\ k - b < WordBits - b /\ WordBits - b <= WordBits
      BY <1>1, <1>7 DEF Bits
    <2> DEFINE c == Power[k - b]
               f == Power[(WordBits - b) - (k - b) - 1]
    <2>2. Power[k] = p * c /\ c \in Nat \ {0}
      <3>1. b + (k - b) <= WordBits /\ k - b \in 0 .. WordBits
        BY <1>1, <2>1
      <3>2. QED
        BY <2>1, <3>1, PowerSum, PowerFacts
    <2>3. e = 2 * c * f /\ f \in Nat \ {0}
      <3> DEFINE j == k - b
                 n == WordBits - b
      <3>1. j \in Nat /\ n \in Nat /\ j < n /\ n <= WordBits
        BY <1>1, <2>1
      <3> HIDE DEF j, n
      <3>2. Power[n] = 2 * Power[j] * Power[n - j - 1] /\ Power[n - j - 1] \in Nat \ {0}
        BY <3>1, PowerSplits
      <3>3. QED
        BY <3>2 DEF j, n
    <2> HIDE DEF p, e, x, w, c, f
    <2>4. (x * p) \div p = x
      <3>1. x * p = p * x + 0 /\ 0 \in 0 .. p - 1 /\ x * p \in Int
        BY <1>2, <1>3
      <3>2. QED
        BY <1>2, <1>3, <3>1, DivUnique
    <2>5. (x * p) \div Power[k] = x \div c
      <3>1. x * p \in Int
        BY <1>2, <1>3
      <3>2. ((x * p) \div p) \div c = (x * p) \div (p * c)
        BY <3>1, <1>2, <2>2, DivDiv
      <3>3. QED
        BY <2>2, <2>4, <3>2
    <2>6. Bit(x * p, k) = Bit(x, k - b)
      BY <2>5 DEF Bit, c
    <2>7. Bit(x, k - b) = Bit(w, k - b)
      <3> DEFINE g == w \div e
      <3>1. w = e * g + x /\ g \in Int
        BY <1>2, <1>3, DivMod DEF x
      <3> HIDE DEF g
      <3>2. w = x + 2 * c * (f * g) /\ f * g \in Int
        BY <1>3, <2>2, <2>3, <3>1
      <3>3. QED
        BY <1>3, <2>1, <3>2, BitShift DEF c
    <2>8. Bit(w, k - b) = Bit(a, k - b)
      <3> DEFINE h == 2 * Half
                 g == a \div h
      <3> HIDE DEF h
      <3>1. h \in Nat \ {0} /\ w = a % h /\ h = Power[WordBits]
        BY <1>2 DEF h, w, Word
      <3>2. a = h * g + w /\ g \in Int
        BY <3>1, DivMod
      <3> HIDE DEF g
      <3>3. a = w + Power[WordBits] * g
        BY <1>3, <3>1, <3>2
      <3>4. QED
        BY <1>3, <2>1, <3>2, <3>3, BitWord
    <2>9. QED
      BY <1>5, <1>7, <2>6, <2>7, <2>8
  <1>8. QED
    BY <1>6, <1>7

\* A shift to the right moves them down and copies of the sign in.
LEMMA RightHas ==
  ASSUME NEW a \in Integers32, NEW b \in Bits, NEW k \in Bits
  PROVE  Bit(RightBy(a, b), k) = Bit(a, IF k + b < WordBits THEN k + b ELSE WordBits - 1)
  <1> DEFINE p == Power[b]
             e == Power[k]
             q == a \div p
  <1>1. WordBits \in Nat \ {0} /\ b \in Nat /\ k \in Nat /\ b < WordBits /\ k < WordBits
        /\ b \in 0 .. WordBits /\ k \in 0 .. WordBits
    BY PowerFacts DEF Bits
  <1>2. p \in Nat \ {0} /\ e \in Nat \ {0} /\ a \in Int /\ q \in Int
    BY <1>1, PowerFacts, HalfAssumption DEF Integers32
  <1>3. Bit(RightBy(a, b), k) = (q \div e) % 2
    BY DEF RightBy, Bit
  <1>4. CASE k + b < WordBits
    <2>1. b + k <= WordBits /\ k + b = b + k
      BY <1>1, <1>4
    <2>2. Power[k + b] = p * e
      BY <1>1, <2>1, PowerSum
    <2>3. q \div e = a \div Power[k + b]
      BY <1>2, <2>2, DivDiv
    <2>4. QED
      BY <1>3, <1>4, <2>3 DEF Bit
  <1>5. CASE ~(k + b < WordBits)
    <2> DEFINE top == WordBits - 1 - b
               c == Power[top]
               m == k - top
    <2>1. top \in Nat /\ top \in 0 .. WordBits /\ b + top = WordBits - 1 /\ b + top <= WordBits
          /\ m \in Nat /\ m \in 0 .. WordBits /\ top + m = k /\ top + m <= WordBits
      BY <1>1, <1>5
    <2>2. Half = p * c /\ c \in Nat \ {0}
      <3>1. Power[b + top] = p * c
        <4> HIDE DEF top
        <4>1. QED
          BY <1>1, <2>1, PowerSum
      <3>2. c \in Nat \ {0}
        <4> HIDE DEF top
        <4>1. QED
          BY <2>1, PowerFacts
      <3>3. QED
        BY <2>1, <3>1, <3>2, WordBitsAssumption
    <2>3. e = c * Power[m] /\ Power[m] \in Nat \ {0}
      BY <2>1, PowerSum, PowerFacts
    <2> HIDE DEF p, e, c, top, m
    <2>4. c <= e
      BY <2>2, <2>3
    <2>5. a \in -(p * c) .. (p * c) - 1 /\ p * c \in Nat
      BY <1>2, <2>2, HalfAssumption DEF Integers32
    <2> DEFINE r == a % p
    <2>6. a = p * q + r /\ r \in 0 .. p - 1
      BY <1>2, DivMod
    <2> HIDE DEF q, r
    <2>7. q < c /\ q >= -c
      <3>1. p * q \in Int /\ p * q < p * c + 0 /\ p * q > -(p * c) - p
        BY <1>2, <2>5, <2>6
      <3>2. q < c
        BY <1>2, <2>2, <3>1
      <3>3. p * (q + c + 1) > 0 /\ q + c + 1 \in Int
        BY <1>2, <2>2, <3>1
      <3>4. q + c + 1 > 0
        BY <1>2, <3>3
      <3>5. QED
        BY <1>2, <2>2, <3>2, <3>4
    <2>8. (a < 0) = (q < 0)
      <3>1. q >= 0 => p * q >= 0
        BY <1>2
      <3>2. q < 0 => p * (q + 1) <= 0 /\ q + 1 \in Int
        BY <1>2
      <3>3. p * (q + 1) = p * q + p /\ p * q \in Int
        BY <1>2
      <3>4. QED
        BY <1>2, <2>6, <3>1, <3>2, <3>3
    <2>9. q \div e = IF a < 0 THEN -1 ELSE 0
      <3>1. CASE a < 0
        <4>1. q = e * (-1) + (q + e) /\ q + e \in 0 .. e - 1 /\ -1 \in Int
          BY <1>2, <2>2, <2>4, <2>7, <2>8, <3>1
        <4>2. QED
          BY <1>2, <3>1, <4>1, DivUnique
      <3>2. CASE ~(a < 0)
        <4>1. q = e * 0 + q /\ q \in 0 .. e - 1 /\ 0 \in Int
          BY <1>2, <2>2, <2>4, <2>7, <2>8, <3>2
        <4>2. QED
          BY <1>2, <3>2, <4>1, DivUnique
      <3>3. QED
        BY <3>1, <3>2
    <2>10. a \div Half = IF a < 0 THEN -1 ELSE 0
      BY <1>2, HalfAssumption DEF Integers32
    <2>11. Bit(a, WordBits - 1) = (a \div Half) % 2
      BY WordBitsAssumption DEF Bit
    <2>12. QED
      BY <1>3, <1>5, <2>9, <2>10, <2>11
  <1>6. QED
    BY <1>4, <1>5

-----------------------------------------------------------------------------
(* The opcodes of integers.                                                 *)

\* A wrapped number is the number modulo the word.
LEMMA Congruent ==
  ASSUME NEW n \in Int
  PROVE  Fits(Int32(n)) /\ (Int32(n) - n) % (2 * Half) = 0
  BY Int32Fits, Int32Wraps

\* And, or and exclusive or, bit by bit.
LEMMA WithBits ==
  ASSUME NEW a \in Int, NEW b \in Int, NEW k \in Bits
  PROVE  /\ Bit(a, k) \in {0, 1} /\ Bit(b, k) \in {0, 1}
         /\ Bit(IntAnd(a, b), k) = Bit(a, k) * Bit(b, k)
         /\ Bit(IntOr(a, b), k) = 1 <=> Bit(a, k) = 1 \/ Bit(b, k) = 1
         /\ Bit(IntXor(a, b), k) = (Bit(a, k) + Bit(b, k)) % 2
  <1>1. Bit(a, k) \in {0, 1} /\ Bit(b, k) \in {0, 1}
    BY BitShift
  <1> DEFINE and == [j \in Bits |-> IF Bit(a, j) = 1 /\ Bit(b, j) = 1 THEN 1 ELSE 0]
             or == [j \in Bits |-> IF Bit(a, j) = 1 \/ Bit(b, j) = 1 THEN 1 ELSE 0]
             xor == [j \in Bits |-> IF Bit(a, j) # Bit(b, j) THEN 1 ELSE 0]
  <1>2. and \in [Bits -> {0, 1}] /\ or \in [Bits -> {0, 1}] /\ xor \in [Bits -> {0, 1}]
    OBVIOUS
  <1>3. /\ and[k] = IF Bit(a, k) = 1 /\ Bit(b, k) = 1 THEN 1 ELSE 0
        /\ or[k] = IF Bit(a, k) = 1 \/ Bit(b, k) = 1 THEN 1 ELSE 0
        /\ xor[k] = IF Bit(a, k) # Bit(b, k) THEN 1 ELSE 0
    OBVIOUS
  <1>4. IntAnd(a, b) = FromBits(and) /\ IntOr(a, b) = FromBits(or) /\ IntXor(a, b) = FromBits(xor)
    BY DEF IntAnd, IntOr, IntXor
  <1> HIDE DEF and, or, xor
  <1>5. Bit(FromBits(and), k) = and[k] /\ Bit(FromBits(or), k) = or[k] /\ Bit(FromBits(xor), k) = xor[k]
    BY <1>2, FromBitsHas
  <1>6. QED
    BY <1>1, <1>3, <1>4, <1>5

\* The division of C: by zero and out of range it faults, else it rounds towards zero.
LEMMA IntDivIsRight ==
  ASSUME NEW a \in Int, NEW b \in Int
  PROVE  IF b = 0 \/ Overflows(a, b) THEN IntDiv(a, b) = Stopped("fault") /\ IntRemainder(a, b) = Stopped("fault")
         ELSE /\ IntDiv(a, b) = Returned(Quot(a, b)) /\ IntRemainder(a, b) = Returned(Rem(a, b))
              /\ Size(a - Quot(a, b) * b) < Size(b)
              /\ Size(Quot(a, b) * b) <= Size(a)
              /\ (a - Rem(a, b)) % Size(b) = 0 /\ Size(Rem(a, b)) < Size(b)
              /\ Rem(a, b) # 0 => (Rem(a, b) < 0) = (a < 0)
  <1>1. CASE b = 0 \/ Overflows(a, b)
    BY <1>1 DEF IntDiv, IntRemainder
  <1>2. CASE ~(b = 0 \/ Overflows(a, b))
    <2>1. IntDiv(a, b) = Returned(Quot(a, b)) /\ IntRemainder(a, b) = Returned(Rem(a, b))
      BY <1>2 DEF IntDiv, IntRemainder
    <2> DEFINE q == Quot(a, b)
               r == Rem(a, b)
    <2>2. b \in Int \ {0}
      BY <1>2
    <2>3. q \in Int /\ r \in Int /\ a = b * q + r
      BY <2>2, QuotType
    <2>4. Size(r) < Size(b) /\ Size(b * q) <= Size(a) /\ (r # 0 => (r < 0) = (a < 0))
      BY <2>2, QuotBounds
    <2> HIDE DEF q, r
    <2>5. q * b = b * q /\ a - q * b = r /\ a - r = b * q
      BY <2>3
    <2>6. (b * q) % Size(b) = 0
      BY <2>2, <2>3, MultipleMod
    <2>7. QED
      BY <1>2, <2>1, <2>4, <2>5, <2>6 DEF q, r
  <1>3. QED
    BY <1>1, <1>2

\* The opcodes of two integers.
LEMMA IntSteps ==
  ASSUME CallInt PROVE IntOpcodesAreRight' /\ BitsAreRight'
  <1>0. PICK op \in IntOpcodes, a, b \in Ints : \E outcome \in IntOpcode(op, a, b) :
          last' = [name |-> op, args |-> [a |-> a, b |-> b], outcome |-> outcome]
    BY DEF CallInt, Calls, Ends
  <1>1. PICK outcome \in IntOpcode(op, a, b) :
          last' = [name |-> op, args |-> [a |-> a, b |-> b], outcome |-> outcome]
    BY <1>0
  <1>2. a \in Int /\ b \in Int /\ a \in Integers32 /\ b \in Integers32
    BY InputsAssumption, HalfAssumption DEF Integers32
  <1>3. CASE op \in {"add", "sub", "mul"}
    <2> DEFINE n == IF op = "add" THEN a + b ELSE IF op = "sub" THEN a - b ELSE a * b
    <2>1. n \in Int /\ outcome = Returned(Int32(n))
      <3>1. a + b \in Int /\ a - b \in Int /\ a * b \in Int
        BY <1>2
      <3>2. n \in Int
        <4> DEFINE product == a * b
        <4> HIDE DEF product
        <4>1. product \in Int
          BY <3>1 DEF product
        <4>2. n = IF op = "add" THEN a + b ELSE IF op = "sub" THEN a - b ELSE product
          BY DEF product
        <4>3. QED
          BY <3>1, <4>1, <4>2
      <3>3. op = "add" => outcome = Returned(Int32(a + b))
        BY <1>1 DEF IntOpcode
      <3>4. op = "sub" => outcome = Returned(Int32(a - b))
        BY <1>1 DEF IntOpcode
      <3>5. op = "mul" => outcome = Returned(Int32(a * b))
        BY <1>1 DEF IntOpcode
      <3>6. QED
        BY <1>3, <3>2, <3>3, <3>4, <3>5
    <2>2. outcome.how = "returned" /\ Fits(outcome.value) /\ (outcome.value - n) % (2 * Half) = 0
      <3> HIDE DEF n
      <3>1. QED
        BY <2>1, Congruent DEF Returned
    <2>3. op = "add" => IntOpcodesAreRight'
      BY <1>1, <2>2 DEF IntOpcodesAreRight, Returns, Called, How, Value, Args
    <2>4. op = "sub" => IntOpcodesAreRight'
      BY <1>1, <2>2 DEF IntOpcodesAreRight, Returns, Called, How, Value, Args
    <2>5. op = "mul" => IntOpcodesAreRight'
      BY <1>1, <2>2 DEF IntOpcodesAreRight, Returns, Called, How, Value, Args
    <2>6. BitsAreRight'
      BY <1>1, <1>3 DEF BitsAreRight, Returns, Called
    <2>7. QED
      BY <1>3, <2>3, <2>4, <2>5, <2>6
  <1>4. CASE op = "div"
    <2>1. outcome = IntDiv(a, b)
      BY <1>1, <1>4 DEF IntOpcode
    <2>2. IntOpcodesAreRight'
      <3>1. CASE b = 0 \/ Overflows(a, b)
        <4>1. outcome = Stopped("fault")
          BY <1>2, <2>1, <3>1, IntDivIsRight
        <4>2. QED
          BY <1>1, <1>4, <3>1, <4>1
          DEF IntOpcodesAreRight, Returns, Called, How, Value, Args, Stopped, Overflows
      <3>2. CASE ~(b = 0 \/ Overflows(a, b))
        <4>1. outcome = Returned(Quot(a, b)) /\ Size(a - Quot(a, b) * b) < Size(b) /\ Size(Quot(a, b) * b) <= Size(a)
          BY <1>2, <2>1, <3>2, IntDivIsRight
        <4>2. QED
          BY <1>1, <1>4, <4>1 DEF IntOpcodesAreRight, Returns, Called, How, Value, Args, Returned
      <3>3. QED
        BY <3>1, <3>2
    <2>3. BitsAreRight'
      BY <1>1, <1>4 DEF BitsAreRight, Returns, Called
    <2>4. QED
      BY <2>2, <2>3
  <1>b. CASE op = "remainder"
    <2>1. outcome = IntRemainder(a, b)
      BY <1>1, <1>b DEF IntOpcode
    <2>2. IntOpcodesAreRight'
      <3>1. CASE b = 0 \/ Overflows(a, b)
        <4>1. outcome = Stopped("fault")
          BY <1>2, <2>1, <3>1, IntDivIsRight
        <4>2. QED
          BY <1>1, <1>b, <3>1, <4>1
          DEF IntOpcodesAreRight, Returns, Called, How, Value, Args, Stopped, Overflows
      <3>2. CASE ~(b = 0 \/ Overflows(a, b))
        <4>1. /\ outcome = Returned(Rem(a, b)) /\ (a - Rem(a, b)) % Size(b) = 0 /\ Size(Rem(a, b)) < Size(b)
              /\ Rem(a, b) # 0 => (Rem(a, b) < 0) = (a < 0)
          BY <1>2, <2>1, <3>2, IntDivIsRight
        <4>2. QED
          BY <1>1, <1>b, <4>1 DEF IntOpcodesAreRight, Returns, Called, How, Value, Args, Returned
      <3>3. QED
        BY <3>1, <3>2
    <2>3. BitsAreRight'
      BY <1>1, <1>b DEF BitsAreRight, Returns, Called
    <2>4. QED
      BY <2>2, <2>3
  <1>5. CASE op = "fixedMul"
    <2> DEFINE product == a * b
               value == Quot(Int32(product), FixedFactor)
    <2>a. product \in Int
      BY <1>2
    <2>1. outcome = FixedMul(a, b) /\ product \in Int
      BY <1>1, <1>5, <2>a DEF IntOpcode
    <2>2. outcome = Returned(value)
      BY <2>1 DEF FixedMul
    <2> HIDE DEF product
    <2>3. Fits(product) => Size(product - value * FixedFactor) < FixedFactor
      <3>1. Fits(product) => Int32(product) = product
        BY <2>1, Int32Fits
      <3>2. QED
        BY <2>1, <3>1 DEF Quot, Size, FixedFactor
    <2> HIDE DEF value
    <2>4. IntOpcodesAreRight'
      BY <1>1, <1>5, <2>2, <2>3 DEF IntOpcodesAreRight, Returns, Called, How, Value, Args, Returned, product
    <2>5. BitsAreRight'
      BY <1>1, <1>5 DEF BitsAreRight, Returns, Called
    <2>6. QED
      BY <2>4, <2>5
  <1>6. CASE op = "fixedDiv"
    <2> DEFINE n == Int32(a * FixedFactor)
    <2>1. outcome = IntDiv(n, b)
      BY <1>1, <1>6 DEF IntOpcode, FixedDiv
    <2>2. a * FixedFactor \in Int
      BY <1>2 DEF FixedFactor
    <2>3. n \in Int /\ (Fits(a * FixedFactor) => n = a * FixedFactor)
      BY <2>2, Int32Fits
    <2>4. IntOpcodesAreRight'
      <3>1. CASE b = 0 \/ Overflows(n, b)
        <4>1. outcome = Stopped("fault")
          BY <1>2, <2>1, <2>3, <3>1, IntDivIsRight
        <4>2. b = 0 \/ (b = -1 /\ Int32(a * FixedFactor) = -Half)
          BY <3>1 DEF Overflows
        <4>3. QED
          BY <1>1, <1>6, <4>1, <4>2 DEF IntOpcodesAreRight, Returns, Called, How, Value, Args, Stopped
      <3>2. CASE ~(b = 0 \/ Overflows(n, b))
        <4>1. outcome = Returned(Quot(n, b)) /\ Size(n - Quot(n, b) * b) < Size(b)
          <5> HIDE DEF n
          <5>1. QED
            BY <1>2, <2>1, <2>3, <3>2, IntDivIsRight
        <4>2. QED
          <5> HIDE DEF n
          <5>1. QED
            BY <1>1, <1>6, <2>3, <4>1 DEF IntOpcodesAreRight, Returns, Called, How, Value, Args, Returned
      <3>3. QED
        BY <3>1, <3>2
    <2>5. BitsAreRight'
      BY <1>1, <1>6 DEF BitsAreRight, Returns, Called
    <2>6. QED
      BY <2>4, <2>5
  <1>c. CASE op \in {"and", "or", "xor", "shiftLeft", "shiftRight"}
    <2>1. outcome.how = "returned"
      <3>1. op = "and" => outcome.how = "returned"
        BY <1>1 DEF IntOpcode, Returned
      <3>2. op = "or" => outcome.how = "returned"
        BY <1>1 DEF IntOpcode, Returned
      <3>3. op = "xor" => outcome.how = "returned"
        BY <1>1 DEF IntOpcode, Returned
      <3>4. op = "shiftLeft" => outcome \in ShiftLeft(a, b)
        BY <1>1 DEF IntOpcode
      <3>5. op = "shiftRight" => outcome \in ShiftRight(a, b)
        BY <1>1 DEF IntOpcode
      <3>6. \A o \in ShiftLeft(a, b) \cup ShiftRight(a, b) : o.how = "returned"
        BY DEF ShiftLeft, ShiftRight, Returned
      <3>7. QED
        BY <1>c, <3>1, <3>2, <3>3, <3>4, <3>5, <3>6
    <2>2. IntOpcodesAreRight'
      BY <1>1, <1>c, <2>1 DEF IntOpcodesAreRight, Returns, Called, How
    <2>3. BitsAreRight'
      <3>1. CASE op = "and"
        <4>1. outcome = Returned(IntAnd(a, b))
          BY <1>1, <3>1 DEF IntOpcode
        <4>2. \A k \in Bits : Bit(IntAnd(a, b), k) = Bit(a, k) * Bit(b, k)
          BY <1>2, WithBits
        <4>3. QED
          BY <1>1, <3>1, <4>1, <4>2 DEF BitsAreRight, Returns, Called, Value, Args, Returned
      <3>2. CASE op = "or"
        <4>1. outcome = Returned(IntOr(a, b))
          BY <1>1, <3>2 DEF IntOpcode
        <4>2. \A k \in Bits : Bit(IntOr(a, b), k) = 1 <=> Bit(a, k) = 1 \/ Bit(b, k) = 1
          BY <1>2, WithBits
        <4>3. QED
          BY <1>1, <3>2, <4>1, <4>2 DEF BitsAreRight, Returns, Called, Value, Args, Returned
      <3>3. CASE op = "xor"
        <4>1. outcome = Returned(IntXor(a, b))
          BY <1>1, <3>3 DEF IntOpcode
        <4>2. \A k \in Bits : Bit(IntXor(a, b), k) = (Bit(a, k) + Bit(b, k)) % 2
          BY <1>2, WithBits
        <4>3. QED
          BY <1>1, <3>3, <4>1, <4>2 DEF BitsAreRight, Returns, Called, Value, Args, Returned
      <3>4. CASE op = "shiftLeft"
        <4>1. ASSUME b \in Bits PROVE outcome = Returned(LeftBy(a, b))
          <5>1. b % WordBits = b /\ b \in 0 .. WordBits - 1
            BY <4>1, PowerFacts DEF Bits
          <5>2. QED
            BY <1>1, <3>4, <5>1 DEF IntOpcode, ShiftLeft
        <4>2. ASSUME b \in Bits PROVE \A k \in Bits : Bit(LeftBy(a, b), k) = IF k < b THEN 0 ELSE Bit(a, k - b)
          BY <1>2, <4>2, LeftHas
        <4>3. b \in Bits => \A k \in Bits : Bit(outcome.value, k) = IF k < b THEN 0 ELSE Bit(a, k - b)
          BY <4>1, <4>2 DEF Returned
        <4>4. /\ last'.name = op /\ last'.args.a = a /\ last'.args.b = b /\ last'.outcome.value = outcome.value
          BY <1>1
        <4>5. QED
          BY <3>4, <4>3, <4>4 DEF BitsAreRight, Returns, Called, Value, Args
      <3>5. CASE op = "shiftRight"
        <4>1. ASSUME b \in Bits PROVE outcome = Returned(RightBy(a, b))
          <5>1. b % WordBits = b /\ b \in 0 .. WordBits - 1
            BY <4>1, PowerFacts DEF Bits
          <5>2. QED
            BY <1>1, <3>5, <5>1 DEF IntOpcode, ShiftRight
        <4>2. ASSUME b \in Bits
              PROVE  \A k \in Bits : Bit(RightBy(a, b), k) = Bit(a,
                   IF k + b < WordBits THEN k + b ELSE WordBits - 1)
          BY <1>2, <4>2, RightHas
        <4>3. b \in Bits => \A k \in Bits : Bit(outcome.value, k) = Bit(a,
             IF k + b < WordBits THEN k + b ELSE WordBits - 1)
          BY <4>1, <4>2 DEF Returned
        <4>4. /\ last'.name = op /\ last'.args.a = a /\ last'.args.b = b /\ last'.outcome.value = outcome.value
          BY <1>1
        <4>5. QED
          BY <3>5, <4>3, <4>4 DEF BitsAreRight, Returns, Called, Value, Args
      <3>6. QED
        BY <1>c, <3>1, <3>2, <3>3, <3>4, <3>5
    <2>4. QED
      BY <2>2, <2>3
  <1>10. CASE op \in Comparisons
    <2>1. outcome = Returned(Compared(op, a, b))
      BY <1>1, <1>10 DEF IntOpcode, Comparisons
    <2>2. QED
      BY <1>1, <1>10, <2>1
      DEF IntOpcodesAreRight, BitsAreRight, Returns, Called, How, Value, Args, Returned, Comparisons
  <1>11. QED
    BY <1>3, <1>4, <1>b, <1>5, <1>6, <1>c, <1>10 DEF IntOpcodes, Products

\* The bitwise not.
LEMMA NotSteps ==
  ASSUME CallNot PROVE BitsAreRight'
  <1>1. PICK a \in Ints : last' = [name |-> "not", args |-> [a |-> a], outcome |-> IntNot(a)]
    BY DEF CallNot, Calls, Ends
  <1>2. a \in Int
    BY InputsAssumption, HalfAssumption DEF Integers32
  <1>3. QED
    BY <1>1, <1>2, NotHas DEF BitsAreRight, Returns, Called, How, Value, Args, Returned, IntNot

\* The negation.
LEMMA NegateSteps ==
  ASSUME CallNegate PROVE IntOpcodesAreRight'
  <1>1. PICK a \in Ints : last' = [name |-> "negate", args |-> [a |-> a], outcome |-> IntNegate(a)]
    BY DEF CallNegate, Calls, Ends
  <1>2. a \in Int /\ -a \in Int
    BY InputsAssumption, HalfAssumption DEF Integers32
  <1>3. Fits(Int32(-a)) /\ (Int32(-a) + a) % (2 * Half) = 0
    <2>1. Int32(-a) - (-a) = Int32(-a) + a
      BY <1>2, Int32Fits
    <2>2. QED
      BY <1>2, <2>1, Congruent
  <1>4. QED
    BY <1>1, <1>3 DEF IntOpcodesAreRight, IntOpcodes, Products, Comparisons, Returns, Called, How, Value,
       Args, Returned, IntNegate

-----------------------------------------------------------------------------
(* The functions of lists, arrays and Maybes, and the opcodes that make them. *)

\* What fits is allocated.
LEMMA AllocationFits ==
  ASSUME NEW traps, NEW count \in 0 .. Capacity, NEW then
  PROVE  Allocated(traps, count, then) = then
  <1>1. ~(count > Capacity)
    BY CapacityAssumption, HalfAssumption
  <1>2. QED
    BY <1>1 DEF Allocated

\* A panic stops the process or leaves no result.
LEMMA PanicEnds == \A traps : Panic(traps).how = IF traps THEN "trap" ELSE "notSet"
  BY DEF Panic, AfterError, Stopped, NotSet

\* What an allocation ends in: what follows it, or one of the ways to stop.
LEMMA AllocatedEnds ==
  ASSUME NEW traps, NEW count \in Int, NEW then, NEW outcome \in Allocated(traps, count, then)
  PROVE  \/ count \in 0 .. Capacity /\ outcome \in then
         \/ count > Capacity /\ outcome.how \in {"trap", "abort"}
         \/ count < 0 /\ outcome.how \in {"trap", "abort", "fault"}
  <1>1. Capacity \in Nat
    BY CapacityAssumption, HalfAssumption
  <1>2. CASE count \in 0 .. Capacity
    BY <1>1, <1>2, AllocationFits
  <1>3. CASE count > Capacity
    BY <1>1, <1>3 DEF Allocated, Stopped
  <1>4. CASE count < 0
    BY <1>1, <1>4 DEF Allocated, Stopped
  <1>5. QED
    BY <1>1, <1>2, <1>3, <1>4

\* List.head.
LEMMA HeadSteps ==
  ASSUME CallHead PROVE ListsAreRight'
  <1>1. PICK list \in Lists : last' = [name |-> "List.head", args |-> [list |-> list],
       outcome |-> ListHead(list)]
    BY DEF CallHead, Calls, Ends
  <1>2. list \in Seq(Words)
    BY InputsAssumption
  <1>3. ListHead(list) = Returned(IF list = << >> THEN << >> ELSE <<list[1]>>)
    BY DEF ListHead, Nothing, Just
  <1>4. <<list[1]>> # << >>
    OBVIOUS
  <1>5. /\ last'.name = "List.head" /\ Args'.list = list
        /\ Value' = IF list = << >> THEN << >> ELSE <<list[1]>>
    BY <1>1, <1>3 DEF Args, Value, Returned
  <1>6. QED
    BY <1>4, <1>5 DEF ListsAreRight, Returns, Called, Nothing, Just

\* List.isEmpty.
LEMMA IsEmptySteps ==
  ASSUME CallIsEmpty PROVE ListsAreRight'
  <1>1. PICK list \in Lists : last' = [name |-> "List.isEmpty", args |-> [list |-> list],
       outcome |-> ListIsEmpty(list)]
    BY DEF CallIsEmpty, Calls, Ends
  <1>2. list \in Seq(Words)
    BY InputsAssumption
  <1>3. (Len(list) = 0) = (list = << >>)
    BY <1>2, EmptySeq
  <1>4. ListIsEmpty(list) = Returned(list = << >>)
    BY <1>3 DEF ListIsEmpty
  <1>5. QED
    BY <1>1, <1>4 DEF ListsAreRight, Returns, Called, How, Value, Args, Returned

\* List.length.
LEMMA LengthSteps ==
  ASSUME CallLength PROVE ListsAreRight'
  <1>1. PICK name \in {"List.length", "Array.length"}, list \in Lists :
          last' = [name |-> name, args |-> [list |-> list], outcome |-> Length(list)]
    BY DEF CallLength, Calls, Ends
  <1>2. list \in Seq(Words)
    BY InputsAssumption
  <1>3. Cardinality(DOMAIN list) = Len(list)
    <2>1. DOMAIN list = 1 .. Len(list) /\ Len(list) \in Nat
      BY <1>2
    <2>2. Cardinality(1 .. Len(list)) = IF 1 > Len(list) THEN 0 ELSE Len(list) - 1 + 1
      BY <2>1, FS_Interval
    <2>3. QED
      BY <2>1, <2>2
  <1>4. QED
    BY <1>1, <1>3 DEF ListsAreRight, Returns, Called, How, Value, Args, Returned, Length

\* List.member.
LEMMA MemberSteps ==
  ASSUME CallMember PROVE MembersAreRight'
  <1>1. PICK data \in Words, list \in Lists :
          last' = [name |-> "List.member", args |-> [data |-> data, list |-> list],
               outcome |-> ListMember(data, list)]
    BY DEF CallMember, Calls, Ends
  <1>2. DOMAIN list = 1 .. Len(list)
    BY InputsAssumption
  <1>3. ListMember(data, list) = Returned(\E i \in DOMAIN list : list[i] = data)
    BY <1>2 DEF ListMember
  <1>4. QED
    BY <1>1, <1>3 DEF MembersAreRight, Returns, Called, How, Value, Args, Returned

\* List.range0.
LEMMA Range0Steps ==
  ASSUME CallRange0 PROVE ListsAreRight'
  <1>0. PICK length \in Ints : \E outcome \in ListRange0(errorTraps, length) :
          last' = [name |-> "List.range0", args |-> [length |-> length], outcome |-> outcome]
    BY DEF CallRange0, Calls, Ends
  <1>1. PICK outcome \in ListRange0(errorTraps, length) :
          last' = [name |-> "List.range0", args |-> [length |-> length], outcome |-> outcome]
    BY <1>0
  <1>2. length \in Int /\ Capacity \in Nat
    BY InputsAssumption, HalfAssumption, CapacityAssumption DEF Integers32
  <1>3. CASE length \in 0 .. Capacity
    <2> DEFINE value == [i \in 1 .. length |-> i - 1]
    <2>1. outcome = Returned(value)
      BY <1>3, AllocationFits DEF ListRange0
    <2>2. value \in Seq(Int) /\ Len(value) = length /\ \A k \in DOMAIN value : value[k] = k - 1
      BY <1>2, <1>3
    <2> HIDE DEF value
    <2>3. QED
      BY <1>1, <1>2, <1>3, <2>1, <2>2 DEF ListsAreRight, Returns, Called, How, Value, Args, Returned
  <1>4. CASE length < 0
    <2>1. outcome.how \in {"trap", "abort", "fault"}
      BY <1>2, <1>4, AllocatedEnds DEF ListRange0
    <2>2. QED
      BY <1>1, <1>2, <1>4, <2>1 DEF ListsAreRight, Returns, Called, How, Args, IsStopped
  <1>5. CASE length > Capacity
    <2>1. outcome.how \in {"trap", "abort"}
      BY <1>2, <1>5, AllocatedEnds DEF ListRange0
    <2>2. QED
      BY <1>1, <1>2, <1>5, <2>1 DEF ListsAreRight, Returns, Called, How, Args
  <1>6. QED
    BY <1>2, <1>3, <1>4, <1>5

\* The functions that hand on what they get.
LEMMA SameSteps ==
  ASSUME CallSame PROVE ListsAreRight'
  <1>1. PICK name \in {"Array.fromList", "Array.toList"}, list \in Lists :
          last' = [name |-> name, args |-> [list |-> list], outcome |-> Same(list)]
    BY DEF CallSame, Calls, Ends
  <1>2. QED
    BY <1>1 DEF ListsAreRight, Returns, Called, How, Value, Args, Returned, Same

\* Array.get; Array.repeat is the same code.
LEMMA GetSteps ==
  ASSUME CallGet PROVE IndicesAreRight'
  <1>1. PICK name \in {"Array.get", "Array.repeat"}, index \in Ints, list \in Lists :
          last' = [name |-> name, args |-> [index |-> index, list |-> list], outcome |-> ArrayGet(index, list)]
    BY DEF CallGet, Calls, Ends
  <1>2. index \in Int /\ Len(list) \in Nat
    BY InputsAssumption, HalfAssumption DEF Integers32
  <1>3. Has(list, index) <=> index \in 0 .. Len(list) - 1
    BY <1>2 DEF Has
  <1>4. QED
    BY <1>1, <1>3 DEF IndicesAreRight, Called, How, Value, Args, Returned, ArrayGet

\* Array.grab.
LEMMA GrabSteps ==
  ASSUME CallGrab PROVE IndicesAreRight'
  <1>1. PICK index \in Ints, list \in Lists :
          last' = [name |-> "Array.grab", args |-> [index |-> index, list |-> list],
                   outcome |-> ArrayGrab(errorTraps, index, list)]
    BY DEF CallGrab, Calls, Ends
  <1>2. index \in Int /\ Len(list) \in Nat /\ errorTraps' = errorTraps
    BY InputsAssumption, HalfAssumption DEF Integers32, CallGrab, Calls, Ends
  <1>3. Has(list, index) <=> index \in 0 .. Len(list) - 1
    BY <1>2 DEF Has
  <1>4. /\ last'.name = "Array.grab" /\ Args'.index = index /\ Args'.list = list
        /\ How' = ArrayGrab(errorTraps, index, list).how /\ Value' = ArrayGrab(errorTraps, index, list).value
    BY <1>1 DEF Args, How, Value
  <1>5. IF Len(list) <= 2048 /\ Has(list, index) THEN ArrayGrab(errorTraps, index, list) = Returned(list[index + 1])
        ELSE ArrayGrab(errorTraps, index, list).how = IF errorTraps THEN "trap" ELSE "notSet"
    <2>1. Panic(errorTraps).how = IF errorTraps THEN "trap" ELSE "notSet"
      BY PanicEnds
    <2>2. CASE Len(list) <= 2048 /\ Has(list, index)
      BY <1>2, <2>2 DEF ArrayGrab, GrabLimit
    <2>3. CASE ~(Len(list) <= 2048 /\ Has(list, index))
      <3>1. ArrayGrab(errorTraps, index, list) = Panic(errorTraps)
        BY <1>2, <2>3 DEF ArrayGrab, GrabLimit
      <3>2. QED
        BY <2>1, <2>3, <3>1
    <2>4. QED
      BY <2>2, <2>3
  <1>6. QED
    BY <1>2, <1>3, <1>4, <1>5 DEF IndicesAreRight, Called, Returned

\* Array.set and Array.slice.
LEMMA SetSteps ==
  ASSUME CallSet PROVE IndicesAreRight'
  <1>1. PICK name \in {"Array.set", "Array.slice"}, index \in Ints, list \in Lists :
          last' = [name |-> name, args |-> [index |-> index, list |-> list],
                   outcome |-> ArraySet(errorTraps, index, list)]
    BY DEF CallSet, Calls, Ends
  <1>2. index \in Int /\ Len(list) \in Nat /\ errorTraps' = errorTraps
    BY InputsAssumption, HalfAssumption DEF Integers32, CallSet, Calls, Ends
  <1>3. Has(list, index) <=> index \in 0 .. Len(list) - 1
    BY <1>2 DEF Has
  <1>4. QED
    BY <1>1, <1>2, <1>3
    DEF IndicesAreRight, Called, How, Value, Args, Returned, ArraySet, Panic, AfterError, Stopped, NotSet

\* Maybe.withDefault.
LEMMA WithDefaultSteps ==
  ASSUME CallWithDefault PROVE MaybesAreRight'
  <1>1. PICK default \in Words, maybe \in Maybes :
          last' = [name |-> "Maybe.withDefault", args |-> [default |-> default, maybe |-> maybe],
                   outcome |-> MaybeWithDefault(default, maybe)]
    BY DEF CallWithDefault, Calls, Ends
  <1>2. maybe.tag \in {0, 1}
    BY InputsAssumption
  <1>3. QED
    BY <1>1, <1>2 DEF MaybesAreRight, Returns, Called, How, Value, Args, Returned, MaybeWithDefault

\* Maybe.maybe.
LEMMA MaybeSteps ==
  ASSUME CallMaybe PROVE MaybesAreRight'
  <1>1. PICK default \in Words, maybe \in Maybes :
          last' = [name |-> "Maybe.maybe", args |-> [default |-> default, maybe |-> maybe],
                   outcome |-> MaybeMaybe(default, maybe)]
    BY DEF CallMaybe, Calls, Ends
  <1>2. maybe.tag \in {0, 1} /\ maybe.restIsZero \in BOOLEAN
    BY InputsAssumption
  <1> DEFINE value == IF maybe.tag = 0 /\ maybe.restIsZero THEN [default |-> default]
                      ELSE [appliedTo |-> maybe.beyond]
  <1>3. /\ maybe.tag = 1 => DOMAIN value = {"appliedTo"}
        /\ maybe.tag # 1 /\ maybe.restIsZero => DOMAIN value = {"default"}
    BY <1>2
  <1>4. MaybeMaybe(default, maybe) = Returned(value)
    BY DEF MaybeMaybe
  <1> HIDE DEF value
  <1>5. QED
    BY <1>1, <1>3, <1>4 DEF MaybesAreRight, Returns, Called, How, Value, Args, Returned

\* The opcodes that make a list or an array.
LEMMA ListCreateSteps ==
  ASSUME CallListCreate PROVE MadeOfOthers'
  <1>1. PICK name \in {"listCreate", "arrayCreate"}, list \in SizedLists :
          \E outcome \in ListCreate(errorTraps, list.size, list.items) :
            last' = [name |-> name, args |-> [list |-> list], outcome |-> outcome]
    BY DEF CallListCreate, Calls, Ends
  <1>2. ListOf(list.size, list.items) = list
    BY ValuesAssumption DEF ListOf
  <1>3. PICK outcome \in ListCreate(errorTraps, list.size, list.items) :
          last' = [name |-> name, args |-> [list |-> list], outcome |-> outcome]
    BY <1>1
  <1>4. outcome.how = "returned" => outcome.value = list
    <2>a. list.items \in Seq(Words)
      BY ValuesAssumption
    <2>1. Len(list.items) \in Int
      BY <2>a
    <2>2. outcome.how = "returned" => outcome = Returned(list)
      BY <1>2, <2>1, AllocatedEnds DEF ListCreate
    <2>3. QED
      BY <2>2 DEF Returned
  <1>5. last'.name = name /\ Args'.list = list /\ How' = outcome.how /\ Value' = outcome.value
    BY <1>3 DEF Args, How, Value
  <1>6. QED
    BY <1>4, <1>5 DEF MadeOfOthers, Returns, Called

\* The opcode that puts an item behind a list.
LEMMA ListConjSteps ==
  ASSUME CallListConj PROVE MadeOfOthers'
  <1>1. PICK list \in SizedLists, item \in Words, size \in {4, 8} :
          \E outcome \in ListConj(errorTraps, list, item, size) :
            /\ last' = [name |-> "listConj", args |-> [list |-> list, item |-> item, size |-> size],
                 outcome |-> outcome]
            /\ errorTraps' = errorTraps
    BY DEF CallListConj, Calls, Ends
  <1>2. list.items \in Seq(Words)
    BY ValuesAssumption
  <1> DEFINE items == <<item>> \o list.items
  <1>3. Head(items) = item /\ Tail(items) = list.items
    BY <1>2
  <1> DEFINE value == [size |-> size, items |-> items]
  <1>4. PICK outcome \in ListConj(errorTraps, list, item, size) :
          /\ last' = [name |-> "listConj", args |-> [list |-> list, item |-> item, size |-> size],
               outcome |-> outcome]
          /\ errorTraps' = errorTraps
    BY <1>1
  <1> DEFINE wrong == errorTraps /\ list.items # << >> /\ list.size # size
  <1>5. outcome.how = "returned" => outcome = Returned(value) /\ ~wrong
    <2>1. Len(list.items) + 1 \in Int
      BY <1>2
    <2>2. CASE wrong
      BY <2>2 DEF ListConj, Stopped
    <2>3. CASE ~wrong
      <3>1. outcome \in Allocated(errorTraps, Len(list.items) + 1, {Returned(value)})
        BY <2>3 DEF ListConj, ListOf
      <3> HIDE DEF value, wrong
      <3>2. QED
        BY <2>1, <2>3, <3>1, AllocatedEnds
    <2>4. QED
      BY <2>2, <2>3
  <1>6. value.size = size /\ value.items = items
    OBVIOUS
  <1> HIDE DEF items, value
  <1>7. /\ last'.name = "listConj" /\ Args'.list = list /\ Args'.item = item /\ Args'.size = size
        /\ How' = outcome.how /\ Value' = outcome.value /\ errorTraps' = errorTraps
    BY <1>4 DEF Args, How, Value
  <1>8. How' = "returned" => Value' = value /\ ~wrong
    BY <1>5, <1>7 DEF Returned
  <1>9. QED
    BY <1>3, <1>6, <1>7, <1>8 DEF MadeOfOthers, Returns, Called

\* The opcode that joins lists.
LEMMA ListAppendSteps ==
  ASSUME CallListAppend PROVE MadeOfOthers'
  <1>0. PICK a, b \in SizedLists : \E outcome \in ListAppend(errorTraps, a, b) :
          last' = [name |-> "listAppend", args |-> [a |-> a, b |-> b], outcome |-> outcome]
    BY DEF CallListAppend, Calls, Ends
  <1>1. PICK outcome \in ListAppend(errorTraps, a, b) :
          last' = [name |-> "listAppend", args |-> [a |-> a, b |-> b], outcome |-> outcome]
    BY <1>0
  <1>2. a.items \in Seq(Words) /\ b.items \in Seq(Words) /\ a = ListOf(a.size, a.items) /\ b = ListOf(b.size, b.items)
    BY ValuesAssumption DEF ListOf
  <1> DEFINE both == a.items \o b.items
             Good == /\ outcome.how = "returned" =>
                          /\ outcome.value.items = both
                          /\ a.items # << >> => outcome.value.size = a.size
                          /\ b.items # << >> => outcome.value.size = b.size
                     /\ outcome.how # "returned" => a.size # b.size \/ Len(a.items) + Len(b.items) > Capacity
  <1>7. Good
    <2>1. CASE a.items # << >> /\ b.items # << >> /\ a.size # b.size
      <3>1. outcome = Stopped("abort")
        BY <2>1 DEF ListAppend
      <3>2. QED
        BY <2>1, <3>1 DEF Stopped
    <2>2. CASE a.items = << >>
      <3>1. outcome = Returned(b) /\ both = b.items
        BY <1>2, <2>2 DEF ListAppend
      <3>2. QED
        BY <2>2, <3>1 DEF Returned
    <2>3. CASE a.items # << >> /\ b.items = << >>
      <3>1. outcome = Returned(a) /\ both = a.items
        BY <1>2, <2>3 DEF ListAppend
      <3>2. QED
        BY <2>3, <3>1 DEF Returned
    <2>4. CASE a.items # << >> /\ b.items # << >> /\ a.size = b.size
      <3> DEFINE value == ListOf(a.size, both)
                 count == Len(a.items) + Len(b.items)
      <3>1. outcome \in Allocated(errorTraps, count, {Returned(value)})
        BY <2>4 DEF ListAppend
      <3>2. Len(a.items) \in Nat /\ Len(b.items) \in Nat
        BY <1>2
      <3> HIDE DEF both
      <3>a. count \in Nat
        <4>1. \A m, n \in Nat : m + n \in Nat
          OBVIOUS
        <4>2. QED
          BY <3>2, <4>1, Zenon
      <3>b. value.size = a.size /\ value.items = both
        BY DEF ListOf
      <3>3. count \in Nat /\ value.size = a.size /\ value.items = both
        BY <3>a, <3>b
      <3> HIDE DEF value
      <3>4. outcome = Returned(value) \/ (outcome.how # "returned" /\ count > Capacity)
        <4> HIDE DEF count
        <4>1. QED
          BY <3>1, <3>3, AllocatedEnds
      <3>5. CASE outcome = Returned(value)
        <4>1. outcome.how = "returned" /\ outcome.value = value
          BY <3>5 DEF Returned
        <4>2. QED
          BY <2>4, <3>3, <4>1
      <3>6. CASE outcome.how # "returned" /\ count > Capacity
        BY <3>6
      <3>7. QED
        BY <3>4, <3>5, <3>6
    <2>5. QED
      BY <2>1, <2>2, <2>3, <2>4
  <1>8. /\ last'.name = "listAppend" /\ Args'.a = a /\ Args'.b = b
        /\ How' = outcome.how /\ Value' = outcome.value
    BY <1>1 DEF Args, How, Value
  <1> HIDE DEF both
  <1>9. QED
    BY <1>7, <1>8 DEF MadeOfOthers, Returns, Called, both

\* The opcode that joins strings.
LEMMA StringAppendSteps ==
  ASSUME CallStringAppend PROVE MadeOfOthers'
  <1>1. PICK a, b \in Strings : \E outcome \in StringAppend(errorTraps, a, b) :
          last' = [name |-> "stringAppend", args |-> [a |-> a, b |-> b], outcome |-> outcome]
    BY DEF CallStringAppend, Calls, Ends
  <1>2. PICK outcome \in StringAppend(errorTraps, a, b) :
          last' = [name |-> "stringAppend", args |-> [a |-> a, b |-> b], outcome |-> outcome]
    BY <1>1
  <1>3. outcome.how = "returned" => outcome = Returned(a \o b)
    <2>1. Len(a \o b) + 1 \in Int
      BY ValuesAssumption
    <2>2. QED
      BY <2>1, AllocatedEnds DEF StringAppend, Text
  <1>4. /\ last'.name = "stringAppend" /\ Args'.a = a /\ Args'.b = b
        /\ How' = outcome.how /\ Value' = outcome.value
    BY <1>2 DEF Args, How, Value
  <1>5. QED
    BY <1>3, <1>4 DEF MadeOfOthers, Returns, Called, Returned

\* The opcode that compares strings.
LEMMA StringEqualSteps ==
  ASSUME CallStringEqual PROVE MadeOfOthers'
  <1>1. PICK a, b \in Strings :
          last' = [name |-> "stringEqual", args |-> [a |-> a, b |-> b], outcome |-> Returned(StringEqual(a, b))]
    BY DEF CallStringEqual, Calls, Ends
  <1>2. StringEqual(a, b) = (a = b)
    <2>1. a \in Seq(Nat) /\ b \in Seq(Nat)
      BY ValuesAssumption
    <2>2. StringEqual(a, b) <=> a = b
      BY <2>1 DEF StringEqual
    <2>3. QED
      BY <2>2 DEF StringEqual
  <1>3. QED
    BY <1>1, <1>2 DEF MadeOfOthers, Returns, Called, How, Value, Args, Returned

\* The opcode that writes an enum.
LEMMA SetEnumSteps ==
  ASSUME CallSetEnum PROVE FramesAreKept'
  <1>1. PICK frame \in FirstFrames, tag \in Tags :
          \E at \in 0 .. Len(frame) - 1 : \E size \in 0 .. Len(frame) - at :
            last' = [name |-> "setEnum", args |-> [frame |-> frame, at |-> at, tag |-> tag, size |-> size],
                     outcome |-> SetEnum(frame, at, tag, size)]
    BY DEF CallSetEnum, Calls, Ends
  <1>2. PICK at \in 0 .. Len(frame) - 1 : \E size \in 0 .. Len(frame) - at :
            last' = [name |-> "setEnum", args |-> [frame |-> frame, at |-> at, tag |-> tag, size |-> size],
                     outcome |-> SetEnum(frame, at, tag, size)]
    BY <1>1
  <1>3. PICK size \in 0 .. Len(frame) - at :
            last' = [name |-> "setEnum", args |-> [frame |-> frame, at |-> at, tag |-> tag, size |-> size],
                     outcome |-> SetEnum(frame, at, tag, size)]
    BY <1>2
  <1>4. frame \in Seq(Int) /\ Len(frame) \in Nat /\ DOMAIN frame = 1 .. Len(frame)
    BY ValuesAssumption
  <1> DEFINE octets == [k \in 1 .. size |-> IF k = 1 THEN tag ELSE 0]
             value == FrameWith(frame, at, octets)
  <1>5. /\ \A k \in DOMAIN frame \ (at + 1 .. at + size) : value[k] = frame[k]
        /\ SubSeq(value, at + 1, at + size) = octets
    <2>1. value = [k \in 1 .. Len(frame) |-> IF k - at \in 1 .. size THEN octets[k - at] ELSE frame[k]]
      BY <1>4 DEF FrameWith
    <2>2. at \in Int /\ size \in Int /\ at + size <= Len(frame) /\ at >= 0 /\ size >= 0
      BY <1>4
    <2> HIDE DEF value
    <2>3. \A k \in DOMAIN frame \ (at + 1 .. at + size) : value[k] = frame[k]
      BY <1>4, <2>1, <2>2
    <2>4. \A k \in 1 .. size : value[at + k] = octets[k]
      <3> HIDE DEF octets
      <3>1. QED
        BY <1>4, <2>1, <2>2
    <2>5. SubSeq(value, at + 1, at + size) = [k \in 1 .. size |-> value[at + k]]
      BY <1>4, <2>1, <2>2
    <2>6. QED
      BY <2>3, <2>4, <2>5
  <1>6. SetEnum(frame, at, tag, size) = IF size = 0 THEN Stopped("fault") ELSE Returned(value)
    BY DEF SetEnum
  <1> HIDE DEF value
  <1>7. /\ last'.name = "setEnum" /\ Args'.frame = frame /\ Args'.at = at /\ Args'.tag = tag /\ Args'.size = size
        /\ How' = "returned" => Value' = value
    BY <1>3, <1>6 DEF How, Value, Args, Returned, Stopped
  <1>8. QED
    BY <1>5, <1>7 DEF FramesAreKept, Returns, Called

\* The opcode that copies memory.
LEMMA MemCopySteps ==
  ASSUME CallMemCopy PROVE FramesAreKept'
  <1>1. PICK frame \in FirstFrames :
          \E target, source \in 0 .. Len(frame) - 1 :
            \E range \in 0 .. Len(frame) - (IF target > source THEN target ELSE source) :
              \E outcome \in MemCopy(frame, target, source, range) :
                last' = [name |-> "memCopy",
                         args |-> [frame |-> frame, target |-> target, source |-> source, range |-> range],
                         outcome |-> outcome]
    BY DEF CallMemCopy, Calls, Ends
  <1>2. PICK target, source \in 0 .. Len(frame) - 1 :
            \E range \in 0 .. Len(frame) - (IF target > source THEN target ELSE source) :
              \E outcome \in MemCopy(frame, target, source, range) :
                last' = [name |-> "memCopy",
                         args |-> [frame |-> frame, target |-> target, source |-> source, range |-> range],
                         outcome |-> outcome]
    BY <1>1
  <1>3. PICK range \in 0 .. Len(frame) - (IF target > source THEN target ELSE source) :
              \E outcome \in MemCopy(frame, target, source, range) :
                last' = [name |-> "memCopy",
                         args |-> [frame |-> frame, target |-> target, source |-> source, range |-> range],
                         outcome |-> outcome]
    BY <1>2
  <1>4. PICK outcome \in MemCopy(frame, target, source, range) :
                last' = [name |-> "memCopy",
                         args |-> [frame |-> frame, target |-> target, source |-> source, range |-> range],
                         outcome |-> outcome]
    BY <1>3
  <1>5. /\ frame \in Seq(Int) /\ Len(frame) \in Nat /\ DOMAIN frame = 1 .. Len(frame)
        /\ target \in Nat /\ source \in Nat /\ range \in Nat
        /\ target + range <= Len(frame) /\ source + range <= Len(frame)
    BY ValuesAssumption
  <1> DEFINE distance == target - source
             moved == [k \in 1 .. range |-> frame[source + k]]
             repeated == [k \in 1 .. range |-> frame[source + 1 + ((k - 1) % distance)]]
  <1>6. \/ outcome = Returned(FrameWith(frame, target, moved))
        \/ 0 < distance /\ distance < range /\ outcome = Returned(FrameWith(frame, target, repeated))
    BY <1>4 DEF MemCopy
  <1>7. PICK octets \in {moved, repeated} :
          outcome = Returned(FrameWith(frame, target, octets)) /\ (octets = moved \/ (0 < distance /\ distance < range))
    BY <1>6
  <1>8. DOMAIN octets = 1 .. range
    BY <1>7
  <1> DEFINE value == FrameWith(frame, target, octets)
  <1>9. value = [k \in 1 .. Len(frame) |-> IF k - target \in 1 .. range THEN octets[k - target] ELSE frame[k]]
    BY <1>5, <1>8 DEF FrameWith
  <1>10. \A k \in DOMAIN frame \ (target + 1 .. target + range) : value[k] = frame[k]
    <2> HIDE DEF value
    <2>1. QED
      BY <1>5, <1>9
  <1>11. ASSUME Size(target - source) >= range
         PROVE  SubSeq(value, target + 1, target + range) = SubSeq(frame, source + 1, source + range)
    <2>1. octets = moved
      BY <1>5, <1>7, <1>11 DEF Size
    <2>2. \A k \in 1 .. range : octets[k] = frame[source + k]
      BY <2>1
    <2> HIDE DEF value
    <2>3. \A k \in 1 .. range : value[target + k] = octets[k]
      BY <1>5, <1>9
    <2>4. SubSeq(value, target + 1, target + range) = [k \in 1 .. range |-> value[target + k]]
      BY <1>5, <1>9
    <2>5. SubSeq(frame, source + 1, source + range) = [k \in 1 .. range |-> frame[source + k]]
      BY <1>5
    <2>6. QED
      BY <2>2, <2>3, <2>4, <2>5
  <1> HIDE DEF value
  <1>12. outcome = Returned(value)
    BY <1>7 DEF value
  <1>13. QED
    BY <1>4, <1>10, <1>11, <1>12 DEF FramesAreKept, Returns, Called, How, Value, Args, Returned

-----------------------------------------------------------------------------
(* Arguments of a function that is run.                                     *)

\* The sizes and alignments of types.
Sides == [size : Nat, align : {1, 2, 4, 8}]

\* A place that is aligned is less than the alignment away.
LEMMA AlignUpFacts ==
  ASSUME NEW position \in Nat, NEW align \in {1, 2, 4, 8}
  PROVE  LET at == AlignUp(position, align)
         IN  at \in Nat /\ at % align = 0 /\ position <= at /\ at < position + align
  <1>1. CASE align = 1
    BY <1>1 DEF AlignUp
  <1>2. CASE align = 2
    BY <1>2 DEF AlignUp
  <1>3. CASE align = 4
    BY <1>3 DEF AlignUp
  <1>4. CASE align = 8
    BY <1>4 DEF AlignUp
  <1>5. QED
    BY <1>1, <1>2, <1>3, <1>4

\* The places of one argument, and of two.
LEMMA PlacedOne ==
  ASSUME NEW start \in Nat, NEW t \in Sides
  PROVE  Placed(start, <<t>>) = <<AlignUp(start, t.align)>>
  <1> DEFINE types == <<t>>
             Good(g) == g = [i \in 1 .. Len(types) |->
                               AlignUp(IF i = 1 THEN start ELSE g[i - 1] + types[i - 1].size, types[i].align)]
             h == <<AlignUp(start, t.align)>>
  <1>1. Good(h)
    <2>1. Len(types) = 1 /\ types[1] = t
      OBVIOUS
    <2>2. h = [i \in 1 .. 1 |-> AlignUp(start, t.align)]
      OBVIOUS
    <2>3. \A i \in 1 .. 1 : AlignUp(start, t.align)
            = AlignUp(IF i = 1 THEN start ELSE h[i - 1] + types[i - 1].size, types[i].align)
      BY <2>1
    <2>4. QED
      BY <2>1, <2>2, <2>3
  <1>2. Placed(start, types) = CHOOSE g : Good(g)
    BY DEF Placed
  <1>3. Good(Placed(start, types))
    <2> HIDE DEF Good
    <2>1. QED
      BY <1>1, <1>2
  <1>4. Len(types) = 1 /\ types[1] = t
    OBVIOUS
  <1> DEFINE p == Placed(start, types)
  <1>5. p = [i \in 1 .. 1 |-> AlignUp(IF i = 1 THEN start ELSE p[i - 1] + types[i - 1].size, types[i].align)]
    BY <1>3, <1>4
  <1> HIDE DEF p
  <1>6. DOMAIN p = 1 .. 1 /\ p[1] = AlignUp(start, t.align)
    BY <1>4, <1>5
  <1>7. p = h
    BY <1>5, <1>6
  <1>8. QED
    BY <1>7 DEF p

LEMMA PlacedTwo ==
  ASSUME NEW start \in Nat, NEW t \in Sides, NEW u \in Sides
  PROVE  LET at == AlignUp(start, t.align)
         IN  Placed(start, <<t, u>>) = <<at, AlignUp(at + t.size, u.align)>>
  <1> DEFINE types == <<t, u>>
             Good(g) == g = [i \in 1 .. Len(types) |->
                               AlignUp(IF i = 1 THEN start ELSE g[i - 1] + types[i - 1].size, types[i].align)]
             x == AlignUp(start, t.align)
             y == AlignUp(x + t.size, u.align)
             h == <<x, y>>
  <1>4. Len(types) = 2 /\ types[1] = t /\ types[2] = u
    OBVIOUS
  <1>1. Good(h)
    <2>1. h[1] = x /\ h[2] = y /\ h = [i \in 1 .. 2 |-> IF i = 1 THEN x ELSE y]
      OBVIOUS
    <2>2. \A i \in 1 .. 2 : (IF i = 1 THEN x ELSE y)
            = AlignUp(IF i = 1 THEN start ELSE h[i - 1] + types[i - 1].size, types[i].align)
      <3> HIDE DEF h
      <3>1. y = AlignUp(h[2 - 1] + types[2 - 1].size, types[2].align)
        BY <1>4, <2>1
      <3>2. x = AlignUp(start, types[1].align)
        BY <1>4
      <3> HIDE DEF x, y, types
      <3>3. QED
        BY <3>1, <3>2
    <2>3. QED
      BY <1>4, <2>1, <2>2
  <1>2. Placed(start, types) = CHOOSE g : Good(g)
    BY DEF Placed
  <1>3. Good(Placed(start, types))
    <2> HIDE DEF Good
    <2>1. QED
      BY <1>1, <1>2
  <1> DEFINE p == Placed(start, types)
  <1>5. p = [i \in 1 .. 2 |-> AlignUp(IF i = 1 THEN start ELSE p[i - 1] + types[i - 1].size, types[i].align)]
    BY <1>3, <1>4
  <1> HIDE DEF p
  <1>6. p[1] = x
    BY <1>4, <1>5
  <1>7. p[2] = AlignUp(p[2 - 1] + types[2 - 1].size, types[2].align)
    BY <1>5
  <1>8. p[2] = y
    BY <1>4, <1>6, <1>7
  <1> HIDE DEF x, y, types
  <1>9. p = h
    BY <1>5, <1>6, <1>8
  <1>10. QED
    BY <1>9 DEF p, x, y, types

\* Where a parameter may be behind what ends there.
IsNext(x, end, align) == x % align = 0 /\ end <= x /\ x < end + align

\* The frame of a function of one parameter, of two and of three.
LEMMA FrameOfOne ==
  ASSUME NEW func, NEW t, NEW x, func.params = <<t>>
  PROVE  IsFrame(func, <<x>>) <=> IsNext(x, func.returns.size, t.align)
  <1> DEFINE at == <<x>>
  <1>1. DOMAIN at = {1} /\ DOMAIN func.params = {1} /\ at[1] = x /\ func.params[1] = t
    OBVIOUS
  <1> HIDE DEF at
  <1>2. IsFrame(func, at) <=> IsNext(x, func.returns.size, t.align)
    BY <1>1 DEF IsFrame, IsNext
  <1>3. QED
    BY <1>2 DEF at

LEMMA FrameOfTwo ==
  ASSUME NEW func, NEW t, NEW u, NEW x, NEW y, func.params = <<t, u>>
  PROVE  IsFrame(func, <<x, y>>)
           <=> IsNext(x, func.returns.size, t.align) /\ IsNext(y, x + t.size, u.align)
  <1> DEFINE at == <<x, y>>
  <1>1. /\ DOMAIN at = {1, 2} /\ at[1] = x /\ at[2] = y
        /\ DOMAIN func.params = {1, 2} /\ func.params[1] = t /\ func.params[2] = u
    OBVIOUS
  <1> HIDE DEF at
  <1>2. IsFrame(func, at) <=> IsNext(x, func.returns.size, t.align) /\ IsNext(y, x + t.size, u.align)
    BY <1>1 DEF IsFrame, IsNext
  <1>3. QED
    BY <1>2 DEF at

LEMMA FrameOfThree ==
  ASSUME NEW func, NEW t, NEW u, NEW v, NEW x, NEW y, NEW z, func.params = <<t, u, v>>
  PROVE  IsFrame(func, <<x, y, z>>)
           <=> /\ IsNext(x, func.returns.size, t.align) /\ IsNext(y, x + t.size, u.align)
               /\ IsNext(z, y + u.size, v.align)
  <1> DEFINE at == <<x, y, z>>
  <1>1. /\ DOMAIN at = {1, 2, 3} /\ at[1] = x /\ at[2] = y /\ at[3] = z
        /\ DOMAIN func.params = {1, 2, 3}
        /\ func.params[1] = t /\ func.params[2] = u /\ func.params[3] = v
    OBVIOUS
  <1> HIDE DEF at
  <1>2. IsFrame(func, at)
          <=> /\ IsNext(x, func.returns.size, t.align) /\ IsNext(y, x + t.size, u.align)
              /\ IsNext(z, y + u.size, v.align)
    BY <1>1 DEF IsFrame, IsNext
  <1>3. QED
    BY <1>2 DEF at

\* A sequence of at most three parameters without none or the first of them.
LEMMA AllOfOne ==
  ASSUME NEW t \in Sides PROVE SubSeq(<<t>>, 1, Len(<<t>>)) = <<t>>
  <1> DEFINE s == <<t>>
             q == SubSeq(s, 1, 1)
  <1>1. s \in Seq(Sides) /\ Len(s) = 1 /\ s[1] = t
    OBVIOUS
  <1> HIDE DEF s
  <1>2. q \in Seq(Sides) /\ Len(q) = 1 /\ q[1] = t
    BY <1>1, SubSeqProperties
  <1> HIDE DEF q
  <1>3. q = <<t>>
    BY <1>2
  <1>4. QED
    BY <1>1, <1>3 DEF q, s

LEMMA AllOfTwo ==
  ASSUME NEW t \in Sides, NEW u \in Sides PROVE SubSeq(<<t, u>>, 1, Len(<<t, u>>)) = <<t, u>>
  <1> DEFINE s == <<t, u>>
             q == SubSeq(s, 1, 2)
  <1>1. s \in Seq(Sides) /\ Len(s) = 2 /\ s[1] = t /\ s[2] = u
    OBVIOUS
  <1> HIDE DEF s
  <1>2. q \in Seq(Sides) /\ Len(q) = 2 /\ q[1] = t /\ q[2] = u
    BY <1>1, SubSeqProperties
  <1> HIDE DEF q
  <1>3. q = <<t, u>>
    BY <1>2
  <1>4. QED
    BY <1>1, <1>3 DEF q, s

LEMMA RestOfTwo ==
  ASSUME NEW t \in Sides, NEW u \in Sides PROVE SubSeq(<<t, u>>, 2, Len(<<t, u>>)) = <<u>>
  <1> DEFINE s == <<t, u>>
             q == SubSeq(s, 2, 2)
  <1>1. s \in Seq(Sides) /\ Len(s) = 2 /\ s[1] = t /\ s[2] = u
    OBVIOUS
  <1> HIDE DEF s
  <1>2. q \in Seq(Sides) /\ Len(q) = 1 /\ q[1] = u
    BY <1>1, SubSeqProperties
  <1> HIDE DEF q
  <1>3. q = <<u>>
    BY <1>2
  <1>4. QED
    BY <1>1, <1>3 DEF q, s

LEMMA RestOfThree ==
  ASSUME NEW t \in Sides, NEW u \in Sides, NEW v \in Sides
  PROVE  SubSeq(<<t, u, v>>, 2, Len(<<t, u, v>>)) = <<u, v>>
  <1> DEFINE s == <<t, u, v>>
             q == SubSeq(s, 2, 3)
  <1>1. s \in Seq(Sides) /\ Len(s) = 3 /\ s[2] = u /\ s[3] = v
    OBVIOUS
  <1> HIDE DEF s
  <1>2. q \in Seq(Sides) /\ Len(q) = 2 /\ q[1] = u /\ q[2] = v
    BY <1>1, SubSeqProperties
  <1> HIDE DEF q
  <1>3. q = <<u, v>>
    BY <1>2
  <1>4. QED
    BY <1>1, <1>3 DEF q, s

\* Joining the argument of a closure and those of the call.
LEMMA Joined ==
  ASSUME NEW t, NEW u PROVE << >> \o <<t>> = <<t>> /\ << >> \o <<t, u>> = <<t, u>> /\ <<t>> \o <<u>> = <<t, u>>
  <1>1. << >> \o <<t>> = <<t>>
    OBVIOUS
  <1>2. << >> \o <<t, u>> = <<t, u>>
    <2> DEFINE S == {t, u}
    <2>1. t \in S /\ u \in S
      OBVIOUS
    <2> HIDE DEF S
    <2>2. <<t, u>> \in Seq(S)
      BY <2>1
    <2>3. QED
      BY <2>2, ConcatEmptySeq
  <1>3. <<t>> \o <<u>> = <<t, u>>
    <2> DEFINE s == <<t>> \o <<u>>
    <2>1. <<t>> \in Seq({t, u}) /\ <<u>> \in Seq({t, u}) /\ Len(<<t>>) = 1 /\ Len(<<u>>) = 1
      OBVIOUS
    <2>2. s \in Seq({t, u}) /\ Len(s) = 2 /\ s[1] = t /\ s[2] = u
      BY <2>1
    <2> HIDE DEF s
    <2>3. s = <<t, u>>
      BY <2>2
    <2>4. QED
      BY <2>3 DEF s
  <1>4. QED
    BY <1>1, <1>2, <1>3

LEMMA JoinedThree ==
  ASSUME NEW t, NEW u, NEW v PROVE <<t>> \o <<u, v>> = <<t, u, v>>
  <1> DEFINE s == <<t>> \o <<u, v>>
  <1>1. <<u, v>> \in Seq({t, u, v}) /\ <<t>> \in Seq({t, u, v}) /\ Len(<<u, v>>) = 2 /\ Len(<<t>>) = 1
    OBVIOUS
  <1>2. s \in Seq({t, u, v}) /\ Len(s) = 3 /\ s[1] = t /\ s[2] = u /\ s[3] = v
    BY <1>1
  <1> HIDE DEF s
  <1>3. s = <<t, u, v>>
    BY <1>2
  <1>4. QED
    BY <1>3 DEF s

\* An aligned place is the next one.
LEMMA Next1 ==
  ASSUME NEW position \in Nat, NEW align \in {1, 2, 4, 8}
  PROVE  AlignUp(position, align) \in Nat /\ IsNext(AlignUp(position, align), position, align)
  BY AlignUpFacts DEF IsNext

\* What ArgumentsArrive says of one call.
Arrives(name, func, closure, outcome) ==
  LET count == Len(func.params)
      item == func.params[1]
      isStop == name = "List.foldlstop"
      value == outcome.value
  IN  /\ outcome.how = "returned" =>
           /\ IsFrame(func, value.at) <=>
                CASE name = "Maybe.maybe" -> value.at[count] % func.params[count].align = 0
                  [] isStop -> func.returns.size % item.align = 0
                  [] OTHER -> TRUE
           /\ value.at[count] + func.params[count].size <= value.end
           /\ value.result = func.returns.size
      /\ outcome.how = "fault" => isStop /\ (closure \/ item.size + func.returns.size > 32)
      /\ outcome.how = "notSet" => closure /\ name \in {"Blob.mapToBlob", "Blob.any"}

\* A function of one parameter finds its argument, and one of two its two.
LEMMA OneArrives ==
  ASSUME NEW name, name # "List.foldlstop", NEW func, func.returns.size \in Nat,
         NEW t \in Sides, func.params = <<t>>
  PROVE  Arrives(name, func, FALSE, LaysOut(name, func, FALSE))
  <1> DEFINE r == func.returns.size
             x == IF name = "Maybe.maybe" THEN r ELSE AlignUp(r, t.align)
             value == [at |-> <<x>>, end |-> x + t.size, result |-> r]
  <1>1. x \in Nat /\ t.align \in {1, 2, 4, 8} /\ t.size \in Nat
    BY Next1 DEF Sides
  <1>2. name # "Maybe.maybe" => IsNext(x, r, t.align)
    BY <1>1, Next1
  <1>3. name = "Maybe.maybe" => (IsNext(x, r, t.align) <=> x % t.align = 0)
    BY <1>1 DEF IsNext
  <1>4. LaysOut(name, func, FALSE) = Returned(value)
    <2>1. Prepared(func, FALSE) = r /\ Closed(func, FALSE) = << >>
      BY DEF Prepared, Closed
    <2>2. SubSeq(func.params, 1, Len(func.params)) = <<t>>
      BY AllOfOne
    <2>3. Placed(r, <<t>>) = <<AlignUp(r, t.align)>>
      BY PlacedOne
    <2> DEFINE at == IF name = "Maybe.maybe" THEN <<r>> ELSE Placed(r, <<t>>)
               types == <<t>>
    <2>4. at = <<x>>
      BY <2>3
    <2>5. Len(<<x>>) = 1 /\ Len(types) = 1 /\ types[1] = t /\ <<x>>[1] = x
      OBVIOUS
    <2>6. LaysOut(name, func, FALSE)
            = Returned([at |-> << >> \o at, end |-> at[Len(at)] + types[Len(types)].size, result |-> r])
      BY <2>1, <2>2 DEF LaysOut
    <2> HIDE DEF at, types, x
    <2>7. QED
      BY <2>4, <2>5, <2>6, Joined
  <1>5. IsFrame(func, <<x>>) <=> IsNext(x, r, t.align)
    BY FrameOfOne
  <1>6. Len(func.params) = 1 /\ func.params[1] = t /\ value.at[1] = x /\ value.at = <<x>> /\ value.end = x + t.size /\ value.result = r
    OBVIOUS
  <1> DEFINE o == Returned(value)
  <1>7. o.how = "returned" /\ o.value = value
    BY DEF Returned
  <1> HIDE DEF value, x, o
  <1>8. Arrives(name, func, FALSE, o)
    BY <1>1, <1>2, <1>3, <1>5, <1>6, <1>7 DEF Arrives
  <1>9. QED
    BY <1>4, <1>8 DEF o

LEMMA TwoArrive ==
  ASSUME NEW name, name \notin {"List.foldlstop", "Maybe.maybe"}, NEW func, func.returns.size \in Nat,
         NEW t \in Sides, NEW u \in Sides, func.params = <<t, u>>
  PROVE  Arrives(name, func, FALSE, LaysOut(name, func, FALSE))
  <1> DEFINE r == func.returns.size
             x == AlignUp(r, t.align)
             y == AlignUp(x + t.size, u.align)
             value == [at |-> <<x, y>>, end |-> y + u.size, result |-> r]
  <1>1. t.align \in {1, 2, 4, 8} /\ t.size \in Nat /\ u.align \in {1, 2, 4, 8} /\ u.size \in Nat
    BY DEF Sides
  <1>2. x \in Nat /\ IsNext(x, r, t.align)
    BY <1>1, Next1
  <1>3. y \in Nat /\ IsNext(y, x + t.size, u.align)
    <2> HIDE DEF x
    <2>1. x + t.size \in Nat
      BY <1>1, <1>2
    <2>2. QED
      BY <1>1, <2>1, Next1
  <1>4. LaysOut(name, func, FALSE) = Returned(value)
    <2>1. Prepared(func, FALSE) = r /\ Closed(func, FALSE) = << >>
      BY DEF Prepared, Closed
    <2>2. SubSeq(func.params, 1, Len(func.params)) = <<t, u>>
      BY AllOfTwo
    <2>3. Placed(r, <<t, u>>) = <<x, y>>
      BY PlacedTwo
    <2> DEFINE at == Placed(r, <<t, u>>)
               types == <<t, u>>
    <2>5. Len(<<x, y>>) = 2 /\ Len(types) = 2 /\ types[2] = u /\ <<x, y>>[2] = y
      OBVIOUS
    <2>6. LaysOut(name, func, FALSE)
            = Returned([at |-> << >> \o at, end |-> at[Len(at)] + types[Len(types)].size, result |-> r])
      BY <2>1, <2>2 DEF LaysOut
    <2> HIDE DEF at, types, x, y
    <2>7. QED
      BY <2>3, <2>5, <2>6, Joined DEF at
  <1>5. IsFrame(func, <<x, y>>)
    BY <1>2, <1>3, FrameOfTwo
  <1>6. /\ Len(func.params) = 2 /\ func.params[2] = u
        /\ value.at[2] = y /\ value.at = <<x, y>> /\ value.end = y + u.size /\ value.result = r
    OBVIOUS
  <1> DEFINE o == Returned(value)
  <1>7. o.how = "returned" /\ o.value = value
    BY DEF Returned
  <1> HIDE DEF value, x, y, o
  <1>8. Arrives(name, func, FALSE, o)
    BY <1>1, <1>3, <1>5, <1>6, <1>7 DEF Arrives
  <1>9. QED
    BY <1>4, <1>8 DEF o

\* So does a partial application, behind the argument it has.
LEMMA ClosureOfOneArrives ==
  ASSUME NEW name, name # "List.foldlstop", NEW func, func.returns.size \in Nat,
         NEW first \in Sides, NEW t \in Sides, func.params = <<first, t>>
  PROVE  Arrives(name, func, TRUE, LaysOut(name, func, TRUE))
  <1> DEFINE r == func.returns.size
             c == AlignUp(r, first.align)
             start == c + first.size
             x == IF name = "Maybe.maybe" THEN start ELSE AlignUp(start, t.align)
             value == [at |-> <<c, x>>, end |-> x + t.size, result |-> r]
  <1>1. t.align \in {1, 2, 4, 8} /\ t.size \in Nat /\ first.align \in {1, 2, 4, 8} /\ first.size \in Nat
    BY DEF Sides
  <1>2. c \in Nat /\ IsNext(c, r, first.align)
    BY <1>1, Next1
  <1> HIDE DEF c
  <1>3. start \in Nat
    BY <1>1, <1>2
  <1> HIDE DEF start
  <1>4. x \in Nat /\ (name # "Maybe.maybe" => IsNext(x, start, t.align))
    BY <1>1, <1>3, Next1
  <1>5. name = "Maybe.maybe" => (IsNext(x, start, t.align) <=> x % t.align = 0)
    BY <1>1, <1>3 DEF IsNext
  <1>6. ASSUME ~(name \in CountsOne) PROVE LaysOut(name, func, TRUE) = Returned(value)
    <2>a. func.params[1] = first
      OBVIOUS
    <2>1. Prepared(func, TRUE) = start /\ Closed(func, TRUE) = <<c>>
      <3>1. Closed(func, TRUE) = <<c>>
        BY <2>a DEF Closed, c
      <3>2. Closed(func, TRUE)[1] = c
        <4>1. <<c>>[1] = c
          OBVIOUS
        <4>2. QED
          BY <3>1, <4>1
      <3>3. QED
        BY <2>a, <3>1, <3>2 DEF Prepared, start
    <2>2. SubSeq(func.params, 2, Len(func.params)) = <<t>>
      BY RestOfTwo
    <2>3. Placed(start, <<t>>) = <<AlignUp(start, t.align)>>
      BY <1>3, PlacedOne
    <2> DEFINE at == IF name = "Maybe.maybe" THEN <<start>> ELSE Placed(start, <<t>>)
               types == <<t>>
    <2>4. at = <<x>>
      BY <2>3
    <2>5. Len(<<x>>) = 1 /\ Len(types) = 1 /\ types[1] = t /\ <<x>>[1] = x
      OBVIOUS
    <2>6. LaysOut(name, func, TRUE)
            = Returned([at |-> <<c>> \o at, end |-> at[Len(at)] + types[Len(types)].size, result |-> r])
      BY <1>6, <2>1, <2>2 DEF LaysOut
    <2> HIDE DEF at, types, x
    <2>7. QED
      BY <2>4, <2>5, <2>6, Joined
  <1>7. IsFrame(func, <<c, x>>) <=> IsNext(c, r, first.align) /\ IsNext(x, c + first.size, t.align)
    BY FrameOfTwo
  <1>8. /\ Len(func.params) = 2 /\ func.params[2] = t
        /\ value.at[2] = x /\ value.at = <<c, x>> /\ value.end = x + t.size /\ value.result = r
    OBVIOUS
  <1> DEFINE o == Returned(value)
  <1>9. o.how = "returned" /\ o.value = value
    BY DEF Returned
  <1> HIDE DEF value, x, o
  <1>10. Arrives(name, func, TRUE, o)
    BY <1>1, <1>2, <1>4, <1>5, <1>7, <1>8, <1>9 DEF Arrives, start
  <1>11. CASE name \in CountsOne
    <2>1. LaysOut(name, func, TRUE) = NotSet
      BY <1>11 DEF LaysOut, CountsOne
    <2>2. NotSet.how = "notSet"
      BY DEF NotSet, Stopped
    <2>3. Arrives(name, func, TRUE, NotSet)
      BY <1>11, <2>2 DEF Arrives, CountsOne
    <2>4. QED
      BY <2>1, <2>3
  <1>12. CASE ~(name \in CountsOne)
    BY <1>6, <1>10, <1>12 DEF o
  <1>13. QED
    BY <1>11, <1>12

LEMMA ClosureOfTwoArrive ==
  ASSUME NEW name, name \notin {"List.foldlstop", "Maybe.maybe"} \cup CountsOne, NEW func,
       func.returns.size \in Nat,
         NEW first \in Sides, NEW t \in Sides, NEW u \in Sides, func.params = <<first, t, u>>
  PROVE  Arrives(name, func, TRUE, LaysOut(name, func, TRUE))
  <1> DEFINE r == func.returns.size
             c == AlignUp(r, first.align)
             start == c + first.size
             x == AlignUp(start, t.align)
             y == AlignUp(x + t.size, u.align)
             value == [at |-> <<c, x, y>>, end |-> y + u.size, result |-> r]
  <1>1. /\ t.align \in {1, 2, 4, 8} /\ t.size \in Nat /\ u.align \in {1, 2, 4, 8} /\ u.size \in Nat
        /\ first.align \in {1, 2, 4, 8} /\ first.size \in Nat
    BY DEF Sides
  <1>2. c \in Nat /\ IsNext(c, r, first.align)
    BY <1>1, Next1
  <1> HIDE DEF c
  <1>3. start \in Nat
    BY <1>1, <1>2
  <1> HIDE DEF start
  <1>4. x \in Nat /\ IsNext(x, start, t.align)
    BY <1>1, <1>3, Next1
  <1>5. y \in Nat /\ IsNext(y, x + t.size, u.align)
    <2> HIDE DEF x
    <2>1. x + t.size \in Nat
      BY <1>1, <1>4
    <2>2. QED
      BY <1>1, <2>1, Next1
  <1>6. LaysOut(name, func, TRUE) = Returned(value)
    <2>a. func.params[1] = first
      OBVIOUS
    <2>1. Prepared(func, TRUE) = start /\ Closed(func, TRUE) = <<c>>
      <3>1. Closed(func, TRUE) = <<c>>
        BY <2>a DEF Closed, c
      <3>2. Closed(func, TRUE)[1] = c
        <4>1. <<c>>[1] = c
          OBVIOUS
        <4>2. QED
          BY <3>1, <4>1
      <3>3. QED
        BY <2>a, <3>1, <3>2 DEF Prepared, start
    <2>2. SubSeq(func.params, 2, Len(func.params)) = <<t, u>>
      BY RestOfThree
    <2>3. Placed(start, <<t, u>>) = <<x, y>>
      BY <1>3, PlacedTwo
    <2> DEFINE at == Placed(start, <<t, u>>)
               types == <<t, u>>
    <2>5. Len(<<x, y>>) = 2 /\ Len(types) = 2 /\ types[2] = u /\ <<x, y>>[2] = y
      OBVIOUS
    <2>6. LaysOut(name, func, TRUE)
            = Returned([at |-> <<c>> \o at, end |-> at[Len(at)] + types[Len(types)].size, result |-> r])
      BY <2>1, <2>2 DEF LaysOut
    <2> HIDE DEF at, types, x, y
    <2>7. QED
      BY <2>3, <2>5, <2>6, JoinedThree DEF at
  <1>7. IsFrame(func, <<c, x, y>>)
    BY <1>2, <1>4, <1>5, FrameOfThree DEF start
  <1>8. /\ Len(func.params) = 3 /\ func.params[3] = u
        /\ value.at[3] = y /\ value.at = <<c, x, y>> /\ value.end = y + u.size /\ value.result = r
    OBVIOUS
  <1> DEFINE o == Returned(value)
  <1>9. o.how = "returned" /\ o.value = value
    BY DEF Returned
  <1> HIDE DEF value, x, y, o
  <1>10. Arrives(name, func, TRUE, o)
    BY <1>1, <1>5, <1>7, <1>8, <1>9 DEF Arrives
  <1>11. QED
    BY <1>6, <1>10 DEF o

\* The accumulator fits as if the item were at 0, and a multiple of its
\* alignment above 32 is at least one alignment above.
LEMMA FoldlStopArrives ==
  ASSUME NEW func, NEW closure \in BOOLEAN, NEW a \in Sides, NEW b \in Sides, b.size % b.align = 0,
         func.returns.size = b.align + b.size,
         ~closure => func.params = <<a, b>>
  PROVE  Arrives("List.foldlstop", func, closure, LaysOut("List.foldlstop", func, closure))
  <1> DEFINE r == func.returns.size
             offset == AlignUp(a.size, b.align)
             y == r + offset
             value == [at |-> <<r, y>>, end |-> r + a.size + r, result |-> r]
  <1>0. LaysOut("List.foldlstop", func, closure) = FoldlStop(func, closure)
    BY DEF LaysOut, CountsOne
  <1>1. CASE closure
    <2>1. FoldlStop(func, closure) = Stopped("fault")
      BY <1>1 DEF FoldlStop
    <2>2. Stopped("fault").how = "fault"
      BY DEF Stopped
    <2>3. Arrives("List.foldlstop", func, closure, Stopped("fault"))
      BY <1>1, <2>2 DEF Arrives
    <2>4. QED
      BY <1>0, <2>1, <2>3
  <1>2. CASE ~closure
    <2>1. a.align \in {1, 2, 4, 8} /\ a.size \in Nat /\ b.align \in {1, 2, 4, 8} /\ b.size \in Nat /\ r \in Nat
      BY DEF Sides
    <2>2. offset \in Nat /\ IsNext(offset, a.size, b.align)
      BY <2>1, Next1
    <2>a. func.params[1] = a /\ func.params[2] = b /\ Len(func.params) = 2
      <3>1. func.params = <<a, b>>
        BY <1>2
      <3>2. <<a, b>>[1] = a /\ <<a, b>>[2] = b /\ Len(<<a, b>>) = 2
        OBVIOUS
      <3>3. QED
        BY <3>1, <3>2
    <2>3. FoldlStop(func, closure) = IF y > 32 THEN Stopped("fault") ELSE Returned(value)
      <3>1. offset + r = y
        BY <2>1, <2>2
      <3>2. QED
        BY <1>2, <2>a, <3>1 DEF FoldlStop, TempSize
    <2> HIDE DEF offset
    <2>4. CASE y > 32
      <3> DEFINE al == b.align
      <3>1. a.size + r > 32
        <4>1. CASE al = 1
          BY <2>1, <2>2, <2>4, <4>1 DEF IsNext
        <4>2. CASE al = 2
          BY <2>1, <2>2, <2>4, <4>2 DEF IsNext
        <4>3. CASE al = 4
          BY <2>1, <2>2, <2>4, <4>3 DEF IsNext
        <4>4. CASE al = 8
          BY <2>1, <2>2, <2>4, <4>4 DEF IsNext
        <4>5. QED
          BY <2>1, <4>1, <4>2, <4>3, <4>4
      <3>2. Stopped("fault").how = "fault"
        BY DEF Stopped
      <3>3. Arrives("List.foldlstop", func, closure, Stopped("fault"))
        BY <2>a, <3>1, <3>2 DEF Arrives
      <3>4. QED
        BY <1>0, <2>3, <2>4, <3>3
    <2>5. CASE ~(y > 32)
      <3>1. IsFrame(func, <<r, y>>) <=> IsNext(r, r, a.align) /\ IsNext(y, r + a.size, b.align)
        BY <1>2, FrameOfTwo
      <3>2. IsNext(r, r, a.align) <=> r % a.align = 0
        BY <2>1 DEF IsNext
      <3>3. IsNext(y, r + a.size, b.align)
        <4> DEFINE al == b.align
        <4>1. CASE al = 1
          BY <2>1, <2>2, <4>1 DEF IsNext
        <4>2. CASE al = 2
          BY <2>1, <2>2, <4>2 DEF IsNext
        <4>3. CASE al = 4
          BY <2>1, <2>2, <4>3 DEF IsNext
        <4>4. CASE al = 8
          BY <2>1, <2>2, <4>4 DEF IsNext
        <4>5. QED
          BY <2>1, <4>1, <4>2, <4>3, <4>4
      <3>4. value.at[2] = y /\ value.at = <<r, y>> /\ value.end = r + a.size + r /\ value.result = r
        OBVIOUS
      <3>5. y + b.size <= r + a.size + r
        BY <2>1, <2>2 DEF IsNext
      <3> DEFINE o == Returned(value)
      <3>6. o.how = "returned" /\ o.value = value
        BY DEF Returned
      <3> HIDE DEF value, y, o
      <3>7. Arrives("List.foldlstop", func, closure, o)
        BY <2>a, <3>1, <3>2, <3>3, <3>4, <3>5, <3>6 DEF Arrives
      <3>8. QED
        BY <1>0, <2>3, <2>5, <3>7 DEF o
    <2>6. QED
      BY <2>4, <2>5
  <1>3. QED
    BY <1>1, <1>2

\* The arguments that each function passes, and the result it expects.
LEMMA ArgumentTypes ==
  ASSUME NEW name \in FrameFunctions, NEW a \in Types, NEW b \in Types
  PROVE  /\ a \in Sides /\ b \in Sides /\ b.size % b.align = 0
         /\ ReturnOf(name, a, b).size \in Nat
         /\ \/ name # "List.foldlstop" /\ \E t \in Sides : ArgumentsOf(name, a, b) = <<t>>
            \/ /\ name \notin {"List.foldlstop", "Maybe.maybe"} \cup CountsOne
               /\ \E t, u \in Sides : ArgumentsOf(name, a, b) = <<t, u>>
            \/ /\ name = "List.foldlstop" /\ ArgumentsOf(name, a, b) = <<a, b>>
               /\ ReturnOf(name, a, b).size = b.align + b.size
  <1>1. a \in Sides /\ b \in Sides /\ b.size % b.align = 0
    BY ValuesAssumption DEF Sides
  <1>2. IntType \in Sides /\ PositionType \in Sides
    BY DEF IntType, PositionType, Typed, Sides
  <1>3. MaybeType(b).size = b.align + b.size /\ b.align + b.size \in Nat /\ a.size \in Nat /\ b.size \in Nat
    BY <1>1 DEF MaybeType, Typed, Sides
  <1>4. ReturnOf(name, a, b).size \in Nat /\ (name = "List.foldlstop" => ReturnOf(name, a, b).size = b.align + b.size)
    BY <1>3 DEF ReturnOf
  <1> DEFINE args == ArgumentsOf(name, a, b)
  <1>5. CASE name \in {"List.map", "List.concatMap", "List.any", "List.find", "Maybe.maybe"}
    <2>1. args = <<a>>
      BY <1>5 DEF ArgumentsOf
    <2>2. QED
      BY <1>1, <1>4, <1>5, <2>1
  <1>6. CASE name \in {"List.map2", "List.foldl", "List.foldlstop"}
    <2>1. args = <<a, b>>
      BY <1>6 DEF ArgumentsOf
    <2>2. QED
      BY <1>1, <1>4, <1>6, <2>1 DEF CountsOne
  <1>7. CASE name = "List.indexedMap"
    <2>1. args = <<IntType, a>>
      BY <1>7 DEF ArgumentsOf
    <2>2. QED
      BY <1>1, <1>2, <1>4, <1>7, <2>1 DEF CountsOne
  <1>8. CASE name = "List.reduce"
    <2>1. args = <<a, a>>
      BY <1>8 DEF ArgumentsOf
    <2>2. QED
      BY <1>1, <1>4, <1>8, <2>1 DEF CountsOne
  <1>9. CASE name \in {"Blob.mapToBlob", "Blob.any"}
    <2>1. args = <<IntType>>
      BY <1>9 DEF ArgumentsOf
    <2>2. QED
      BY <1>1, <1>2, <1>4, <1>9, <2>1
  <1>10. CASE name \in {"Blob.indexedMapToBlob", "Blob.indexedMapToBlob!", "Blob.filterIndexedMap"}
    <2>1. args = <<IntType, IntType>>
      BY <1>10 DEF ArgumentsOf
    <2>2. QED
      BY <1>1, <1>2, <1>4, <1>10, <2>1 DEF CountsOne
  <1>11. CASE name \in {"Blob.map2d", "Blob.filterIndexedMap2d"}
    <2>1. args = <<PositionType, IntType>>
      BY <1>11 DEF ArgumentsOf
    <2>2. QED
      BY <1>1, <1>2, <1>4, <1>11, <2>1 DEF CountsOne
  <1>12. QED
    BY <1>5, <1>6, <1>7, <1>8, <1>9, <1>10, <1>11 DEF FrameFunctions

\* The functions that run an argument.
LEMMA LaysOutSteps ==
  ASSUME CallLaysOut PROVE ArgumentsArrive'
  <1> DEFINE Func(name, a, b, first, closure) ==
               [returns |-> ReturnOf(name, a, b),
                params |-> (IF closure THEN <<first>> ELSE << >>) \o ArgumentsOf(name, a, b)]
             Does(name, f, closure) ==
               Calls("frame", [by |-> name, func |-> f, closure |-> closure], {LaysOut(name, f, closure)})
  <1>z. library = "frames" /\ IsFirst /\ \E name \in FrameFunctions, a, b, first \in Types, closure \in BOOLEAN :
          /\ closure \/ first = a
          /\ Calls("frame", [by |-> name, func |-> [returns |-> ReturnOf(name, a, b),
                    params |-> (IF closure THEN <<first>> ELSE << >>) \o ArgumentsOf(name, a, b)],
                         closure |-> closure],
                    {LaysOut(name, [returns |-> ReturnOf(name, a, b),
                    params |-> (IF closure THEN <<first>> ELSE << >>) \o ArgumentsOf(name, a, b)], closure)})
    BY Zenon DEF CallLaysOut
  <1>a. \E name \in FrameFunctions, a, b, first \in Types, closure \in BOOLEAN :
          Does(name, Func(name, a, b, first, closure), closure)
    BY <1>z, Zenon
  <1> HIDE DEF Func, Does
  <1>1. PICK name \in FrameFunctions, a \in Types, b \in Types, first \in Types, closure \in BOOLEAN :
          Does(name, Func(name, a, b, first, closure), closure)
    BY <1>a
  <1> DEFINE args == ArgumentsOf(name, a, b)
             func == Func(name, a, b, first, closure)
  <1>2. func.returns = ReturnOf(name, a, b) /\ func.params = (IF closure THEN <<first>> ELSE << >>) \o args
    BY DEF Func
  <1>3. last' = [name |-> "frame", args |-> [by |-> name, func |-> func, closure |-> closure],
                 outcome |-> LaysOut(name, func, closure)]
    BY <1>1 DEF Does, Calls, Ends
  <1> HIDE DEF func, args
  <1>4. first \in Sides /\ a \in Sides /\ b \in Sides
    BY ValuesAssumption DEF Sides
  <1>5. Arrives(name, func, closure, LaysOut(name, func, closure))
    <2>1. CASE name # "List.foldlstop" /\ \E t \in Sides : args = <<t>>
      <3>1. PICK t \in Sides : args = <<t>>
        BY <2>1
      <3>2. CASE closure
        <4>1. func.params = <<first, t>> /\ func.returns.size \in Nat
          BY <1>2, <3>1, <3>2, ArgumentTypes, Joined
        <4>2. closure = TRUE
          BY <3>2
        <4>3. QED
          BY <1>4, <2>1, <4>1, <4>2, ClosureOfOneArrives
      <3>3. CASE ~closure
        <4>1. func.params = <<t>> /\ func.returns.size \in Nat
          BY <1>2, <3>1, <3>3, ArgumentTypes, Joined
        <4>2. closure = FALSE
          BY <3>3
        <4>3. QED
          BY <2>1, <4>1, <4>2, OneArrives
      <3>4. QED
        BY <3>2, <3>3
    <2>2. CASE /\ name \notin {"List.foldlstop", "Maybe.maybe"} \cup CountsOne
               /\ \E t, u \in Sides : args = <<t, u>>
      <3>1. PICK t, u \in Sides : args = <<t, u>>
        BY <2>2
      <3>2. CASE closure
        <4>1. func.params = <<first, t, u>> /\ func.returns.size \in Nat
          BY <1>2, <3>1, <3>2, ArgumentTypes, JoinedThree
        <4>2. closure = TRUE
          BY <3>2
        <4>3. QED
          BY <1>4, <2>2, <4>1, <4>2, ClosureOfTwoArrive
      <3>3. CASE ~closure
        <4>1. func.params = <<t, u>> /\ func.returns.size \in Nat
          BY <1>2, <3>1, <3>3, ArgumentTypes, Joined
        <4>2. closure = FALSE
          BY <3>3
        <4>3. QED
          BY <2>2, <4>1, <4>2, TwoArrive
      <3>4. QED
        BY <3>2, <3>3
    <2>3. CASE /\ name = "List.foldlstop" /\ args = <<a, b>>
               /\ ReturnOf(name, a, b).size = b.align + b.size
      <3>1. ~closure => func.params = <<a, b>>
        BY <1>2, <2>3, Joined
      <3>2. func.returns.size = b.align + b.size /\ b.size % b.align = 0
        BY <1>2, <2>3, ArgumentTypes
      <3>3. QED
        BY <1>4, <2>3, <3>1, <3>2, FoldlStopArrives
    <2>4. QED
      BY <2>1, <2>2, <2>3, ArgumentTypes DEF args
  <1>6. /\ Args'.by = name /\ Args'.func = func /\ Args'.closure = closure
        /\ last'.outcome = LaysOut(name, func, closure)
    BY <1>3 DEF Args
  <1>7. QED
    BY <1>5, <1>6 DEF ArgumentsArrive, Arrives, Called, How, Value

-----------------------------------------------------------------------------
(* Places of positions.                                                     *)

\* A set of naturals up to n that is not empty has a least and a greatest member.
LEMMA HasMin ==
  ASSUME NEW S \in SUBSET Nat, S # {}
  PROVE  Min(S) \in S /\ \A y \in S : Min(S) <= y
  <1> DEFINE R == OpToRel(<, Nat)
  <1>1. \A x, y \in Nat : <<y, x>> \in R <=> y < x
    BY DEF OpToRel
  <1> HIDE DEF R
  <1>2. PICK x \in S : \A y \in S : ~(<<y, x>> \in R)
    BY NatLessThanWellFounded, WFMin DEF R
  <1>3. ASSUME NEW y \in S PROVE x <= y
    <2>1. x \in Nat /\ y \in Nat
      OBVIOUS
    <2>2. ~(y < x)
      BY <1>1, <1>2, <2>1
    <2>3. QED
      BY <2>1, <2>2
  <1>4. QED
    BY <1>3 DEF Min

LEMMA HasMax ==
  ASSUME NEW n \in Nat, NEW S \in SUBSET (0 .. n), S # {}
  PROVE  Max(S) \in S /\ \A y \in S : Max(S) >= y
  <1> DEFINE W == {n - x : x \in S}
  <1>1. W \in SUBSET Nat /\ W # {}
    <2>1. \A x \in S : n - x \in Nat
      OBVIOUS
    <2>2. QED
      BY <2>1
  <1>2. Min(W) \in W /\ \A y \in W : Min(W) <= y
    <2> HIDE DEF W
    <2>1. QED
      BY <1>1, HasMin
  <1>3. PICK x \in S : Min(W) = n - x
    BY <1>2
  <1>4. \A y \in S : n - x <= n - y
    BY <1>2, <1>3
  <1>5. \A y \in S : x >= y
    BY <1>4
  <1>6. QED
    BY <1>5 DEF Max

\* The tables of lines.
LineEntries == [at : Nat, file : Nat, line : Nat, column : Nat]
LinesRise(lines) == \A i, j \in DOMAIN lines : i <= j => lines[i].at <= lines[j].at

\* The entries before the first behind the position are those that are not
\* behind it, in a table that is in order.
LEMMA FindLinesIsRight ==
  ASSUME NEW lines \in Seq(LineEntries), LinesRise(lines), NEW position \in Nat
  PROVE  FindLines(lines, position) \in 0 .. Len(lines) /\ IsPlaceOf(FindLines(lines, position), lines, position)
  <1> DEFINE behind == {i \in DOMAIN lines : lines[i].at > position}
             found == {i \in DOMAIN lines :
                         /\ \A j \in behind : i < j
                         /\ lines[i].line # 0 /\ lines[i].column # 0}
             IsBefore(k) == lines[k].line # 0 /\ lines[k].column # 0 /\ lines[k].at <= position
  <1>1. /\ DOMAIN lines = 1 .. Len(lines) /\ Len(lines) \in Nat
        /\ \A i \in DOMAIN lines : lines[i].at \in Nat
    <2>1. \A i \in DOMAIN lines : lines[i] \in LineEntries
      OBVIOUS
    <2>2. QED
      BY <2>1 DEF LineEntries
  <1>2. \A i \in DOMAIN lines : (\A j \in behind : i < j) <=> lines[i].at <= position
    <2> TAKE i \in DOMAIN lines
    <2>1. ASSUME \A j \in behind : i < j PROVE lines[i].at <= position
      <3>1. i \notin behind
        BY <1>1, <2>1
      <3>2. QED
        BY <1>1, <3>1
    <2>2. ASSUME lines[i].at <= position, NEW j \in behind PROVE i < j
      BY <1>1, <2>2 DEF LinesRise
    <2>3. QED
      BY <2>1, <2>2
  <1>3. found = {i \in DOMAIN lines : IsBefore(i)}
    BY <1>2
  <1>4. FindLines(lines, position) = IF found = {} THEN 0 ELSE Max(found)
    BY DEF FindLines
  <1> HIDE DEF found, behind
  <1>5. CASE found = {}
    <2>1. \A k \in DOMAIN lines : ~IsBefore(k)
      BY <1>3, <1>5
    <2>2. IsPlaceOf(0, lines, position)
      BY <2>1 DEF IsPlaceOf
    <2>3. QED
      BY <1>1, <1>4, <1>5, <2>2
  <1>6. CASE found # {}
    <2> DEFINE m == Max(found)
    <2>1. found \in SUBSET (0 .. Len(lines))
      BY <1>1, <1>3
    <2>2. m \in found /\ \A y \in found : m >= y
      BY <1>1, <1>6, <2>1, HasMax
    <2> HIDE DEF m
    <2>3. m \in DOMAIN lines /\ m # 0 /\ m \in 0 .. Len(lines) /\ IsBefore(m) /\ \A k \in DOMAIN lines : IsBefore(k) => k <= m
      BY <1>1, <1>3, <2>2
    <2>4. IsPlaceOf(m, lines, position)
      BY <2>3 DEF IsPlaceOf
    <2>5. QED
      BY <1>4, <1>6, <2>3, <2>4 DEF m
  <1>7. QED
    BY <1>5, <1>6

\* What a frame leads to: a place that is known, one that is not, or none.
LEMMA SingleLineIsRight ==
  ASSUME NEW frame, frame.lines \in Seq(LineEntries), LinesRise(frame.lines), frame.pc \in Nat,
         frame.pc < PositionLimit, NEW files \in Nat
  PROVE  LET line == SingleLine(frame, files)
         IN  \/ line = [kind |-> "nothing", entry |-> 0] /\ IsPlaceOf(0, frame.lines, frame.pc)
             \/ \E i \in DOMAIN frame.lines :
                  /\ i # 0 /\ IsPlaceOf(i, frame.lines, frame.pc)
                  /\ \/ line = [kind |-> "place", entry |-> i] /\ frame.lines[i].file < files
                     \/ line = [kind |-> "error", entry |-> 0] /\ frame.lines[i].file >= files
  <1> DEFINE lines == frame.lines
             i == FindLines(lines, frame.pc)
  <1>1. OpcodePosition(frame) = frame.pc
    BY LimitAssumption DEF OpcodePosition
  <1>2. FindLinesInFrame(frame) = i
    BY <1>1 DEF FindLinesInFrame
  <1>3. i \in 0 .. Len(lines) /\ IsPlaceOf(i, lines, frame.pc)
    BY FindLinesIsRight
  <1> HIDE DEF i
  <1>4. CASE i = 0
    <2>1. SingleLine(frame, files) = [kind |-> "nothing", entry |-> 0]
      BY <1>2, <1>4 DEF SingleLine
    <2>2. QED
      BY <1>3, <1>4, <2>1
  <1>5. CASE i # 0
    <2>1. i \in DOMAIN lines /\ lines[i].file \in Nat
      <3>1. i \in DOMAIN lines /\ lines[i] \in LineEntries
        BY <1>3, <1>5
      <3>2. QED
        BY <3>1 DEF LineEntries
    <2>2. CASE lines[i].file < files
      <3>1. SingleLine(frame, files) = [kind |-> "place", entry |-> i]
        BY <1>2, <1>5, <2>2 DEF SingleLine, HasFile
      <3>2. QED
        BY <1>3, <1>5, <2>1, <2>2, <3>1
    <2>3. CASE ~(lines[i].file < files)
      <3>1. SingleLine(frame, files) = [kind |-> "error", entry |-> 0]
        BY <1>2, <1>5, <2>3 DEF SingleLine, HasFile
      <3>2. QED
        BY <1>3, <1>5, <2>1, <2>3, <3>1
    <2>4. QED
      BY <2>2, <2>3
  <1>6. QED
    BY <1>4, <1>5

\* The place of one position.
LEMMA SingleLineSteps ==
  ASSUME CallSingleLine PROVE PlacesAreRight'
  <1>1. PICK lines \in LineTables, files \in FileCounts, pc \in Positions16 :
          last' = [name |-> "singleLine", args |-> [frame |-> Frame(lines, << >>, pc, FALSE), files |-> files],
                   outcome |-> Returned(SingleLine(Frame(lines, << >>, pc, FALSE), files))]
    BY DEF CallSingleLine, Calls, Ends
  <1> DEFINE frame == Frame(lines, << >>, pc, FALSE)
             value == SingleLine(frame, files)
  <1>2. /\ frame.lines = lines /\ frame.pc = pc /\ lines \in Seq(LineEntries) /\ LinesRise(lines)
        /\ pc \in Nat /\ files \in Nat
    BY TablesAssumption DEF Frame, LineEntries, LinesRise
  <1>3. last'.name = "singleLine" /\ Args'.frame = frame /\ Args'.files = files /\ Value' = value
    BY <1>1 DEF Args, Value, Returned
  <1> HIDE DEF frame, value
  <1>4. pc < PositionLimit =>
          \/ value = [kind |-> "nothing", entry |-> 0] /\ IsPlaceOf(0, lines, pc)
          \/ \E i \in DOMAIN lines :
               /\ i # 0 /\ IsPlaceOf(i, lines, pc)
               /\ \/ value = [kind |-> "place", entry |-> i] /\ lines[i].file < files
                  \/ value = [kind |-> "error", entry |-> 0] /\ lines[i].file >= files
    BY <1>2, SingleLineIsRight DEF value
  <1>5. QED
    BY <1>2, <1>3, <1>4 DEF PlacesAreRight, Called

-----------------------------------------------------------------------------
(* The text of a panic.                                                     *)

\* Two sequences put one behind the other.
LEMMA FlattenedTwo ==
  ASSUME NEW S, NEW a \in Seq(S), NEW b \in Seq(S)
  PROVE  FlattenSeq(<<a, b>>) = a \o b
  <1> DEFINE seqs == <<a, b>>
             Good(g) == g = [i \in 1 .. Len(seqs) |-> IF i = 1 THEN seqs[i] ELSE g[i - 1] \o seqs[i]]
             h == <<a, a \o b>>
             p == CHOOSE g : Good(g)
  <1>1. Len(seqs) = 2 /\ seqs[1] = a /\ seqs[2] = b
    OBVIOUS
  <1>2. Good(h)
    <2>1. h[1] = a /\ h[2] = a \o b /\ h = [i \in 1 .. 2 |-> IF i = 1 THEN a ELSE a \o b]
      OBVIOUS
    <2> HIDE DEF h, seqs
    <2>2. \A i \in 1 .. 2 : (IF i = 1 THEN a ELSE a \o b) = IF i = 1 THEN seqs[i] ELSE h[i - 1] \o seqs[i]
      BY <1>1, <2>1
    <2>3. QED
      BY <1>1, <2>1, <2>2
  <1>3. FlattenSeq(seqs) = p[Len(seqs)]
    BY <1>1 DEF FlattenSeq
  <1>4. Good(p)
    <2> HIDE DEF Good
    <2>1. QED
      BY <1>2
  <1> HIDE DEF p, seqs
  <1> DEFINE Join(x, y) == x \o y
  <1>5. p = [i \in 1 .. 2 |-> IF i = 1 THEN seqs[i] ELSE Join(p[i - 1], seqs[i])]
    BY <1>1, <1>4
  <1> HIDE DEF Join
  <1>6. p[1] = a /\ p[2] = Join(p[2 - 1], b)
    BY <1>1, <1>5
  <1>9. p[2 - 1] = p[1]
    OBVIOUS
  <1>10. p[2] = Join(a, b)
    BY <1>6, <1>9
  <1>7. p[2] = a \o b
    BY <1>10 DEF Join
  <1>8. QED
    BY <1>1, <1>3, <1>7 DEF seqs

\* What the text of a panic is made of.
Tokens == [kind : {"nothing", "zero", "place", "engine", "lineEnd"}, context : {1, 2}, entry : Nat]

\* The text ends in front of the first zero.
LEMMA CutAt ==
  ASSUME NEW tokens \in Seq(Tokens), NEW z \in 1 .. Len(tokens), tokens[z].kind = "zero",
         \A k \in 1 .. z - 1 : tokens[k].kind # "zero"
  PROVE  AsString(tokens) \in Seq(Tokens) /\ Len(AsString(tokens)) = z - 1
         /\ \A i \in 1 .. z - 1 : AsString(tokens)[i] = tokens[i]
  <1> DEFINE zeros == {k \in DOMAIN tokens : tokens[k].kind = "zero"}
  <1>1. DOMAIN tokens = 1 .. Len(tokens) /\ Len(tokens) \in Nat
    OBVIOUS
  <1>2. zeros \in SUBSET Nat /\ zeros # {} /\ z \in zeros
    BY <1>1
  <1>3. AsString(tokens) = SubSeq(tokens, 1, Min(zeros) - 1)
    BY <1>2 DEF AsString
  <1>4. Min(zeros) \in zeros /\ \A y \in zeros : Min(zeros) <= y
    <2> HIDE DEF zeros
    <2>1. QED
      BY <1>2, HasMin
  <1>5. Min(zeros) = z
    <2> DEFINE m == Min(zeros)
    <2>1. m \in 1 .. Len(tokens) /\ tokens[m].kind = "zero" /\ m <= z
      BY <1>1, <1>2, <1>4
    <2> HIDE DEF m
    <2>2. m \notin 1 .. z - 1
      BY <2>1
    <2>3. m = z
      BY <1>1, <2>1, <2>2
    <2>4. QED
      BY <2>3 DEF m
  <1>6. AsString(tokens) = SubSeq(tokens, 1, z - 1)
    BY <1>3, <1>5
  <1>7. \A i \in 1 .. z - 1 : tokens[i] \in Tokens
    OBVIOUS
  <1>8. QED
    BY <1>6, <1>7, SubSeqProperties

\* A text without a zero is shown whole.
LEMMA Uncut ==
  ASSUME NEW tokens, \A k \in DOMAIN tokens : tokens[k].kind # "zero"
  PROVE  AsString(tokens) = tokens
  BY DEF AsString

\* The tokens that show a place, or that there is none: one or none of a text.
Shown(s) == {u \in DOMAIN s : s[u].kind \in {"place", "nothing"}}
Shows(s, entry) == \E t \in DOMAIN s : Shown(s) = {t} /\ s[t].entry = entry

\* What swampPanic writes of one context, and what is left of it in front of the zero.
LineIsRight(frame, w, s, files, k) ==
  /\ s \in Seq(Tokens) /\ \A t \in DOMAIN s : s[t].context = k
  /\ \/ /\ IsPlaceOf(0, frame.lines, frame.pc) /\ Shows(s, 0)
        /\ Len(s) = 1 /\ Len(w) >= 2 /\ w[1] = s[1] /\ w[2].kind = "zero"
     \/ \E i \in DOMAIN frame.lines :
          /\ i # 0 /\ IsPlaceOf(i, frame.lines, frame.pc)
          /\ s = w
          /\ \/ Shows(s, i)
             \/ Shown(s) = {} /\ frame.lines[i].file >= files
  /\ \A t \in DOMAIN s : s[t].kind # "zero"

\* What is written of a context has one place, or a zero in front of it.
LEMMA WrittenLine ==
  ASSUME NEW frame, frame.lines \in Seq(LineEntries), LinesRise(frame.lines), frame.pc \in Nat,
         frame.pc < PositionLimit, NEW files \in Nat, NEW k \in {1, 2},
         NEW rest \in {<< >>, <<Token("engine", k, 0)>>, <<Token("lineEnd", k, 0)>>}
  PROVE  /\ WriteLine(frame, k, files) \in Seq(Tokens)
         /\ WriteLine(frame, k, files) \o rest \in Seq(Tokens)
         /\ \E s : LineIsRight(frame, WriteLine(frame, k, files) \o rest, s, files, k)
  <1> DEFINE lines == frame.lines
             line == SingleLine(frame, files)
             w == WriteLine(frame, k, files) \o rest
             T(kind, entry) == Token(kind, k, entry)
  <1>1. \A kind \in {"nothing", "zero", "place", "engine", "lineEnd"}, entry \in Nat :
          T(kind, entry) \in Tokens /\ T(kind, entry).kind = kind /\ T(kind, entry).context = k
          /\ T(kind, entry).entry = entry
    BY DEF Token, Tokens
  <1>2. /\ rest \in Seq(Tokens) /\ Len(rest) \in {0, 1}
        /\ \A t \in DOMAIN rest : rest[t].kind \notin {"zero", "place", "nothing"} /\ rest[t].context = k
    <2>1. CASE rest = << >>
      BY <2>1
    <2>2. CASE rest = <<T("engine", 0)>>
      BY <1>1, <2>2
    <2>3. CASE rest = <<T("lineEnd", 0)>>
      BY <1>1, <2>3
    <2>4. QED
      BY <2>1, <2>2, <2>3
  <1>3. CASE line = [kind |-> "nothing", entry |-> 0] /\ IsPlaceOf(0, lines, frame.pc)
    <2> DEFINE s == <<T("nothing", 0)>>
               two == <<T("nothing", 0), T("zero", 0)>>
    <2>1. WriteLine(frame, k, files) = two
      BY <1>3 DEF WriteLine
    <2>2. two \in Seq(Tokens) /\ Len(two) = 2 /\ two[1] = T("nothing", 0) /\ two[2] = T("zero", 0)
      BY <1>1
    <2>3. s \in Seq(Tokens) /\ Len(s) = 1 /\ s[1] = T("nothing", 0) /\ DOMAIN s = {1}
      BY <1>1
    <2> HIDE DEF T, two, s
    <2>4. two \o rest \in Seq(Tokens) /\ Len(two \o rest) >= 2 /\ (two \o rest)[1] = two[1] /\ (two \o rest)[2] = two[2]
      <3>0. two \o rest \in Seq(Tokens) /\ Len(two \o rest) = Len(two) + Len(rest)
            /\ \A t \in 1 .. Len(two) + Len(rest) :
                 (two \o rest)[t] = IF t <= Len(two) THEN two[t] ELSE rest[t - Len(two)]
        BY <1>2, <2>2, ConcatProperties, Zenon
      <3>1. two \o rest \in Seq(Tokens) /\ Len(two \o rest) = 2 + Len(rest)
        BY <2>2, <3>0
      <3>2. \A t \in 1 .. 2 + Len(rest) : (two \o rest)[t] = IF t <= 2 THEN two[t] ELSE rest[t - 2]
        BY <2>2, <3>0
      <3>3. 1 \in 1 .. 2 + Len(rest) /\ 2 \in 1 .. 2 + Len(rest)
        BY <1>2
      <3>4. QED
        BY <1>2, <3>1, <3>2, <3>3
    <2>5. Shown(s) = {1} /\ s[1].entry = 0
      BY <1>1, <2>3 DEF Shown
    <2>6. LineIsRight(frame, two \o rest, s, files, k)
      BY <1>1, <1>3, <2>2, <2>3, <2>4, <2>5 DEF LineIsRight, Shows
    <2>7. QED
      BY <2>1, <2>2, <2>4, <2>6
  <1>4. CASE \E i \in DOMAIN lines :
               /\ i # 0 /\ IsPlaceOf(i, lines, frame.pc)
               /\ line = [kind |-> "place", entry |-> i] /\ lines[i].file < files
    <2>1. PICK i \in DOMAIN lines :
                 /\ i # 0 /\ IsPlaceOf(i, lines, frame.pc)
                 /\ line = [kind |-> "place", entry |-> i] /\ lines[i].file < files
      BY <1>4
    <2>2. i \in Nat
      OBVIOUS
    <2> DEFINE one == <<T("place", i)>>
               s == one \o rest
    <2>3. WriteLine(frame, k, files) = one
      BY <2>1 DEF WriteLine
    <2>4. one \in Seq(Tokens) /\ Len(one) = 1 /\ one[1] = T("place", i)
      BY <1>1, <2>2
    <2> HIDE DEF T, one
    <2>5. /\ s \in Seq(Tokens) /\ DOMAIN s = 1 .. 1 + Len(rest) /\ s[1] = T("place", i)
          /\ \A t \in DOMAIN s : t # 1 => s[t] = rest[t - 1] /\ t - 1 \in DOMAIN rest
      <3>1. one \o rest \in Seq(Tokens) /\ Len(one \o rest) = 1 + Len(rest) /\ (one \o rest)[1] = one[1]
        BY <1>2, <2>4, ConcatProperties
      <3>2. \A t \in 1 .. 1 + Len(rest) : t # 1 => (one \o rest)[t] = rest[t - 1] /\ t - 1 \in 1 .. Len(rest)
        BY <1>2, <2>4, ConcatProperties
      <3>3. DOMAIN rest = 1 .. Len(rest)
        BY <1>2
      <3>4. QED
        BY <2>4, <3>1, <3>2, <3>3
    <2> HIDE DEF s
    <2>6. Shown(s) = {1} /\ s[1].entry = i /\ 1 \in DOMAIN s
      BY <1>1, <1>2, <2>2, <2>5 DEF Shown
    <2>7. \A t \in DOMAIN s : s[t].context = k /\ s[t].kind # "zero"
      <3>1. T("place", i).kind = "place" /\ T("place", i).context = k
        BY <1>1, <2>2
      <3> HIDE DEF T
      <3>2. TAKE t \in DOMAIN s
      <3>3. CASE t = 1
        BY <2>5, <3>1, <3>3
      <3>4. CASE t # 1
        BY <1>2, <2>5, <3>4
      <3>5. QED
        BY <3>3, <3>4
    <2>8. LineIsRight(frame, s, s, files, k)
      BY <2>1, <2>5, <2>6, <2>7 DEF LineIsRight, Shows
    <2>9. QED
      BY <2>3, <2>4, <2>5, <2>8 DEF s
  <1>5. CASE \E i \in DOMAIN lines :
               /\ i # 0 /\ IsPlaceOf(i, lines, frame.pc)
               /\ line = [kind |-> "error", entry |-> 0] /\ lines[i].file >= files
    <2>1. PICK i \in DOMAIN lines :
                 /\ i # 0 /\ IsPlaceOf(i, lines, frame.pc)
                 /\ line = [kind |-> "error", entry |-> 0] /\ lines[i].file >= files
      BY <1>5
    <2>2. WriteLine(frame, k, files) = << >>
      BY <2>1 DEF WriteLine
    <2>3. << >> \o rest = rest
      BY <1>2, ConcatEmptySeq
    <2>4. Shown(rest) = {}
      BY <1>2 DEF Shown
    <2>5. LineIsRight(frame, rest, rest, files, k)
      BY <1>2, <2>1, <2>4 DEF LineIsRight
    <2>6. QED
      BY <1>2, <2>2, <2>3, <2>5
  <1>6. QED
    BY <1>3, <1>4, <1>5, SingleLineIsRight

\* A text of two contexts, one after the other.
IsJoint(V, s1, s2) ==
  /\ s1 \in Seq(Tokens) /\ \A t \in DOMAIN s1 : s1[t].context = 1
  /\ s2 \in Seq(Tokens) /\ \A t \in DOMAIN s2 : s2[t].context = 2
  /\ V \in Seq(Tokens) /\ Len(V) = Len(s1) + Len(s2)
  /\ \A i \in 1 .. Len(V) : V[i] = IF i <= Len(s1) THEN s1[i] ELSE s2[i - Len(s1)]

\* Each context shows its own places.
LEMMA BothShown ==
  ASSUME NEW V, NEW s1, NEW s2, IsJoint(V, s1, s2)
  PROVE  /\ {t \in DOMAIN V : V[t].context = 1 /\ V[t].kind \in {"place", "nothing"}} = Shown(s1)
         /\ \A t \in Shown(s1) : V[t] = s1[t]
         /\ {t \in DOMAIN V : V[t].context = 2 /\ V[t].kind \in {"place", "nothing"}}
              = {t + Len(s1) : t \in Shown(s2)}
         /\ \A t \in Shown(s2) : V[t + Len(s1)] = s2[t]
  <1> DEFINE shown(k) == {t \in DOMAIN V : V[t].context = k /\ V[t].kind \in {"place", "nothing"}}
             n == Len(s1)
  <1>1. DOMAIN V = 1 .. n + Len(s2) /\ DOMAIN s1 = 1 .. n /\ DOMAIN s2 = 1 .. Len(s2) /\ n \in Nat /\ Len(s2) \in Nat
    BY DEF IsJoint
  <1>2. \A t \in 1 .. n : V[t] = s1[t] /\ V[t].context = 1
    BY <1>1 DEF IsJoint
  <1>3. \A t \in n + 1 .. n + Len(s2) : V[t] = s2[t - n] /\ V[t].context = 2 /\ t - n \in 1 .. Len(s2)
    BY <1>1 DEF IsJoint
  <1>4. \A t \in 1 .. Len(s2) : t + n \in n + 1 .. n + Len(s2) /\ (t + n) - n = t
    BY <1>1
  <1>5. shown(1) = Shown(s1)
    BY <1>1, <1>2, <1>3 DEF Shown
  <1>6. \A t \in Shown(s1) : V[t] = s1[t]
    BY <1>1, <1>2 DEF Shown
  <1>7. \A t \in Shown(s2) : V[t + n] = s2[t]
    BY <1>1, <1>3, <1>4 DEF Shown
  <1>8. ASSUME NEW t \in shown(2) PROVE t \in {u + n : u \in Shown(s2)}
    <2>1. t \in n + 1 .. n + Len(s2)
      BY <1>1, <1>2
    <2>2. t - n \in Shown(s2)
      BY <1>1, <1>3, <2>1 DEF Shown
    <2>3. t = (t - n) + n
      BY <1>1
    <2>4. QED
      BY <2>2, <2>3
  <1>9. ASSUME NEW u \in Shown(s2) PROVE u + n \in shown(2)
    <2>1. u \in 1 .. Len(s2) /\ s2[u].kind \in {"place", "nothing"}
      BY <1>1 DEF Shown
    <2>2. V[u + n] = s2[u] /\ V[u + n].context = 2 /\ u + n \in DOMAIN V
      <3>1. u + n \in n + 1 .. n + Len(s2) /\ (u + n) - n = u
        BY <1>4, <2>1
      <3>2. V[u + n] = s2[(u + n) - n] /\ V[u + n].context = 2
        BY <1>3, <3>1
      <3>3. QED
        BY <1>1, <3>1, <3>2
    <2>3. QED
      BY <2>1, <2>2
  <1>10. shown(2) = {u + n : u \in Shown(s2)}
    BY <1>8, <1>9
  <1>11. QED
    BY <1>5, <1>6, <1>7, <1>10

\* What a text shows of the context k.
PlaceIsShown(V, k, frame, files) ==
  LET shown == {t \in DOMAIN V : V[t].context = k /\ V[t].kind \in {"place", "nothing"}}
  IN  \/ \E t \in shown : shown = {t} /\ IsPlaceOf(V[t].entry, frame.lines, frame.pc)
      \/ shown = {} /\ \E i \in DOMAIN frame.lines :
           IsPlaceOf(i, frame.lines, frame.pc) /\ frame.lines[i].file >= files

\* So the place of the first context is shown as it was written, and that of the second.
LEMMA FirstPlace ==
  ASSUME NEW f1, NEW files, NEW w1, NEW s1, NEW s2, LineIsRight(f1, w1, s1, files, 1),
         NEW V, IsJoint(V, s1, s2)
  PROVE  PlaceIsShown(V, 1, f1, files)
  <1> DEFINE shown(k) == {t \in DOMAIN V : V[t].context = k /\ V[t].kind \in {"place", "nothing"}}
             n == Len(s1)
  <1>0. shown(1) = Shown(s1) /\ \A t \in Shown(s1) : V[t] = s1[t]
    BY BothShown
  <1> HIDE DEF shown
  <1>1. CASE IsPlaceOf(0, f1.lines, f1.pc) /\ Shows(s1, 0)
    <2>1. PICK t \in DOMAIN s1 : Shown(s1) = {t} /\ s1[t].entry = 0
      BY <1>1 DEF Shows
    <2>2. t \in shown(1) /\ shown(1) = {t} /\ V[t].entry = 0
      BY <1>0, <2>1
    <2>3. QED
      BY <1>1, <2>2 DEF PlaceIsShown, shown
  <1>2. CASE \E i \in DOMAIN f1.lines : IsPlaceOf(i, f1.lines, f1.pc)
               /\ (Shows(s1, i) \/ (Shown(s1) = {} /\ f1.lines[i].file >= files))
    <2>1. PICK i \in DOMAIN f1.lines : IsPlaceOf(i, f1.lines, f1.pc)
                 /\ (Shows(s1, i) \/ (Shown(s1) = {} /\ f1.lines[i].file >= files))
      BY <1>2
    <2>2. CASE Shows(s1, i)
      <3>1. PICK t \in DOMAIN s1 : Shown(s1) = {t} /\ s1[t].entry = i
        BY <2>2 DEF Shows
      <3>2. t \in shown(1) /\ shown(1) = {t} /\ V[t].entry = i
        BY <1>0, <3>1
      <3>3. QED
        BY <2>1, <3>2 DEF PlaceIsShown, shown
    <2>3. CASE Shown(s1) = {} /\ f1.lines[i].file >= files
      BY <1>0, <2>1, <2>3 DEF PlaceIsShown, shown
    <2>4. QED
      BY <2>1, <2>2, <2>3
  <1>3. QED
    <2>1. \/ IsPlaceOf(0, f1.lines, f1.pc) /\ Shows(s1, 0)
          \/ \E i \in DOMAIN f1.lines : IsPlaceOf(i, f1.lines, f1.pc)
               /\ (Shows(s1, i) \/ (Shown(s1) = {} /\ f1.lines[i].file >= files))
      BY Zenon DEF LineIsRight
    <2>2. QED
      BY <1>1, <1>2, <2>1

LEMMA SecondPlace ==
  ASSUME NEW f2, NEW files, NEW w2, NEW s1, NEW s2, LineIsRight(f2, w2, s2, files, 2),
         NEW V, IsJoint(V, s1, s2)
  PROVE  PlaceIsShown(V, 2, f2, files)
  <1> DEFINE shown(k) == {t \in DOMAIN V : V[t].context = k /\ V[t].kind \in {"place", "nothing"}}
             n == Len(s1)
  <1>0. shown(2) = {t + n : t \in Shown(s2)} /\ \A t \in Shown(s2) : V[t + n] = s2[t]
    BY BothShown
  <1> HIDE DEF shown
  <1>1. CASE IsPlaceOf(0, f2.lines, f2.pc) /\ Shows(s2, 0)
    <2>1. PICK t \in DOMAIN s2 : Shown(s2) = {t} /\ s2[t].entry = 0
      BY <1>1 DEF Shows
    <2>2. t + n \in shown(2) /\ shown(2) = {t + n} /\ V[t + n].entry = 0
      BY <1>0, <2>1
    <2>3. QED
      BY <1>1, <2>2 DEF PlaceIsShown, shown
  <1>2. CASE \E i \in DOMAIN f2.lines : IsPlaceOf(i, f2.lines, f2.pc)
               /\ (Shows(s2, i) \/ (Shown(s2) = {} /\ f2.lines[i].file >= files))
    <2>1. PICK i \in DOMAIN f2.lines : IsPlaceOf(i, f2.lines, f2.pc)
                 /\ (Shows(s2, i) \/ (Shown(s2) = {} /\ f2.lines[i].file >= files))
      BY <1>2
    <2>2. CASE Shows(s2, i)
      <3>1. PICK t \in DOMAIN s2 : Shown(s2) = {t} /\ s2[t].entry = i
        BY <2>2 DEF Shows
      <3>2. t + n \in shown(2) /\ shown(2) = {t + n} /\ V[t + n].entry = i
        BY <1>0, <3>1
      <3>3. QED
        BY <2>1, <3>2 DEF PlaceIsShown, shown
    <2>3. CASE Shown(s2) = {} /\ f2.lines[i].file >= files
      BY <1>0, <2>1, <2>3 DEF PlaceIsShown, shown
    <2>4. QED
      BY <2>1, <2>2, <2>3
  <1>3. QED
    <2>1. \/ IsPlaceOf(0, f2.lines, f2.pc) /\ Shows(s2, 0)
          \/ \E i \in DOMAIN f2.lines : IsPlaceOf(i, f2.lines, f2.pc)
               /\ (Shows(s2, i) \/ (Shown(s2) = {} /\ f2.lines[i].file >= files))
      BY Zenon DEF LineIsRight
    <2>2. QED
      BY <1>1, <1>2, <2>1

\* What is written of the two contexts is a text of both, or of the first
\* only if nothing was found for that.
LEMMA BacktraceIsRight ==
  ASSUME NEW f1, NEW f2, NEW files, NEW w1 \in Seq(Tokens), NEW s1, LineIsRight(f1, w1, s1, files, 1),
         NEW w2 \in Seq(Tokens), NEW s2, LineIsRight(f2, w2, s2, files, 2), NEW V, V = AsString(w1 \o w2)
  PROVE  \/ IsPlaceOf(0, f1.lines, f1.pc) /\ IsJoint(V, s1, << >>)
         \/ ~IsPlaceOf(0, f1.lines, f1.pc) /\ IsJoint(V, s1, s2)
  <1> DEFINE all == w1 \o w2
  <1>1. /\ s1 \in Seq(Tokens) /\ \A t \in DOMAIN s1 : s1[t].context = 1
        /\ s2 \in Seq(Tokens) /\ \A t \in DOMAIN s2 : s2[t].context = 2
        /\ \A t \in DOMAIN s1 : s1[t].kind # "zero"
        /\ \A t \in DOMAIN s2 : s2[t].kind # "zero"
    BY DEF LineIsRight
  <1>2. /\ all \in Seq(Tokens) /\ Len(all) = Len(w1) + Len(w2)
        /\ \A i \in 1 .. Len(w1) + Len(w2) : all[i] = IF i <= Len(w1) THEN w1[i] ELSE w2[i - Len(w1)]
    BY ConcatProperties, Zenon
  <1>3. /\ Len(w1) \in Nat /\ Len(w2) \in Nat /\ Len(s1) \in Nat /\ Len(s2) \in Nat
        /\ DOMAIN s1 = 1 .. Len(s1) /\ DOMAIN s2 = 1 .. Len(s2) /\ DOMAIN all = 1 .. Len(all)
    BY <1>1, <1>2
  <1> HIDE DEF all
  <1>4. V = AsString(all)
    BY DEF all
  <1>5. CASE /\ IsPlaceOf(0, f1.lines, f1.pc)
             /\ Len(s1) = 1 /\ Len(w1) >= 2 /\ w1[1] = s1[1] /\ w1[2].kind = "zero"
    <2>1. 2 \in 1 .. Len(all) /\ all[1] = s1[1] /\ all[2].kind = "zero"
      BY <1>2, <1>3, <1>5
    <2>2. \A k \in 1 .. 2 - 1 : all[k].kind # "zero"
      BY <1>1, <1>3, <1>5, <2>1
    <2>3. V \in Seq(Tokens) /\ Len(V) = 1 /\ V[1] = s1[1]
      <3>1. AsString(all) \in Seq(Tokens) /\ Len(AsString(all)) = 2 - 1
            /\ \A i \in 1 .. 2 - 1 : AsString(all)[i] = all[i]
        BY <1>2, <2>1, <2>2, CutAt
      <3>2. QED
        BY <1>4, <2>1, <3>1
    <2>4. IsJoint(V, s1, << >>)
      BY <1>1, <1>5, <2>3 DEF IsJoint
    <2>5. QED
      BY <1>5, <2>4
  <1>6. CASE /\ ~IsPlaceOf(0, f1.lines, f1.pc) /\ s1 = w1
             /\ \/ Len(s2) = 1 /\ Len(w2) >= 2 /\ w2[1] = s2[1] /\ w2[2].kind = "zero"
                \/ s2 = w2
    <2>1. CASE Len(s2) = 1 /\ Len(w2) >= 2 /\ w2[1] = s2[1] /\ w2[2].kind = "zero"
      <3> DEFINE z == Len(s1) + 2
      <3>1. z \in 1 .. Len(all) /\ all[z].kind = "zero"
        <4>1. /\ z \in 1 .. Len(w1) + Len(w2) /\ z \in 1 .. Len(all) /\ ~(z <= Len(w1))
              /\ z - Len(w1) = 2
          BY <1>2, <1>3, <1>6, <2>1
        <4>2. all[z] = w2[z - Len(w1)]
          BY <1>2, <4>1
        <4>3. QED
          BY <2>1, <4>1, <4>2
      <3>2. \A i \in 1 .. z - 1 : all[i] = IF i <= Len(s1) THEN s1[i] ELSE s2[i - Len(s1)]
        <4> TAKE i \in 1 .. z - 1
        <4>1. i \in 1 .. Len(w1) + Len(w2) /\ Len(s1) = Len(w1)
          BY <1>3, <1>6, <2>1
        <4>2. CASE i <= Len(s1)
          BY <1>2, <1>6, <4>1, <4>2
        <4>3. CASE ~(i <= Len(s1))
          <5>1. i - Len(s1) = 1 /\ i - Len(w1) = 1
            BY <1>3, <4>1, <4>3
          <5>2. all[i] = w2[i - Len(w1)]
            BY <1>2, <4>1, <4>3
          <5>3. QED
            BY <2>1, <4>3, <5>1, <5>2
        <4>4. QED
          BY <4>2, <4>3
      <3>3. \A k \in 1 .. z - 1 : all[k].kind # "zero"
        <4> TAKE k \in 1 .. z - 1
        <4>1. CASE k <= Len(s1)
          BY <1>1, <1>3, <3>2, <4>1
        <4>2. CASE k > Len(s1)
          <5>1. k - Len(s1) \in DOMAIN s2
            BY <1>3, <2>1, <4>2
          <5>2. QED
            BY <1>1, <1>3, <3>2, <4>2, <5>1
        <4>3. QED
          BY <1>3, <4>1, <4>2
      <3>4. V \in Seq(Tokens) /\ Len(V) = z - 1 /\ \A i \in 1 .. z - 1 : V[i] = all[i]
        <4> HIDE DEF z
        <4>1. /\ AsString(all) \in Seq(Tokens) /\ Len(AsString(all)) = z - 1
              /\ \A i \in 1 .. z - 1 : AsString(all)[i] = all[i]
          BY <1>2, <3>1, <3>3, CutAt, Zenon
        <4>2. QED
          BY <1>4, <4>1
      <3>5. IsJoint(V, s1, s2)
        BY <1>1, <1>3, <2>1, <3>2, <3>4 DEF IsJoint
      <3>6. QED
        BY <1>6, <3>5
    <2>2. CASE s2 = w2
      <3>1. \A k \in DOMAIN all : all[k].kind # "zero"
        <4> TAKE k \in DOMAIN all
        <4>1. CASE k <= Len(s1)
          BY <1>1, <1>2, <1>3, <1>6, <2>2, <4>1
        <4>2. CASE k > Len(s1)
          <5>1. k - Len(s1) \in DOMAIN s2 /\ all[k] = s2[k - Len(s1)]
            BY <1>2, <1>3, <1>6, <2>2, <4>2
          <5>2. QED
            BY <1>1, <5>1
        <4>3. QED
          BY <1>3, <4>1, <4>2
      <3>2. V = all
        BY <1>4, <3>1, Uncut
      <3>3. IsJoint(V, s1, s2)
        BY <1>1, <1>2, <1>6, <2>2, <3>2 DEF IsJoint
      <3>4. QED
        BY <1>6, <3>3
    <2>3. QED
      BY <1>6, <2>1, <2>2
  <1>7. ASSUME ~IsPlaceOf(0, f1.lines, f1.pc)
        PROVE  s1 = w1
    BY <1>7 DEF LineIsRight
  <1>8. ASSUME IsPlaceOf(0, f1.lines, f1.pc)
        PROVE  Len(s1) = 1 /\ Len(w1) >= 2 /\ w1[1] = s1[1] /\ w1[2].kind = "zero"
    <2>1. \A i \in DOMAIN f1.lines : i # 0 => ~IsPlaceOf(i, f1.lines, f1.pc)
      BY <1>8 DEF IsPlaceOf
    <2>2. QED
      BY <2>1 DEF LineIsRight
  <1>9. \/ Len(s2) = 1 /\ Len(w2) >= 2 /\ w2[1] = s2[1] /\ w2[2].kind = "zero"
        \/ s2 = w2
    BY DEF LineIsRight
  <1>10. QED
    BY <1>5, <1>6, <1>7, <1>8, <1>9

\* The text of a panic.
LEMMA BacktraceSteps ==
  ASSUME CallBacktrace PROVE PlacesAreRight'
  <1> DEFINE First(inner, pc) == Frame(inner, << >>, pc, FALSE)
             Second(outer, named) == Frame(outer, << >>, 1, named)
             Does(frames, files) ==
               last' = [name |-> "backtrace", args |-> [frames |-> frames, files |-> files],
                        outcome |-> Returned(AsString(LinesToString(frames, files)))]
  <1>0. \E inner, outer \in LineTables, files \in FileCounts, pc \in Positions16, named \in BOOLEAN :
          Does(<<First(inner, pc), Second(outer, named)>>, files)
    BY DEF CallBacktrace, Calls, Ends
  <1> HIDE DEF Does, First, Second
  <1>1. PICK inner \in LineTables, outer \in LineTables, files \in FileCounts, pc \in Positions16,
       named \in BOOLEAN :
          Does(<<First(inner, pc), Second(outer, named)>>, files)
    BY <1>0
  <1> DEFINE f1 == First(inner, pc)
             f2 == Second(outer, named)
             frames == <<f1, f2>>
             V == AsString(LinesToString(frames, files))
  <1>2. /\ f1.lines = inner /\ f1.pc = pc /\ f1.named = FALSE
        /\ f2.lines = outer /\ f2.pc = 1 /\ f2.named = named
    BY DEF Frame, First, Second
  <1>3. /\ inner \in Seq(LineEntries) /\ LinesRise(inner) /\ outer \in Seq(LineEntries) /\ LinesRise(outer)
        /\ pc \in Nat /\ files \in Nat /\ 1 < PositionLimit /\ PositionLimit \in Nat
    BY TablesAssumption, LimitAssumption DEF LineEntries, LinesRise
  <1> HIDE DEF f1, f2
  <1>4. last'.name = "backtrace" /\ Args'.frames = frames /\ Args'.files = files /\ Value' = V
    BY <1>1 DEF Args, Value, Returned, Does, f1, f2
  <1>5. Len(frames) = 2 /\ frames[1] = f1 /\ frames[2] = f2
    OBVIOUS
  <1> HIDE DEF frames
  <1>6. ASSUME pc < PositionLimit
        PROVE  \/ IsPlaceOf(0, f1.lines, f1.pc) /\ PlaceIsShown(V, 1, f1, files) /\ \A t \in DOMAIN V : V[t].context < 2
               \/ ~IsPlaceOf(0, f1.lines, f1.pc) /\ PlaceIsShown(V, 1, f1, files) /\ PlaceIsShown(V, 2, f2, files)
    <2> DEFINE r1 == <<Token("lineEnd", 1, 0)>>
               r2 == IF named THEN <<Token("engine", 2, 0)>> ELSE << >>
               u1 == WriteLine(f1, 1, files)
               u2 == WriteLine(f2, 2, files)
               w1 == u1 \o r1
               w2 == u2 \o r2
    <2>1. u1 \in Seq(Tokens) /\ w1 \in Seq(Tokens) /\ \E s : LineIsRight(f1, w1, s, files, 1)
      BY <1>2, <1>3, <1>6, WrittenLine
    <2>2. u2 \in Seq(Tokens) /\ w2 \in Seq(Tokens) /\ \E s : LineIsRight(f2, w2, s, files, 2)
      <3>1. r2 \in {<< >>, <<Token("engine", 2, 0)>>, <<Token("lineEnd", 2, 0)>>}
        OBVIOUS
      <3> HIDE DEF r2
      <3>2. 1 \in Nat /\ 2 \in {1, 2}
        OBVIOUS
      <3>3. QED
        BY <1>2, <1>3, <3>1, <3>2, WrittenLine
    <2>3. LinesToString(frames, files) = w1 \o w2
      <3>1. FlattenSeq(<<w1, w2>>) = w1 \o w2
        BY <2>1, <2>2, FlattenedTwo
      <3> DEFINE Part(k) == WriteLine(frames[k], k, files)
                   \o (IF frames[k].named THEN <<Token("engine", k, 0)>> ELSE << >>)
                   \o (IF k < Len(frames) THEN <<Token("lineEnd", k, 0)>> ELSE << >>)
      <3>2. Part(1) = w1
        <4>1. Part(1) = (u1 \o << >>) \o r1
          <5>1. ~frames[1].named /\ 1 < Len(frames) /\ frames[1] = f1
            BY <1>2, <1>5
          <5>2. QED
            BY <5>1
        <4>2. u1 \o << >> = u1
          BY <2>1, ConcatEmptySeq
        <4>3. QED
          BY <4>1, <4>2
      <3>3. Part(2) = w2
        <4>1. Part(2) = (u2 \o r2) \o << >>
          BY <1>2, <1>5
        <4>2. w2 \o << >> = w2
          BY <2>2, ConcatEmptySeq
        <4>3. QED
          BY <4>1, <4>2
      <3>4. LinesToString(frames, files) = FlattenSeq([k \in 1 .. 2 |-> Part(k)])
        BY <1>5 DEF LinesToString
      <3> HIDE DEF Part, w1, w2
      <3>5. [k \in 1 .. 2 |-> Part(k)] = <<w1, w2>>
        BY <3>2, <3>3
      <3>6. QED
        BY <3>1, <3>4, <3>5
    <2> HIDE DEF w1, w2
    <2>4. PICK s1 : LineIsRight(f1, w1, s1, files, 1)
      BY <2>1
    <2>5. PICK s2 : LineIsRight(f2, w2, s2, files, 2)
      BY <2>2
    <2>6. V = AsString(w1 \o w2)
      BY <2>3
    <2> HIDE DEF V
    <2>7. CASE IsPlaceOf(0, f1.lines, f1.pc) /\ IsJoint(V, s1, << >>)
      <3>1. Shown(<< >>) = {}
        BY DEF Shown
      <3>2. V \in Seq(Tokens) /\ \A t \in DOMAIN V : V[t].context = 1
        BY <2>7 DEF IsJoint
      <3>3. PlaceIsShown(V, 1, f1, files)
        BY <2>4, <2>7, FirstPlace
      <3>4. QED
        BY <2>7, <3>2, <3>3
    <2>8. CASE ~IsPlaceOf(0, f1.lines, f1.pc) /\ IsJoint(V, s1, s2)
      BY <2>4, <2>5, <2>8, FirstPlace, SecondPlace
    <2>9. QED
      BY <2>1, <2>2, <2>4, <2>5, <2>6, <2>7, <2>8, BacktraceIsRight
  <1> HIDE DEF V
  <1>7. ASSUME pc < PositionLimit, NEW k \in 1 .. 2
        PROVE  LET lines == frames[k].lines
                   Unplaced(j) == IsPlaceOf(0, frames[j].lines, frames[j].pc)
                   shown == {t \in DOMAIN V : V[t].context = k /\ V[t].kind \in {"place", "nothing"}}
               IN  IF \E j \in 1 .. k - 1 : Unplaced(j) THEN \A t \in DOMAIN V : V[t].context < k
                   ELSE \/ \E t \in shown : shown = {t} /\ IsPlaceOf(V[t].entry, lines, frames[k].pc)
                        \/ shown = {} /\ \E i \in DOMAIN lines :
                             IsPlaceOf(i, lines, frames[k].pc) /\ lines[i].file >= files
    <2>1. CASE k = 1
      <3>1. ~\E j \in 1 .. k - 1 : IsPlaceOf(0, frames[j].lines, frames[j].pc)
        BY <2>1
      <3>2. PlaceIsShown(V, 1, f1, files)
        BY <1>6, <1>7
      <3>3. QED
        BY <1>5, <2>1, <3>1, <3>2 DEF PlaceIsShown
    <2>2. CASE k = 2
      <3>1. (\E j \in 1 .. k - 1 : IsPlaceOf(0, frames[j].lines, frames[j].pc)) <=> IsPlaceOf(0, f1.lines,
           f1.pc)
        BY <1>5, <2>2
      <3>2. IF IsPlaceOf(0, f1.lines, f1.pc) THEN \A t \in DOMAIN V : V[t].context < 2
            ELSE PlaceIsShown(V, 2, f2, files)
        BY <1>6, <1>7
      <3>3. QED
        BY <1>5, <2>2, <3>1, <3>2 DEF PlaceIsShown
    <2>3. QED
      BY <2>1, <2>2
  <1>8. QED
    BY <1>2, <1>4, <1>5, <1>7 DEF PlacesAreRight, Called

-----------------------------------------------------------------------------
(* Variables.                                                               *)

\* The tables of variables.
Lives == [start : Nat, end : Nat]

\* What the loop has found among the first i variables: the indices of those
\* that are alive, in order.
IsFound(f, i, A) ==
  LET some == {j \in 1 .. i : j \in A}
  IN  /\ f \in Seq(Nat) /\ Range(f) = some
      /\ \A j, k \in DOMAIN f : j < k => f[j] < f[k]
      /\ IsFiniteSet(some) /\ Len(f) = Cardinality(some)

\* The next variable is found if it is alive.
LEMMA FoundNext ==
  ASSUME NEW f, NEW i \in Nat, NEW A, IsFound(f, i, A)
  PROVE  IsFound(IF i + 1 \in A THEN Append(f, i + 1) ELSE f, i + 1, A)
  <1> DEFINE some(m) == {j \in 1 .. m : j \in A}
  <1>1. /\ f \in Seq(Nat) /\ Range(f) = some(i) /\ \A j, k \in DOMAIN f : j < k => f[j] < f[k]
        /\ IsFiniteSet(some(i)) /\ Len(f) = Cardinality(some(i))
    BY DEF IsFound
  <1>2. CASE i + 1 \notin A
    <2>1. some(i + 1) = some(i)
      BY <1>2
    <2>2. IsFound(f, i + 1, A)
      BY <1>1, <2>1 DEF IsFound
    <2>3. QED
      BY <1>2, <2>2
  <1>3. CASE i + 1 \in A
    <2> DEFINE g == Append(f, i + 1)
               n == Len(f)
    <2>1. /\ g \in Seq(Nat) /\ Len(g) = n + 1 /\ DOMAIN g = 1 .. n + 1 /\ DOMAIN f = 1 .. n /\ n \in Nat
          /\ g[n + 1] = i + 1 /\ \A j \in 1 .. n : g[j] = f[j]
      <3>1. f \in Seq(Nat) /\ i + 1 \in Nat
        BY <1>1
      <3>2. QED
        BY <3>1, AppendProperties
    <2> HIDE DEF g, n
    <2>2. \A j \in 1 .. n : f[j] \in some(i)
      BY <1>1, <2>1 DEF Range
    <2>3. \A j \in 1 .. n : f[j] < i + 1 /\ f[j] \in Nat
      BY <2>2
    <2>4. some(i + 1) = some(i) \cup {i + 1} /\ i + 1 \notin some(i)
      BY <1>3
    <2>5. Range(g) = some(i + 1)
      <3>1. ASSUME NEW v \in Range(g) PROVE v \in some(i) \cup {i + 1}
        BY <2>1, <2>2 DEF Range
      <3>2. i + 1 \in Range(g)
        <4>1. n + 1 \in DOMAIN g
          BY <2>1
        <4>2. QED
          BY <2>1, <4>1 DEF Range
      <3>3. ASSUME NEW v \in some(i) PROVE v \in Range(g)
        <4>1. PICK j \in DOMAIN f : f[j] = v
          BY <1>1 DEF Range
        <4>2. j \in DOMAIN g /\ g[j] = v
          BY <2>1, <4>1
        <4>3. QED
          BY <4>2 DEF Range
      <3> HIDE DEF some
      <3>4. QED
        BY <2>4, <3>1, <3>2, <3>3
    <2>6. \A j, k \in DOMAIN g : j < k => g[j] < g[k]
      <3> TAKE j \in DOMAIN g, k \in DOMAIN g
      <3>1. CASE k = n + 1
        BY <2>1, <2>3, <3>1
      <3>2. CASE k # n + 1
        <4>1. j \in 1 .. n + 1 /\ k \in 1 .. n /\ n \in Nat
          BY <2>1, <3>2
        <4>2. ASSUME j < k PROVE j \in DOMAIN f /\ k \in DOMAIN f /\ g[j] = f[j] /\ g[k] = f[k]
          BY <2>1, <4>1, <4>2
        <4>3. \A a, b \in DOMAIN f : a < b => f[a] < f[b]
          BY <1>1
        <4>4. QED
          BY <4>2, <4>3
      <3>3. QED
        BY <3>1, <3>2
    <2>7. IsFiniteSet(some(i + 1)) /\ Cardinality(some(i + 1)) = n + 1
      <3> HIDE DEF some
      <3>1. QED
        BY <1>1, <2>4, FS_AddElement DEF n
    <2>8. IsFound(g, i + 1, A)
      BY <2>1, <2>5, <2>6, <2>7 DEF IsFound
    <2>9. QED
      BY <1>3, <2>8 DEF g
  <1>4. QED
    BY <1>2, <1>3

\* The search for variables finds those that are alive, in order, if there is room for them.
LEMMA FindVariablesIsRight ==
  ASSUME NEW variables \in Seq(Lives), NEW position \in Nat
  PROVE  LET alive == {i \in DOMAIN variables : position \in variables[i].start + 1 .. variables[i].end}
             found == FindVariables(variables, position)
         IN  IF Cardinality(alive) > MaxEntries THEN found = TooMany
             ELSE /\ found # TooMany /\ Range(found) = alive
                  /\ \A i, j \in DOMAIN found : i < j => found[i] < found[j]
  <1> DEFINE n == Len(variables)
             IsAlive(i) == variables[i].start < position /\ position <= variables[i].end
             A == {i \in DOMAIN variables : position \in variables[i].start + 1 .. variables[i].end}
             S == Seq(Nat)
             step == [i \in 1 .. n |-> [v \in S |-> IF IsAlive(i) THEN Append(v, i) ELSE v]]
             Good(g) == g = [i \in 0 .. n |-> IF i = 0 THEN << >> ELSE IF IsAlive(i) THEN Append(g[i - 1],
                  i) ELSE g[i - 1]]
             found == CHOOSE g : Good(g)
             alive == found[n]
  <1>1. n \in Nat /\ DOMAIN variables = 1 .. n /\ \A i \in 1 .. n : variables[i] \in Lives
    OBVIOUS
  <1>2. \A i \in 1 .. n : IsAlive(i) <=> i \in A
    BY <1>1 DEF Lives
  <1>3. step \in [1 .. n -> [S -> S]] /\ << >> \in S
    <2>1. \A i \in 1 .. n, v \in S : Append(v, i) \in S
      BY <1>1
    <2> HIDE DEF IsAlive, S
    <2>2. \A i \in 1 .. n : [v \in S |-> IF IsAlive(i) THEN Append(v, i) ELSE v] \in [S -> S]
      BY <2>1
    <2>3. << >> \in S
      BY DEF S
    <2>4. QED
      BY <2>2, <2>3
  <1>4. PICK f : IsIteration(f, n, S, << >>, step)
    <2> HIDE DEF step, S, n
    <2>1. QED
      BY <1>1, <1>3, Iterates
  <1>5. Good(f)
    <2>1. \A i \in 1 .. n : f[i] = step[i][f[i - 1]] /\ f[i - 1] \in S
      <3>1. \A i \in 1 .. n : i - 1 \in 0 .. n
        BY <1>1
      <3> HIDE DEF step, S
      <3>2. QED
        BY <1>4, <3>1 DEF IsIteration
    <2>2. f \in [0 .. n -> S] /\ f[0] = << >>
      BY <1>4 DEF IsIteration
    <2>3. \A i \in 1 .. n, v \in S : step[i][v] = IF IsAlive(i) THEN Append(v, i) ELSE v
      OBVIOUS
    <2> HIDE DEF step, S, IsAlive
    <2>4. \A i \in 1 .. n : f[i] = IF IsAlive(i) THEN Append(f[i - 1], i) ELSE f[i - 1]
      BY <2>1, <2>3
    <2>5. \A i \in 0 .. n : i = 0 \/ i \in 1 .. n
      BY <1>1
    <2>6. QED
      BY <2>2, <2>4, <2>5
  <1>6. Good(found)
    <2> HIDE DEF Good
    <2>1. QED
      BY <1>5
  <1>7. FindVariables(variables, position) = IF Len(alive) > MaxEntries THEN TooMany ELSE alive
    BY DEF FindVariables
  <1> HIDE DEF found
  <1>8. \A i \in 0 .. n : found[i] = IF i = 0 THEN << >> ELSE IF IsAlive(i) THEN Append(found[i - 1],
       i) ELSE found[i - 1]
    BY <1>6
  <1> DEFINE T == {i \in 0 .. n : IsFound(found[i], i, A)}
  <1>9. 0 \in T
    <2>1. found[0] = << >>
      BY <1>1, <1>8
    <2>2. {j \in 1 .. 0 : j \in A} = {}
      OBVIOUS
    <2>3. IsFound(<< >>, 0, A)
      BY <2>2, FS_EmptySet DEF IsFound, Range
    <2>4. QED
      BY <1>1, <2>1, <2>3
  <1>10. ASSUME NEW i \in 0 .. n - 1, i \in T PROVE i + 1 \in T
    <2>1. IsFound(found[i], i, A) /\ i \in Nat /\ i + 1 \in 1 .. n /\ i + 1 \in 0 .. n
      BY <1>1, <1>10
    <2>2. found[i + 1] = IF i + 1 \in A THEN Append(found[i], i + 1) ELSE found[i]
      <3>1. (i + 1) - 1 = i /\ i + 1 # 0
        BY <2>1
      <3>2. IsAlive(i + 1) <=> i + 1 \in A
        BY <1>2, <2>1
      <3> HIDE DEF IsAlive, A
      <3>3. QED
        BY <1>8, <2>1, <3>1, <3>2
    <2>3. IsFound(IF i + 1 \in A THEN Append(found[i], i + 1) ELSE found[i], i + 1, A)
      BY <2>1, FoundNext
    <2>4. QED
      BY <2>1, <2>2, <2>3
  <1>11. IsFound(alive, n, A)
    <2> HIDE DEF T
    <2>1. \A i \in 0 .. n : i \in T
      BY <1>1, <1>9, <1>10, SetInduction
    <2>2. n \in T
      BY <1>1, <2>1
    <2>3. QED
      BY <2>2 DEF T
  <1>12. {j \in 1 .. n : j \in A} = A
    BY <1>1
  <1> HIDE DEF alive, A
  <1>13. /\ alive \in Seq(Nat) /\ Range(alive) = A /\ Len(alive) = Cardinality(A)
         /\ \A j, k \in DOMAIN alive : j < k => alive[j] < alive[k]
    BY <1>11, <1>12 DEF IsFound
  <1>14. alive # TooMany
    <2>1. 0 \notin Range(alive)
      BY <1>1, <1>13 DEF A
    <2>2. 0 \in Range(TooMany)
      BY DEF TooMany, Range
    <2>3. QED
      BY <2>1, <2>2
  <1>15. CASE Len(alive) > MaxEntries
    BY <1>7, <1>13, <1>15 DEF A
  <1>16. CASE ~(Len(alive) > MaxEntries)
    BY <1>7, <1>13, <1>14, <1>16 DEF A
  <1>17. QED
    BY <1>15, <1>16

\* The variables of two frames.
LEMMA VariablesSteps ==
  ASSUME CallVariables PROVE VariablesAreRight'
  <1> DEFINE First(inner, pc) == Frame(<< >>, inner, pc, FALSE)
             Second(outer) == Frame(<< >>, outer, 1, FALSE)
             Does(frames) ==
               last' = [name |-> "variables", args |-> [frames |-> frames],
                        outcome |-> Returned(VariablesToString(frames))]
  <1>0. \E inner, outer \in VariableTables, pc \in Positions16 : Does(<<First(inner, pc), Second(outer)>>)
    BY DEF CallVariables, Calls, Ends
  <1> HIDE DEF Does, First, Second
  <1>1. PICK inner \in VariableTables, outer \in VariableTables, pc \in Positions16 :
          Does(<<First(inner, pc), Second(outer)>>)
    BY <1>0
  <1> DEFINE f1 == First(inner, pc)
             f2 == Second(outer)
             frames == <<f1, f2>>
             V == VariablesToString(frames)
             Alive(f) == {i \in DOMAIN f.variables : f.pc \in f.variables[i].start + 1 .. f.variables[i].end}
             found(k) == FindVariables(frames[k].variables, OpcodePosition(frames[k]))
  <1>2. f1.variables = inner /\ f1.pc = pc /\ f2.variables = outer /\ f2.pc = 1
    BY DEF Frame, First, Second
  <1>3. /\ inner \in Seq(Lives) /\ outer \in Seq(Lives) /\ pc \in Nat
        /\ 1 < PositionLimit /\ PositionLimit \in Nat /\ MaxEntries \in Nat
    BY TablesAssumption, LimitAssumption DEF Lives
  <1>4. last'.name = "variables" /\ Args'.frames = frames /\ Value' = V
    BY <1>1 DEF Args, Value, Returned, Does, f1, f2
  <1> HIDE DEF f1, f2
  <1>5. Len(frames) = 2 /\ DOMAIN frames = 1 .. 2 /\ frames[1] = f1 /\ frames[2] = f2
    OBVIOUS
  <1> HIDE DEF frames
  <1>6. ASSUME pc < PositionLimit, NEW k \in 1 .. 2
        PROVE  IF Cardinality(Alive(frames[k])) > MaxEntries THEN found(k) = TooMany
               ELSE /\ found(k) # TooMany /\ Range(found(k)) = Alive(frames[k])
                    /\ \A i, j \in DOMAIN found(k) : i < j => found(k)[i] < found(k)[j]
    <2>1. /\ frames[k].variables \in Seq(Lives) /\ frames[k].pc \in Nat
          /\ OpcodePosition(frames[k]) = frames[k].pc
      <3>1. CASE k = 1
        BY <1>2, <1>3, <1>5, <1>6, <3>1 DEF OpcodePosition
      <3>2. CASE k = 2
        BY <1>2, <1>3, <1>5, <3>2 DEF OpcodePosition
      <3>3. QED
        BY <3>1, <3>2
    <2>2. QED
      BY <2>1, FindVariablesIsRight
  <1>7. V = IF \E k \in 1 .. 2 : found(k) = TooMany THEN << >> ELSE [k \in 1 .. 2 |-> found(k)]
    <2> DEFINE all == [k \in 1 .. 2 |-> found(k)]
    <2>1. V = IF \E k \in DOMAIN all : all[k] = TooMany THEN << >> ELSE all
      BY <1>5 DEF VariablesToString
    <2> HIDE DEF found
    <2>2. DOMAIN all = 1 .. 2 /\ \A k \in 1 .. 2 : all[k] = found(k)
      OBVIOUS
    <2> HIDE DEF all
    <2>3. QED
      BY <2>1, <2>2 DEF all
  <1> HIDE DEF V, found, Alive
  <1>8. ASSUME pc < PositionLimit
        PROVE  IF \E k \in 1 .. 2 : Cardinality(Alive(frames[k])) > MaxEntries THEN V = << >>
               ELSE \A k \in 1 .. 2 :
                      /\ Range(V[k]) = Alive(frames[k])
                      /\ \A i, j \in DOMAIN V[k] : i < j => V[k][i] < V[k][j]
    <2>1. CASE \E k \in 1 .. 2 : Cardinality(Alive(frames[k])) > MaxEntries
      <3>1. \E k \in 1 .. 2 : found(k) = TooMany
        BY <1>6, <1>8, <2>1
      <3>2. V = << >>
        BY <1>7, <3>1
      <3>3. QED
        BY <2>1, <3>2
    <2>2. CASE ~\E k \in 1 .. 2 : Cardinality(Alive(frames[k])) > MaxEntries
      <3>1. ~\E k \in 1 .. 2 : found(k) = TooMany
        BY <1>6, <1>8, <2>2
      <3>2. \A k \in 1 .. 2 : V[k] = found(k)
        BY <1>7, <3>1
      <3>3. ASSUME NEW k \in 1 .. 2
            PROVE  Range(V[k]) = Alive(frames[k]) /\ \A i, j \in DOMAIN V[k] : i < j => V[k][i] < V[k][j]
        <4>1. /\ Range(found(k)) = Alive(frames[k])
              /\ \A i, j \in DOMAIN found(k) : i < j => found(k)[i] < found(k)[j]
          BY <1>6, <1>8, <2>2
        <4>2. V[k] = found(k)
          BY <3>2
        <4>3. QED
          BY <4>1, <4>2
      <3>4. QED
        BY <2>2, <3>3
    <2>3. QED
      BY <2>1, <2>2
  <1>9. QED
    BY <1>2, <1>4, <1>5, <1>8 DEF VariablesAreRight, Called, Alive

\* A table of cases, and where each begins.
CasesBeginAt(table) ==
  Len(table) \in Nat /\ DOMAIN table = 1 .. Len(table) /\ \A i \in 1 .. Len(table) : table[i].at \in Nat

\* A table of cases has the places where they begin.
LEMMA CasesBegin ==
  ASSUME NEW V, NEW table \in Seq([value : V, at : Nat])
  PROVE  CasesBeginAt(table)
  <1> DEFINE E == [value : V, at : Nat]
  <1>1. table \in Seq(E)
    OBVIOUS
  <1> HIDE DEF E
  <1>2. Len(table) \in Nat /\ DOMAIN table = 1 .. Len(table)
    BY <1>1
  <1>3. \A i \in 1 .. Len(table) : table[i] \in E
    BY <1>1, <1>2
  <1>4. QED
    BY <1>2, <1>3 DEF E, CasesBeginAt

\* What the compiler encodes as distances is where it put the cases.
LEMMA CaseStarts ==
  ASSUME NEW table, CasesBeginAt(table), NEW entrySize \in Nat, NEW n \in 0 .. Len(table),
         NEW entries, entries = [i \in 1 .. n |-> Encoded(table, entrySize)[i]], Len(entries) = n,
         NEW k \in 1 .. n
  PROVE  CaseStart(entries, entrySize, k) = table[k].at
  <1> DEFINE step == [i \in 1 .. n |-> [v \in Int |-> v + entries[i].offset]]
             Good(g) == g = [i \in 0 .. n |-> IF i = 0 THEN entrySize ELSE g[i - 1] + entries[i].offset]
             start == CHOOSE g : Good(g)
             at(i) == IF i = 0 THEN entrySize ELSE table[i].at
  <1>1. n \in Nat /\ n <= Len(table) /\ DOMAIN table = 1 .. Len(table)
    BY DEF CasesBeginAt
  <1>2. \A i \in 1 .. n : i \in DOMAIN table /\ table[i].at \in Nat
    BY <1>1 DEF CasesBeginAt
  <1>3. \A i \in 0 .. n : at(i) \in Int
    BY <1>1, <1>2
  <1>4. \A i \in 1 .. n : entries[i].offset = at(i) - at(i - 1)
    <2> TAKE i \in 1 .. n
    <2>1. entries[i] = [value |-> table[i].value,
                        offset |-> table[i].at - IF i = 1 THEN entrySize ELSE table[i - 1].at]
      BY <1>2 DEF Encoded
    <2>2. (IF i = 1 THEN entrySize ELSE table[i - 1].at) = at(i - 1)
      <3>1. CASE i = 1
        <4>1. i - 1 = 0
          BY <3>1
        <4>2. QED
          BY <3>1, <4>1
      <3>2. CASE i # 1
        <4>1. i - 1 # 0
          BY <3>2
        <4>2. QED
          BY <3>2, <4>1
      <3>3. QED
        BY <3>1, <3>2
    <2>3. at(i) = table[i].at
      BY <1>1
    <2> HIDE DEF at
    <2>4. QED
      BY <2>1, <2>2, <2>3
  <1> HIDE DEF at
  <1>5. \A i \in 1 .. n : i - 1 \in 0 .. n /\ i \in 0 .. n
    BY <1>1
  <1>6. \A i \in 1 .. n : entries[i].offset \in Int
    BY <1>3, <1>4, <1>5
  <1>7. step \in [1 .. n -> [Int -> Int]] /\ entrySize \in Int
    BY <1>6
  <1>8. PICK f : IsIteration(f, n, Int, entrySize, step)
    <2> HIDE DEF step
    <2>1. QED
      BY <1>1, <1>7, Iterates
  <1>9. Good(f)
    <2>1. f \in [0 .. n -> Int] /\ f[0] = entrySize /\ \A i \in 1 .. n : f[i] = step[i][f[i - 1]] /\ f[i - 1] \in Int
      <3> HIDE DEF step
      <3>1. QED
        BY <1>5, <1>8 DEF IsIteration
    <2>2. \A i \in 1 .. n, v \in Int : step[i][v] = v + entries[i].offset
      OBVIOUS
    <2> HIDE DEF step
    <2>3. \A i \in 1 .. n : f[i] = f[i - 1] + entries[i].offset
      BY <2>1, <2>2
    <2>4. \A i \in 0 .. n : i = 0 \/ i \in 1 .. n
      BY <1>1
    <2>5. QED
      BY <2>1, <2>3, <2>4
  <1>10. CaseStart(entries, entrySize, k) = start[k]
    BY DEF CaseStart
  <1>11. Good(start)
    <2> HIDE DEF Good
    <2>1. QED
      BY <1>9
  <1> HIDE DEF start
  <1>12. \A i \in 0 .. n : start[i] = IF i = 0 THEN entrySize ELSE start[i - 1] + entries[i].offset
    BY <1>11
  <1> DEFINE T == {i \in 0 .. n : start[i] = at(i)}
  <1>13. 0 \in T
    <2>1. start[0] = entrySize
      <3>1. 0 \in 0 .. n
        BY <1>1
      <3>2. \A i \in 0 .. n : i = 0 => start[i] = entrySize
        BY <1>12
      <3>3. QED
        BY <3>1, <3>2
    <2>2. at(0) = entrySize
      BY DEF at
    <2>3. QED
      BY <1>1, <2>1, <2>2
  <1>14. ASSUME NEW i \in 0 .. n - 1, i \in T PROVE i + 1 \in T
    <2>1. i + 1 \in 1 .. n /\ i + 1 \in 0 .. n /\ (i + 1) - 1 = i /\ i \in 0 .. n
      BY <1>1
    <2>2. start[i + 1] = at(i) + entries[i + 1].offset
      <3>1. start[i] = at(i)
        BY <1>14
      <3>2. i + 1 # 0
        BY <2>1
      <3>3. start[i + 1] = start[(i + 1) - 1] + entries[i + 1].offset
        BY <1>12, <2>1, <3>2
      <3>4. QED
        BY <2>1, <3>1, <3>3
    <2>3. entries[i + 1].offset = at(i + 1) - at(i)
      BY <1>4, <2>1
    <2>4. QED
      BY <1>3, <2>1, <2>2, <2>3
  <1>15. k \in T
    <2> HIDE DEF T
    <2>1. \A i \in 0 .. n : i \in T
      BY <1>1, <1>13, <1>14, SetInduction
    <2>2. QED
      BY <1>1, <2>1
  <1>16. QED
    BY <1>1, <1>10, <1>15 DEF at

-----------------------------------------------------------------------------
(* Cases.                                                                   *)

\* The jump by the tag of an enum.
LEMMA EnumCaseSteps ==
  ASSUME CallEnumCase PROVE CasesAreRight'
  <1>1. PICK table \in EnumTables, tag \in Tags :
          last' = [name |-> "enumCase", args |-> [cases |-> table, value |-> tag],
                   outcome |-> EnumCase(errorTraps, tag, Encoded(table, EnumEntrySize))]
        /\ errorTraps' = errorTraps
    BY DEF CallEnumCase, Calls, Ends
  <1> DEFINE E == [value : Nat, at : Nat]
             entries == Encoded(table, EnumEntrySize)
             n == Len(table)
             fitting == {k \in DOMAIN table : table[k].value = tag \/ table[k].value = EnumLimit - 1}
             outcome == EnumCase(errorTraps, tag, entries)
  <1>2. table \in Seq(E) /\ DOMAIN table = 1 .. n /\ n \in Nat
    BY TablesAssumption
  <1>3. DOMAIN entries = 1 .. n /\ \A k \in 1 .. n : entries[k].value = table[k].value
    BY <1>2 DEF Encoded
  <1>4. {k \in DOMAIN entries : entries[k].value \in {tag, AnyEnum}} = fitting
    BY <1>2, <1>3 DEF AnyEnum
  <1>5. last'.name = "enumCase" /\ Args'.cases = table /\ Args'.value = tag /\ last'.outcome = outcome
    BY <1>1 DEF Args
  <1>6. outcome = IF fitting = {} THEN AfterError(errorTraps, Stopped("fault"))
                  ELSE Returned(CaseStart(entries, EnumEntrySize, FirstOf(fitting)))
    BY <1>4 DEF EnumCase
  <1>7. ASSUME fitting # {} PROVE Min(fitting) \in fitting /\ outcome = Returned(table[Min(fitting)].at)
    <2>1. fitting \in SUBSET Nat
      BY <1>2
    <2> DEFINE m == Min(fitting)
    <2>2. m \in fitting
      <3> HIDE DEF fitting
      <3>1. QED
        BY <1>7, <2>1, HasMin
    <2>3. FirstOf(fitting) = m
      BY DEF FirstOf, Min
    <2>4. m \in 1 .. n
      BY <1>2, <2>2
    <2>5. CaseStart(entries, EnumEntrySize, m) = table[m].at
      <3>1. entries = [i \in 1 .. n |-> entries[i]] /\ Len(entries) = n
        BY <1>2 DEF Encoded
      <3>2. EnumEntrySize \in Nat /\ n \in 0 .. Len(table)
        BY <1>2 DEF EnumEntrySize
      <3> HIDE DEF m, n, E, fitting, outcome
      <3>3. entries = [i \in 1 .. n |-> Encoded(table, EnumEntrySize)[i]]
        BY <3>1
      <3> HIDE DEF entries
      <3>4. CasesBeginAt(table)
        BY <1>2, CasesBegin DEF E
      <3>5. QED
        BY <2>4, <3>1, <3>2, <3>3, <3>4, CaseStarts
    <2> HIDE DEF m, fitting, outcome
    <2>6. QED
      BY <1>6, <1>7, <2>2, <2>3, <2>5 DEF m
  <1> HIDE DEF outcome
  <1>8. fitting = {} => outcome.how = IF errorTraps THEN "trap" ELSE "fault"
    BY <1>6 DEF AfterError, Stopped
  <1>9. fitting # {} => outcome.how = "returned" /\ outcome.value = table[Min(fitting)].at
    BY <1>7 DEF Returned
  <1>10. {k \in DOMAIN table : table[k].value = tag \/ ("enumCase" = "enumCase" /\ table[k].value = EnumLimit - 1)} = fitting
    OBVIOUS
  <1> HIDE DEF fitting
  <1>11. QED
    BY <1>1, <1>5, <1>8, <1>9, <1>10 DEF CasesAreRight, Called, How, Value, fitting

\* The jump by an integer.
LEMMA IntCaseSteps ==
  ASSUME CallIntCase PROVE CasesAreRight'
  <1> DEFINE Does(table, value) ==
               last' = [name |-> "intCase", args |-> [cases |-> table, value |-> value],
                        outcome |-> PatternMatchingInt(value, SubSeq(Encoded(table, IntEntrySize), 1,
                             Len(table) - 1),
                                                       Encoded(table, IntEntrySize)[Len(table)].offset)]
  <1>0. \E table \in IntTables, value \in Ints : Does(table, value)
    BY DEF CallIntCase, Calls, Ends
  <1>1. PICK table \in IntTables, value \in Ints : Does(table, value)
    BY <1>0
  <1> DEFINE E == [value : Integers32, at : Nat]
             offsets == Encoded(table, IntEntrySize)
             end == Len(table)
             n == end - 1
             entries == SubSeq(offsets, 1, n)
             fitting == {k \in 1 .. n : table[k].value = value}
             outcome == PatternMatchingInt(value, entries, offsets[end].offset)
  <1>2. table \in Seq(E) /\ table # << >>
    BY TablesAssumption
  <1>3. DOMAIN table = 1 .. end /\ end \in Nat \ {0} /\ n \in Nat /\ n \in 0 .. end
    <2> HIDE DEF E
    <2>1. QED
      BY <1>2
  <1>4. last'.name = "intCase" /\ Args'.cases = table /\ Args'.value = value /\ last'.outcome = outcome
    BY <1>1 DEF Args
  <1>5. \A i \in 1 .. end : table[i] \in E /\ table[i].at \in Nat
    <2>1. \A i \in 1 .. end : table[i] \in E
      <3> HIDE DEF E
      <3>1. QED
        BY <1>2, <1>3
    <2>2. QED
      BY <2>1
  <1> HIDE DEF E
  <1>6. \A i \in 1 .. end : offsets[i].value = table[i].value
                            /\ offsets[i].offset = table[i].at - IF i = 1 THEN IntEntrySize ELSE table[i - 1].at
    BY <1>3 DEF Encoded
  <1>7. entries = [i \in 1 .. n |-> offsets[i]] /\ Len(entries) = n /\ (entries = << >> <=> n = 0)
    <2> DEFINE S == {offsets[i] : i \in 1 .. end}
    <2>1. \A i \in 1 .. n : offsets[i] \in S
      BY <1>3
    <2> HIDE DEF S, offsets
    <2>2. entries \in Seq(S) /\ Len(entries) = (IF 1 <= n THEN n - 1 + 1 ELSE 0)
          /\ \A i \in 1 .. n - 1 + 1 : entries[i] = offsets[1 + i - 1]
      BY <1>3, <2>1, SubSeqProperties
    <2> HIDE DEF entries, end
    <2>3. Len(entries) = n /\ \A i \in 1 .. n : entries[i] = offsets[i]
      BY <1>3, <2>2
    <2>4. DOMAIN entries = 1 .. n /\ entries = [i \in DOMAIN entries |-> entries[i]]
      BY <2>2, <2>3
    <2>5. entries = << >> <=> Len(entries) = 0
      BY <2>2, EmptySeq
    <2>6. QED
      BY <2>3, <2>4, <2>5
  <1> HIDE DEF entries
  <1>8. {k \in DOMAIN entries : entries[k].value = value} = fitting
    <2>1. DOMAIN entries = 1 .. n /\ \A k \in 1 .. n : entries[k].value = table[k].value
      BY <1>3, <1>6, <1>7
    <2>2. QED
      BY <2>1
  <1>9. \A k \in 1 .. n : CaseStart(entries, IntEntrySize, k) = table[k].at
    <2>1. IntEntrySize \in Nat
      BY DEF IntEntrySize
    <2>2. entries = [i \in 1 .. n |-> Encoded(table, IntEntrySize)[i]]
      BY <1>7
    <2>3. CasesBeginAt(table) /\ n \in 0 .. Len(table)
      BY <1>2, <1>3, CasesBegin DEF E
    <2> HIDE DEF n, end, offsets
    <2>4. QED
      BY <1>7, <2>1, <2>2, <2>3, CaseStarts
  <1>10. ASSUME fitting # {} PROVE outcome = Returned(table[Min(fitting)].at)
    <2>1. fitting \in SUBSET Nat
      BY <1>3
    <2> DEFINE m == Min(fitting)
    <2>2. m \in fitting
      <3> HIDE DEF fitting
      <3>1. QED
        BY <1>10, <2>1, HasMin
    <2>3. FirstOf(fitting) = m
      BY DEF FirstOf, Min
    <2>4. m \in 1 .. n
      BY <2>2
    <2>5. CaseStart(entries, IntEntrySize, m) = table[m].at
      BY <1>9, <2>4
    <2> HIDE DEF fitting, m, offsets, n
    <2>6. outcome = Returned(CaseStart(entries, IntEntrySize, FirstOf(fitting)))
      BY <1>8, <1>10 DEF PatternMatchingInt
    <2>7. QED
      BY <2>3, <2>5, <2>6 DEF m
  <1>11. ASSUME fitting = {}, end # 1 PROVE outcome = Returned(table[end].at)
    <2>1. n \in 1 .. n /\ n \in 1 .. end
      BY <1>3, <1>11
    <2>2. entries # << >>
      <3>1. n # 0
        BY <1>3, <1>11
      <3> HIDE DEF n, offsets, end
      <3>2. QED
        BY <1>7, <3>1, Zenon
    <2>3. CaseStart(entries, IntEntrySize, Len(entries)) = table[n].at
      BY <1>7, <1>9, <2>1
    <2>4. offsets[end].offset = table[end].at - table[n].at
      BY <1>3, <1>6, <1>11
    <2>5. table[n].at \in Nat /\ table[end].at \in Nat
      BY <1>3, <1>5, <2>1
    <2> HIDE DEF fitting, offsets, n
    <2>6. outcome = Returned(CaseStart(entries, IntEntrySize, Len(entries)) + offsets[end].offset)
      BY <1>8, <1>11, <2>2 DEF PatternMatchingInt
    <2>7. table[n].at + (table[end].at - table[n].at) = table[end].at
      BY <2>5
    <2>8. QED
      BY <2>3, <2>4, <2>6, <2>7
  <1>12. ASSUME end = 1 PROVE outcome = Stopped("fault") /\ fitting = {}
    <2>1. n = 0 /\ fitting = {}
      BY <1>12
    <2>2. entries = << >>
      BY <1>7, <2>1
    <2> HIDE DEF fitting, offsets, n, end
    <2>3. QED
      BY <1>8, <2>1, <2>2 DEF PatternMatchingInt
  <1> HIDE DEF outcome
  <1>13. /\ end = 1 => outcome.how = "fault"
         /\ end # 1 => outcome.how = "returned"
         /\ end # 1 => outcome.value = table[IF fitting = {} THEN end ELSE Min(fitting)].at
    <2> HIDE DEF fitting, end
    <2>1. QED
      BY <1>10, <1>11, <1>12 DEF Returned, Stopped
  <1>14. {k \in {k \in DOMAIN table : table[k].value = value \/ ("intCase" = "enumCase" /\ table[k].value = EnumLimit - 1)} :
            k < Len(table)} = fitting
    BY <1>3
  <1> HIDE DEF fitting
  <1>15. QED
    BY <1>4, <1>13, <1>14 DEF CasesAreRight, Called, How, Value

\* Debug.log.
LEMMA LogSteps ==
  ASSUME CallLog PROVE LogsAreRight'
  <1>1. PICK predicting, isTuple \in BOOLEAN, dumped \in {-1, 0, 1} :
          last' = [name |-> "Debug.log",
                   args |-> [predicting |-> predicting, isTuple |-> isTuple, dumped |-> dumped],
                   outcome |-> DebugLog(errorTraps, predicting, isTuple, dumped)]
    BY DEF CallLog, Calls, Ends
  <1>2. Args'.predicting = predicting /\ How' = DebugLog(errorTraps, predicting, isTuple, dumped).how
    BY <1>1 DEF Args, How
  <1>3. predicting => DebugLog(errorTraps, predicting, isTuple, dumped).how = "returned"
    BY DEF DebugLog, Returned
  <1>4. QED
    BY <1>2, <1>3 DEF LogsAreRight

-----------------------------------------------------------------------------
(* The properties.                                                          *)

\* Before the first call, none has been made.
LEMMA NoneAtFirst ==
  ASSUME Init, NEW names PROVE ~Called(names)
  <1>1. calls = 0
    BY DEF Init
  <1>2. QED
    BY <1>1 DEF Called

\* Each part is about a few calls; after any other it holds.
LEMMA DivisionElsewhere ==
  ASSUME last'.name \notin {"Math.mod", "Math.remainderBy"} PROVE DivisionIsRight'
  BY DEF DivisionIsRight, Called, Returns

LEMMA DivisionStays ==
  ASSUME UNCHANGED vars, DivisionIsRight PROVE DivisionIsRight'
  BY DEF vars, DivisionIsRight, Called, Returns, Args, How, Value

LEMMA ArithmeticElsewhere ==
  ASSUME last'.name \notin {"Math.abs", "Math.sign", "Math.mid", "Math.clamp", "Math.lerp", "Math.metronome",
         "Int.round", "Int.toFixed"}
  PROVE  ArithmeticIsRight'
  BY DEF ArithmeticIsRight, Called, Returns

LEMMA ArithmeticStays ==
  ASSUME UNCHANGED vars, ArithmeticIsRight PROVE ArithmeticIsRight'
  BY DEF vars, ArithmeticIsRight, Called, Returns, Args, How, Value

LEMMA AnglesElsewhere ==
  ASSUME last'.name \notin {"Math.sin", "Math.atan", "Math.atan2"} PROVE AnglesAreRight'
  BY DEF AnglesAreRight, Called, Returns

LEMMA AnglesStays ==
  ASSUME UNCHANGED vars, AnglesAreRight PROVE AnglesAreRight'
  BY DEF vars, AnglesAreRight, Called, Returns, Args, How, Value

LEMMA OpcodesElsewhere ==
  ASSUME last'.name \notin IntOpcodes \cup {"negate"} PROVE IntOpcodesAreRight'
  BY DEF IntOpcodesAreRight, Called, Returns, IntOpcodes, Products, Comparisons

LEMMA OpcodesStays ==
  ASSUME UNCHANGED vars, IntOpcodesAreRight PROVE IntOpcodesAreRight'
  BY DEF vars, IntOpcodesAreRight, Called, Returns, Args, How, Value

LEMMA BitsElsewhere ==
  ASSUME last'.name \notin {"and", "or", "xor", "not", "shiftLeft", "shiftRight"} PROVE BitsAreRight'
  BY DEF BitsAreRight, Called, Returns

LEMMA BitsStays ==
  ASSUME UNCHANGED vars, BitsAreRight PROVE BitsAreRight'
  BY DEF vars, BitsAreRight, Called, Returns, Args, How, Value

LEMMA ListsElsewhere ==
  ASSUME last'.name \notin {"List.head", "List.isEmpty", "List.length", "Array.length",
         "Array.fromList", "Array.toList", "List.range0"}
  PROVE  ListsAreRight'
  BY DEF ListsAreRight, Called, Returns

LEMMA ListsStays ==
  ASSUME UNCHANGED vars, ListsAreRight PROVE ListsAreRight'
  BY DEF vars, ListsAreRight, Called, Returns, Args, How, Value

LEMMA MembersElsewhere ==
  ASSUME last'.name \notin {"List.member"} PROVE MembersAreRight'
  BY DEF MembersAreRight, Called, Returns

LEMMA MembersStays ==
  ASSUME UNCHANGED vars, MembersAreRight PROVE MembersAreRight'
  BY DEF vars, MembersAreRight, Called, Returns, Args, How, Value

LEMMA IndicesElsewhere ==
  ASSUME last'.name \notin {"Array.get", "Array.grab", "Array.set", "Array.slice"}
  PROVE  IndicesAreRight'
  BY DEF IndicesAreRight, Called, Returns

LEMMA IndicesStays ==
  ASSUME UNCHANGED vars, IndicesAreRight PROVE IndicesAreRight'
  BY DEF vars, IndicesAreRight, Called, Returns, Args, How, Value

LEMMA MaybesElsewhere ==
  ASSUME last'.name \notin {"Maybe.withDefault", "Maybe.maybe"} PROVE MaybesAreRight'
  BY DEF MaybesAreRight, Called, Returns

LEMMA MaybesStays ==
  ASSUME UNCHANGED vars, MaybesAreRight PROVE MaybesAreRight'
  BY DEF vars, MaybesAreRight, Called, Returns, Args, How, Value

LEMMA MadeElsewhere ==
  ASSUME last'.name \notin {"listCreate", "arrayCreate", "listConj", "listAppend", "stringAppend",
         "stringEqual"}
  PROVE  MadeOfOthers'
  BY DEF MadeOfOthers, Called, Returns

LEMMA MadeStays ==
  ASSUME UNCHANGED vars, MadeOfOthers PROVE MadeOfOthers'
  BY DEF vars, MadeOfOthers, Called, Returns, Args, How, Value

LEMMA FramesElsewhere ==
  ASSUME last'.name \notin {"setEnum", "memCopy"} PROVE FramesAreKept'
  BY DEF FramesAreKept, Called, Returns

LEMMA FramesStays ==
  ASSUME UNCHANGED vars, FramesAreKept PROVE FramesAreKept'
  BY DEF vars, FramesAreKept, Called, Returns, Args, How, Value

LEMMA ArgumentsElsewhere ==
  ASSUME last'.name \notin {"frame"} PROVE ArgumentsArrive'
  BY DEF ArgumentsArrive, Called, Returns

LEMMA ArgumentsStays ==
  ASSUME UNCHANGED vars, ArgumentsArrive PROVE ArgumentsArrive'
  BY DEF vars, ArgumentsArrive, Called, Returns, Args, How, Value

LEMMA PlacesElsewhere ==
  ASSUME last'.name \notin {"singleLine", "backtrace"} PROVE PlacesAreRight'
  BY DEF PlacesAreRight, Called, Returns

LEMMA PlacesStays ==
  ASSUME UNCHANGED vars, PlacesAreRight PROVE PlacesAreRight'
  BY DEF vars, PlacesAreRight, Called, Returns, Args, How, Value

LEMMA VariablesElsewhere ==
  ASSUME last'.name \notin {"variables"} PROVE VariablesAreRight'
  BY DEF VariablesAreRight, Called, Returns

LEMMA VariablesStays ==
  ASSUME UNCHANGED vars, VariablesAreRight PROVE VariablesAreRight'
  BY DEF vars, VariablesAreRight, Called, Returns, Args, How, Value

LEMMA CasesElsewhere ==
  ASSUME last'.name \notin {"enumCase", "intCase"} PROVE CasesAreRight'
  BY DEF CasesAreRight, Called, Returns

LEMMA CasesStays ==
  ASSUME UNCHANGED vars, CasesAreRight PROVE CasesAreRight'
  BY DEF vars, CasesAreRight, Called, Returns, Args, How, Value

LEMMA LogsElsewhere ==
  ASSUME last'.name \notin {"Debug.log"} PROVE LogsAreRight'
  BY DEF LogsAreRight, Called, Returns

LEMMA LogsStays ==
  ASSUME UNCHANGED vars, LogsAreRight PROVE LogsAreRight'
  BY DEF vars, LogsAreRight, Called, Returns, Args, How, Value

\* What is called by the steps of CallScalar.
ScalarNames ==
  {"Math.remainderBy", "Math.mod", "Math.abs", "Math.sign", "Math.mid", "Math.clamp", "Math.lerp",
       "Math.metronome", "Math.drunk", "Math.rnd", "Math.sin", "Math.cos", "Math.atan", "Math.atan2",
       "Int.round", "Int.toFixed", "Char.fromCode", "Char.toCode", "Char.ord"}

LEMMA ScalarCalled ==
  ASSUME CallScalar PROVE last'.name \in ScalarNames
  <1>1. ASSUME CallRemainderBy PROVE last'.name \in {"Math.remainderBy"}
    BY <1>1 DEF CallRemainderBy, Calls, Ends
  <1>2. ASSUME CallMod PROVE last'.name \in {"Math.mod"}
    BY <1>2 DEF CallMod, Calls, Ends
  <1>3. ASSUME CallAbs PROVE last'.name \in {"Math.abs"}
    BY <1>3 DEF CallAbs, Calls, Ends
  <1>4. ASSUME CallSign PROVE last'.name \in {"Math.sign"}
    BY <1>4 DEF CallSign, Calls, Ends
  <1>5. ASSUME CallMid PROVE last'.name \in {"Math.mid"}
    BY <1>5 DEF CallMid, Calls, Ends
  <1>6. ASSUME CallClamp PROVE last'.name \in {"Math.clamp"}
    BY <1>6 DEF CallClamp, Calls, Ends
  <1>7. ASSUME CallLerp PROVE last'.name \in {"Math.lerp"}
    BY <1>7 DEF CallLerp, Calls, Ends
  <1>8. ASSUME CallMetronome PROVE last'.name \in {"Math.metronome"}
    BY <1>8 DEF CallMetronome, Calls, Ends
  <1>9. ASSUME CallDrunk PROVE last'.name \in {"Math.drunk"}
    BY <1>9 DEF CallDrunk, Calls, Ends
  <1>10. ASSUME CallRnd PROVE last'.name \in {"Math.rnd"}
    BY <1>10 DEF CallRnd, Calls, Ends
  <1>11. ASSUME CallSin PROVE last'.name \in {"Math.sin"}
    BY <1>11 DEF CallSin, Calls, Ends
  <1>12. ASSUME CallCos PROVE last'.name \in {"Math.cos"}
    BY <1>12 DEF CallCos, Calls, Ends
  <1>13. ASSUME CallATan PROVE last'.name \in {"Math.atan", "Math.atan2"}
    BY <1>13 DEF CallATan, Calls, Ends
  <1>14. ASSUME CallRound PROVE last'.name \in {"Int.round"}
    BY <1>14 DEF CallRound, Calls, Ends
  <1>15. ASSUME CallToFixed PROVE last'.name \in {"Int.toFixed"}
    BY <1>15 DEF CallToFixed, Calls, Ends
  <1>16. ASSUME CallCharCode PROVE last'.name \in {"Char.fromCode", "Char.toCode", "Char.ord"}
    BY <1>16 DEF CallCharCode, Calls, Ends
  <1>17. QED
    BY <1>1, <1>2, <1>3, <1>4, <1>5, <1>6, <1>7, <1>8, <1>9, <1>10, <1>11, <1>12, <1>13, <1>14, <1>15,
       <1>16 DEF CallScalar, ScalarNames

\* What is called by the steps of CallCollection.
CollectionNames ==
  {"List.head", "List.tail", "List.isEmpty", "List.length", "Array.length", "List.member", "List.range",
       "List.range0", "List.filterMap", "Array.fromList", "Array.toList", "Array.get", "Array.repeat",
       "Array.grab", "Array.set", "Array.slice", "Maybe.withDefault", "Maybe.maybe"}

LEMMA CollectionCalled ==
  ASSUME CallCollection PROVE last'.name \in CollectionNames
  <1>1. ASSUME CallHead PROVE last'.name \in {"List.head"}
    BY <1>1 DEF CallHead, Calls, Ends
  <1>2. ASSUME CallTail PROVE last'.name \in {"List.tail"}
    BY <1>2 DEF CallTail, Calls, Ends
  <1>3. ASSUME CallIsEmpty PROVE last'.name \in {"List.isEmpty"}
    BY <1>3 DEF CallIsEmpty, Calls, Ends
  <1>4. ASSUME CallLength PROVE last'.name \in {"List.length", "Array.length"}
    BY <1>4 DEF CallLength, Calls, Ends
  <1>5. ASSUME CallMember PROVE last'.name \in {"List.member"}
    BY <1>5 DEF CallMember, Calls, Ends
  <1>6. ASSUME CallRange PROVE last'.name \in {"List.range"}
    BY <1>6 DEF CallRange, Calls, Ends
  <1>7. ASSUME CallRange0 PROVE last'.name \in {"List.range0"}
    BY <1>7 DEF CallRange0, Calls, Ends
  <1>8. ASSUME CallFilterMap PROVE last'.name \in {"List.filterMap"}
    BY <1>8 DEF CallFilterMap, Calls, Ends
  <1>9. ASSUME CallSame PROVE last'.name \in {"Array.fromList", "Array.toList"}
    BY <1>9 DEF CallSame, Calls, Ends
  <1>10. ASSUME CallGet PROVE last'.name \in {"Array.get", "Array.repeat"}
    BY <1>10 DEF CallGet, Calls, Ends
  <1>11. ASSUME CallGrab PROVE last'.name \in {"Array.grab"}
    BY <1>11 DEF CallGrab, Calls, Ends
  <1>12. ASSUME CallSet PROVE last'.name \in {"Array.set", "Array.slice"}
    BY <1>12 DEF CallSet, Calls, Ends
  <1>13. ASSUME CallWithDefault PROVE last'.name \in {"Maybe.withDefault"}
    BY <1>13 DEF CallWithDefault, Calls, Ends
  <1>14. ASSUME CallMaybe PROVE last'.name \in {"Maybe.maybe"}
    BY <1>14 DEF CallMaybe, Calls, Ends
  <1>15. QED
    BY <1>1, <1>2, <1>3, <1>4, <1>5, <1>6, <1>7, <1>8, <1>9, <1>10, <1>11, <1>12, <1>13, <1>14
       DEF CallCollection, CollectionNames

\* What is called by the steps of CallOpcode.
OpcodeNames ==
  IntOpcodes \cup {"not", "negate", "listCreate", "arrayCreate", "listConj", "listAppend", "stringAppend",
       "stringEqual", "setEnum", "memCopy", "enumCase", "intCase"}

LEMMA OpcodeCalled ==
  ASSUME CallOpcode PROVE last'.name \in OpcodeNames
  <1>1. ASSUME CallInt PROVE last'.name \in IntOpcodes
    BY <1>1 DEF CallInt, Calls, Ends
  <1>2. ASSUME CallNot PROVE last'.name \in {"not"}
    BY <1>2 DEF CallNot, Calls, Ends
  <1>3. ASSUME CallNegate PROVE last'.name \in {"negate"}
    BY <1>3 DEF CallNegate, Calls, Ends
  <1>4. ASSUME CallListCreate PROVE last'.name \in {"listCreate", "arrayCreate"}
    BY <1>4 DEF CallListCreate, Calls, Ends
  <1>5. ASSUME CallListConj PROVE last'.name \in {"listConj"}
    BY <1>5 DEF CallListConj, Calls, Ends
  <1>6. ASSUME CallListAppend PROVE last'.name \in {"listAppend"}
    BY <1>6 DEF CallListAppend, Calls, Ends
  <1>7. ASSUME CallStringAppend PROVE last'.name \in {"stringAppend"}
    BY <1>7 DEF CallStringAppend, Calls, Ends
  <1>8. ASSUME CallStringEqual PROVE last'.name \in {"stringEqual"}
    BY <1>8 DEF CallStringEqual, Calls, Ends
  <1>9. ASSUME CallSetEnum PROVE last'.name \in {"setEnum"}
    BY <1>9 DEF CallSetEnum, Calls, Ends
  <1>10. ASSUME CallMemCopy PROVE last'.name \in {"memCopy"}
    BY <1>10 DEF CallMemCopy, Calls, Ends
  <1>11. ASSUME CallEnumCase PROVE last'.name \in {"enumCase"}
    BY <1>11 DEF CallEnumCase, Calls, Ends
  <1>12. ASSUME CallIntCase PROVE last'.name \in {"intCase"}
    BY <1>12 DEF CallIntCase, Calls, Ends
  <1>13. QED
    BY <1>1, <1>2, <1>3, <1>4, <1>5, <1>6, <1>7, <1>8, <1>9, <1>10, <1>11, <1>12 DEF CallOpcode, OpcodeNames

\* What is called by the steps of CallLookup.
LookupNames ==
  {"singleLine", "backtrace", "variables", "Debug.log", "Debug.panic"}

LEMMA LookupCalled ==
  ASSUME CallLookup PROVE last'.name \in LookupNames
  <1>1. ASSUME CallSingleLine PROVE last'.name \in {"singleLine"}
    BY <1>1 DEF CallSingleLine, Calls, Ends
  <1>2. ASSUME CallBacktrace PROVE last'.name \in {"backtrace"}
    BY <1>2 DEF CallBacktrace, Calls, Ends
  <1>3. ASSUME CallVariables PROVE last'.name \in {"variables"}
    BY <1>3 DEF CallVariables, Calls, Ends
  <1>4. ASSUME CallLog PROVE last'.name \in {"Debug.log"}
    BY <1>4 DEF CallLog, Calls, Ends
  <1>5. ASSUME CallPanic PROVE last'.name \in {"Debug.panic"}
    BY <1>5 DEF CallPanic, Calls, Ends
  <1>6. QED
    BY <1>1, <1>2, <1>3, <1>4, <1>5 DEF CallLookup, LookupNames

\* What is called by the steps of CallBlob.
BlobNames ==
  {"Blob.make", "Blob.fromArray", "Blob.fromList", "Blob.slice2d", "Blob.get2d", "Blob.member",
       "Blob.toString2d", "Blob.fill2d!", "Blob.drawWindow2d!", "Blob.copy2d!"}

LEMMA BlobCalled ==
  ASSUME CallBlob PROVE last'.name \in BlobNames
  <1>1. ASSUME CallMake PROVE last'.name \in {"Blob.make"}
    BY <1>1 DEF CallMake, Makes, Reads, Paints, Ends
  <1>2. ASSUME CallBlobFrom PROVE last'.name \in {"Blob.fromArray", "Blob.fromList"}
    BY <1>2 DEF CallBlobFrom, Makes, Reads, Paints, Ends
  <1>3. ASSUME CallSlice2d PROVE last'.name \in {"Blob.slice2d"}
    BY <1>3 DEF CallSlice2d, Makes, Reads, Paints, Ends
  <1>4. ASSUME CallGet2d PROVE last'.name \in {"Blob.get2d"}
    BY <1>4 DEF CallGet2d, Makes, Reads, Paints, Ends
  <1>5. ASSUME CallBlobMember PROVE last'.name \in {"Blob.member"}
    BY <1>5 DEF CallBlobMember, Makes, Reads, Paints, Ends
  <1>6. ASSUME CallToString2d PROVE last'.name \in {"Blob.toString2d"}
    BY <1>6 DEF CallToString2d, Makes, Reads, Paints, Ends
  <1>7. ASSUME CallFill2d PROVE last'.name \in {"Blob.fill2d!"}
    BY <1>7 DEF CallFill2d, Makes, Reads, Paints, Ends
  <1>8. ASSUME CallDrawWindow2d PROVE last'.name \in {"Blob.drawWindow2d!"}
    BY <1>8 DEF CallDrawWindow2d, Makes, Reads, Paints, Ends
  <1>9. ASSUME CallCopy2d PROVE last'.name \in {"Blob.copy2d!"}
    BY <1>9 DEF CallCopy2d, Makes, Reads, Paints, Ends
  <1>10. QED
    BY <1>1, <1>2, <1>3, <1>4, <1>5, <1>6, <1>7, <1>8, <1>9 DEF CallBlob, BlobNames

\* What is called by the steps of CallLaysOut.
LaysOutNames ==
  {"frame"}

LEMMA LaysOutCalled ==
  ASSUME CallLaysOut PROVE last'.name \in LaysOutNames
  BY DEF CallLaysOut, Calls, Ends, LaysOutNames

\* The actions that ScalarsMatch is about.
LEMMA ScalarsScalar ==
  ASSUME CallScalar PROVE ScalarsMatch'
  <1>1. CASE CallRemainderBy
    <2>1. last'.name \in {"Math.remainderBy"}
      BY <1>1 DEF CallRemainderBy, Calls, Ends
    <2>2. QED
      BY <1>1, <2>1, RemainderBySteps, ArithmeticElsewhere, AnglesElsewhere, OpcodesElsewhere, BitsElsewhere
         DEF ScalarsMatch, IntOpcodes, Products, Comparisons
  <1>2. CASE CallMod
    <2>1. last'.name \in {"Math.mod"}
      BY <1>2 DEF CallMod, Calls, Ends
    <2>2. QED
      BY <1>2, <2>1, ModSteps, ArithmeticElsewhere, AnglesElsewhere, OpcodesElsewhere, BitsElsewhere
         DEF ScalarsMatch, IntOpcodes, Products, Comparisons
  <1>3. CASE CallAbs
    <2>1. last'.name \in {"Math.abs"}
      BY <1>3 DEF CallAbs, Calls, Ends
    <2>2. QED
      BY <1>3, <2>1, AbsSteps, DivisionElsewhere, AnglesElsewhere, OpcodesElsewhere, BitsElsewhere
         DEF ScalarsMatch, IntOpcodes, Products, Comparisons
  <1>4. CASE CallSign
    <2>1. last'.name \in {"Math.sign"}
      BY <1>4 DEF CallSign, Calls, Ends
    <2>2. QED
      BY <1>4, <2>1, SignSteps, DivisionElsewhere, AnglesElsewhere, OpcodesElsewhere, BitsElsewhere
         DEF ScalarsMatch, IntOpcodes, Products, Comparisons
  <1>5. CASE CallMid
    <2>1. last'.name \in {"Math.mid"}
      BY <1>5 DEF CallMid, Calls, Ends
    <2>2. QED
      BY <1>5, <2>1, MidSteps, DivisionElsewhere, AnglesElsewhere, OpcodesElsewhere, BitsElsewhere
         DEF ScalarsMatch, IntOpcodes, Products, Comparisons
  <1>6. CASE CallClamp
    <2>1. last'.name \in {"Math.clamp"}
      BY <1>6 DEF CallClamp, Calls, Ends
    <2>2. QED
      BY <1>6, <2>1, ClampSteps, DivisionElsewhere, AnglesElsewhere, OpcodesElsewhere, BitsElsewhere
         DEF ScalarsMatch, IntOpcodes, Products, Comparisons
  <1>7. CASE CallLerp
    <2>1. last'.name \in {"Math.lerp"}
      BY <1>7 DEF CallLerp, Calls, Ends
    <2>2. QED
      BY <1>7, <2>1, LerpSteps, DivisionElsewhere, AnglesElsewhere, OpcodesElsewhere, BitsElsewhere
         DEF ScalarsMatch, IntOpcodes, Products, Comparisons
  <1>8. CASE CallMetronome
    <2>1. last'.name \in {"Math.metronome"}
      BY <1>8 DEF CallMetronome, Calls, Ends
    <2>2. QED
      BY <1>8, <2>1, MetronomeSteps, DivisionElsewhere, AnglesElsewhere, OpcodesElsewhere, BitsElsewhere
         DEF ScalarsMatch, IntOpcodes, Products, Comparisons
  <1>9. CASE CallSin
    <2>1. last'.name \in {"Math.sin"}
      BY <1>9 DEF CallSin, Calls, Ends
    <2>2. QED
      BY <1>9, <2>1, SinSteps, DivisionElsewhere, ArithmeticElsewhere, OpcodesElsewhere, BitsElsewhere
         DEF ScalarsMatch, IntOpcodes, Products, Comparisons
  <1>10. CASE CallATan
    <2>1. last'.name \in {"Math.atan", "Math.atan2"}
      BY <1>10 DEF CallATan, Calls, Ends
    <2>2. QED
      BY <1>10, <2>1, ATanSteps, DivisionElsewhere, ArithmeticElsewhere, OpcodesElsewhere, BitsElsewhere
         DEF ScalarsMatch, IntOpcodes, Products, Comparisons
  <1>11. CASE CallRound
    <2>1. last'.name \in {"Int.round"}
      BY <1>11 DEF CallRound, Calls, Ends
    <2>2. QED
      BY <1>11, <2>1, RoundSteps, DivisionElsewhere, AnglesElsewhere, OpcodesElsewhere, BitsElsewhere
         DEF ScalarsMatch, IntOpcodes, Products, Comparisons
  <1>12. CASE CallToFixed
    <2>1. last'.name \in {"Int.toFixed"}
      BY <1>12 DEF CallToFixed, Calls, Ends
    <2>2. QED
      BY <1>12, <2>1, ToFixedSteps, DivisionElsewhere, AnglesElsewhere, OpcodesElsewhere, BitsElsewhere
         DEF ScalarsMatch, IntOpcodes, Products, Comparisons
  <1>13. CASE CallDrunk \/ CallRnd \/ CallCos \/ CallCharCode
    <2>1. last'.name \in {"Math.drunk", "Math.rnd", "Math.cos", "Char.fromCode", "Char.toCode", "Char.ord"}
      BY <1>13 DEF CallDrunk, CallRnd, CallCos, CallCharCode, Calls, Ends
    <2>2. QED
      BY <2>1, DivisionElsewhere, ArithmeticElsewhere, AnglesElsewhere, OpcodesElsewhere, BitsElsewhere
         DEF ScalarsMatch, IntOpcodes, Products, Comparisons
  <1>14. QED
    BY <1>1, <1>2, <1>3, <1>4, <1>5, <1>6, <1>7, <1>8, <1>9, <1>10, <1>11, <1>12, <1>13
       DEF CallScalar

LEMMA ScalarsOpcode ==
  ASSUME CallOpcode PROVE ScalarsMatch'
  <1>1. CASE CallInt
    <2>1. last'.name \in IntOpcodes
      BY <1>1 DEF CallInt, Calls, Ends
    <2>2. QED
      BY <1>1, <2>1, IntSteps, DivisionElsewhere, ArithmeticElsewhere, AnglesElsewhere
         DEF ScalarsMatch, IntOpcodes, Products, Comparisons
  <1>2. CASE CallNot
    <2>1. last'.name \in {"not"}
      BY <1>2 DEF CallNot, Calls, Ends
    <2>2. QED
      BY <1>2, <2>1, NotSteps, DivisionElsewhere, ArithmeticElsewhere, AnglesElsewhere, OpcodesElsewhere
         DEF ScalarsMatch, IntOpcodes, Products, Comparisons
  <1>3. CASE CallNegate
    <2>1. last'.name \in {"negate"}
      BY <1>3 DEF CallNegate, Calls, Ends
    <2>2. QED
      BY <1>3, <2>1, NegateSteps, DivisionElsewhere, ArithmeticElsewhere, AnglesElsewhere, BitsElsewhere
         DEF ScalarsMatch
  <1>4. CASE CallListCreate \/ CallListConj \/ CallListAppend \/ CallStringAppend \/ CallStringEqual \/
       CallSetEnum \/ CallMemCopy \/ CallEnumCase \/ CallIntCase
    <2>1. last'.name \in {"listCreate", "arrayCreate", "listConj", "listAppend", "stringAppend",
         "stringEqual", "setEnum", "memCopy", "enumCase", "intCase"}
      BY <1>4 DEF CallListCreate, CallListConj, CallListAppend, CallStringAppend, CallStringEqual,
         CallSetEnum, CallMemCopy, CallEnumCase, CallIntCase, Calls, Ends
    <2>2. QED
      BY <2>1, DivisionElsewhere, ArithmeticElsewhere, AnglesElsewhere, OpcodesElsewhere, BitsElsewhere
         DEF ScalarsMatch, IntOpcodes, Products, Comparisons
  <1>5. QED
    BY <1>1, <1>2, <1>3, <1>4 DEF CallOpcode

\* What remainderBy, mod, abs, sign, mid, clamp, lerp, metronome, sin, atan, Int.round, Int.toFixed
\* and the opcodes on integers return is the result ScalarsMatch states, for every width of a word
\* and every argument.  Not stated, as they do not hold: that a modulus is never negative, and
\* that cos is the sine a quarter turn on.  Of drunk and rnd nothing is stated.
THEOREM ScalarsAreRight == Spec => []ScalarsMatch
  <1>1. ASSUME Init PROVE ScalarsMatch
    <2>1. DivisionIsRight
      BY <1>1, NoneAtFirst, Zenon DEF DivisionIsRight, Returns
    <2>2. ArithmeticIsRight
      BY <1>1, NoneAtFirst, Zenon DEF ArithmeticIsRight, Returns
    <2>3. AnglesAreRight
      BY <1>1, NoneAtFirst, Zenon DEF AnglesAreRight, Returns
    <2>4. IntOpcodesAreRight
      BY <1>1, NoneAtFirst, Zenon DEF IntOpcodesAreRight, Returns
    <2>5. BitsAreRight
      BY <1>1, NoneAtFirst, Zenon DEF BitsAreRight, Returns
    <2>6. QED
      BY <2>1, <2>2, <2>3, <2>4, <2>5 DEF ScalarsMatch
  <1>2. ScalarsMatch /\ [Next]_vars => ScalarsMatch'
    <2> SUFFICES ASSUME ScalarsMatch, [Next]_vars PROVE ScalarsMatch'
      OBVIOUS
    <2>1. CASE CallScalar
      BY <2>1, ScalarsScalar
    <2>2. CASE CallCollection
      BY <2>2, CollectionCalled, DivisionElsewhere, ArithmeticElsewhere, AnglesElsewhere, OpcodesElsewhere,
         BitsElsewhere
         DEF CollectionNames, ScalarsMatch, IntOpcodes, Products, Comparisons
    <2>3. CASE CallOpcode
      BY <2>3, ScalarsOpcode
    <2>4. CASE CallLookup
      BY <2>4, LookupCalled, DivisionElsewhere, ArithmeticElsewhere, AnglesElsewhere, OpcodesElsewhere,
         BitsElsewhere
         DEF LookupNames, ScalarsMatch, IntOpcodes, Products, Comparisons
    <2>5. CASE CallBlob
      BY <2>5, BlobCalled, DivisionElsewhere, ArithmeticElsewhere, AnglesElsewhere, OpcodesElsewhere,
         BitsElsewhere
         DEF BlobNames, ScalarsMatch, IntOpcodes, Products, Comparisons
    <2>6. CASE CallLaysOut
      BY <2>6, LaysOutCalled, DivisionElsewhere, ArithmeticElsewhere, AnglesElsewhere, OpcodesElsewhere,
         BitsElsewhere
         DEF LaysOutNames, ScalarsMatch, IntOpcodes, Products, Comparisons
    <2>7. CASE UNCHANGED vars
      BY <2>7, DivisionStays, ArithmeticStays, AnglesStays, OpcodesStays, BitsStays DEF ScalarsMatch
    <2>8. QED
      BY <2>1, <2>2, <2>3, <2>4, <2>5, <2>6, <2>7 DEF Next
  <1>3. QED
    BY <1>1, <1>2, PTL DEF Spec

\* The actions that CollectionsMatch is about.
LEMMA CollectionsCollection ==
  ASSUME CallCollection PROVE CollectionsMatch'
  <1>1. CASE CallHead
    <2>1. last'.name \in {"List.head"}
      BY <1>1 DEF CallHead, Calls, Ends
    <2>2. QED
      BY <1>1, <2>1, HeadSteps, MembersElsewhere, IndicesElsewhere, MaybesElsewhere,
         MadeElsewhere, FramesElsewhere
         DEF CollectionsMatch
  <1>2. CASE CallIsEmpty
    <2>1. last'.name \in {"List.isEmpty"}
      BY <1>2 DEF CallIsEmpty, Calls, Ends
    <2>2. QED
      BY <1>2, <2>1, IsEmptySteps, MembersElsewhere, IndicesElsewhere, MaybesElsewhere,
         MadeElsewhere, FramesElsewhere
         DEF CollectionsMatch
  <1>3. CASE CallLength
    <2>1. last'.name \in {"List.length", "Array.length"}
      BY <1>3 DEF CallLength, Calls, Ends
    <2>2. QED
      BY <1>3, <2>1, LengthSteps, MembersElsewhere, IndicesElsewhere, MaybesElsewhere,
         MadeElsewhere, FramesElsewhere
         DEF CollectionsMatch
  <1>4. CASE CallMember
    <2>1. last'.name \in {"List.member"}
      BY <1>4 DEF CallMember, Calls, Ends
    <2>2. QED
      BY <1>4, <2>1, MemberSteps, ListsElsewhere, IndicesElsewhere, MaybesElsewhere,
         MadeElsewhere, FramesElsewhere
         DEF CollectionsMatch
  <1>5. CASE CallRange0
    <2>1. last'.name \in {"List.range0"}
      BY <1>5 DEF CallRange0, Calls, Ends
    <2>2. QED
      BY <1>5, <2>1, Range0Steps, MembersElsewhere, IndicesElsewhere, MaybesElsewhere,
         MadeElsewhere, FramesElsewhere
         DEF CollectionsMatch
  <1>6. CASE CallSame
    <2>1. last'.name \in {"Array.fromList", "Array.toList"}
      BY <1>6 DEF CallSame, Calls, Ends
    <2>2. QED
      BY <1>6, <2>1, SameSteps, MembersElsewhere, IndicesElsewhere, MaybesElsewhere,
         MadeElsewhere, FramesElsewhere
         DEF CollectionsMatch
  <1>7. CASE CallGet
    <2>1. last'.name \in {"Array.get", "Array.repeat"}
      BY <1>7 DEF CallGet, Calls, Ends
    <2>2. QED
      BY <1>7, <2>1, GetSteps, ListsElsewhere, MembersElsewhere, MaybesElsewhere,
         MadeElsewhere, FramesElsewhere
         DEF CollectionsMatch
  <1>8. CASE CallGrab
    <2>1. last'.name \in {"Array.grab"}
      BY <1>8 DEF CallGrab, Calls, Ends
    <2>2. QED
      BY <1>8, <2>1, GrabSteps, ListsElsewhere, MembersElsewhere, MaybesElsewhere,
         MadeElsewhere, FramesElsewhere
         DEF CollectionsMatch
  <1>9. CASE CallSet
    <2>1. last'.name \in {"Array.set", "Array.slice"}
      BY <1>9 DEF CallSet, Calls, Ends
    <2>2. QED
      BY <1>9, <2>1, SetSteps, ListsElsewhere, MembersElsewhere, MaybesElsewhere,
         MadeElsewhere, FramesElsewhere
         DEF CollectionsMatch
  <1>10. CASE CallWithDefault
    <2>1. last'.name \in {"Maybe.withDefault"}
      BY <1>10 DEF CallWithDefault, Calls, Ends
    <2>2. QED
      BY <1>10, <2>1, WithDefaultSteps, ListsElsewhere, MembersElsewhere, IndicesElsewhere,
         MadeElsewhere, FramesElsewhere
         DEF CollectionsMatch
  <1>11. CASE CallMaybe
    <2>1. last'.name \in {"Maybe.maybe"}
      BY <1>11 DEF CallMaybe, Calls, Ends
    <2>2. QED
      BY <1>11, <2>1, MaybeSteps, ListsElsewhere, MembersElsewhere, IndicesElsewhere,
         MadeElsewhere, FramesElsewhere
         DEF CollectionsMatch
  <1>12. CASE CallTail \/ CallRange \/ CallFilterMap
    <2>1. last'.name \in {"List.tail", "List.range", "List.filterMap"}
      BY <1>12 DEF CallTail, CallRange, CallFilterMap, Calls, Ends
    <2>2. QED
      BY <2>1, ListsElsewhere, MembersElsewhere, IndicesElsewhere, MaybesElsewhere,
         MadeElsewhere, FramesElsewhere
         DEF CollectionsMatch, IntOpcodes, Products, Comparisons
  <1>13. QED
    BY <1>1, <1>2, <1>3, <1>4, <1>5, <1>6, <1>7, <1>8, <1>9, <1>10, <1>11, <1>12
       DEF CallCollection

LEMMA CollectionsOpcode ==
  ASSUME CallOpcode PROVE CollectionsMatch'
  <1>1. CASE CallListCreate
    <2>1. last'.name \in {"listCreate", "arrayCreate"}
      BY <1>1 DEF CallListCreate, Calls, Ends
    <2>2. QED
      BY <1>1, <2>1, ListCreateSteps, ListsElsewhere, MembersElsewhere, IndicesElsewhere,
         MaybesElsewhere, FramesElsewhere
         DEF CollectionsMatch
  <1>2. CASE CallListConj
    <2>1. last'.name \in {"listConj"}
      BY <1>2 DEF CallListConj, Calls, Ends
    <2>2. QED
      BY <1>2, <2>1, ListConjSteps, ListsElsewhere, MembersElsewhere, IndicesElsewhere,
         MaybesElsewhere, FramesElsewhere
         DEF CollectionsMatch
  <1>3. CASE CallListAppend
    <2>1. last'.name \in {"listAppend"}
      BY <1>3 DEF CallListAppend, Calls, Ends
    <2>2. QED
      BY <1>3, <2>1, ListAppendSteps, ListsElsewhere, MembersElsewhere, IndicesElsewhere,
         MaybesElsewhere, FramesElsewhere
         DEF CollectionsMatch
  <1>4. CASE CallStringAppend
    <2>1. last'.name \in {"stringAppend"}
      BY <1>4 DEF CallStringAppend, Calls, Ends
    <2>2. QED
      BY <1>4, <2>1, StringAppendSteps, ListsElsewhere, MembersElsewhere, IndicesElsewhere,
         MaybesElsewhere, FramesElsewhere
         DEF CollectionsMatch
  <1>5. CASE CallStringEqual
    <2>1. last'.name \in {"stringEqual"}
      BY <1>5 DEF CallStringEqual, Calls, Ends
    <2>2. QED
      BY <1>5, <2>1, StringEqualSteps, ListsElsewhere, MembersElsewhere, IndicesElsewhere,
         MaybesElsewhere, FramesElsewhere
         DEF CollectionsMatch
  <1>6. CASE CallSetEnum
    <2>1. last'.name \in {"setEnum"}
      BY <1>6 DEF CallSetEnum, Calls, Ends
    <2>2. QED
      BY <1>6, <2>1, SetEnumSteps, ListsElsewhere, MembersElsewhere, IndicesElsewhere,
         MaybesElsewhere, MadeElsewhere
         DEF CollectionsMatch
  <1>7. CASE CallMemCopy
    <2>1. last'.name \in {"memCopy"}
      BY <1>7 DEF CallMemCopy, Calls, Ends
    <2>2. QED
      BY <1>7, <2>1, MemCopySteps, ListsElsewhere, MembersElsewhere, IndicesElsewhere,
         MaybesElsewhere, MadeElsewhere
         DEF CollectionsMatch
  <1>8. CASE CallInt \/ CallNot \/ CallNegate \/ CallEnumCase \/ CallIntCase
    <2>1. last'.name \in IntOpcodes \cup {"not", "negate", "enumCase", "intCase"}
      BY <1>8 DEF CallInt, CallNot, CallNegate, CallEnumCase, CallIntCase, Calls, Ends
    <2>2. QED
      BY <2>1, ListsElsewhere, MembersElsewhere, IndicesElsewhere, MaybesElsewhere,
         MadeElsewhere, FramesElsewhere
         DEF CollectionsMatch, IntOpcodes, Products, Comparisons
  <1>9. QED
    BY <1>1, <1>2, <1>3, <1>4, <1>5, <1>6, <1>7, <1>8 DEF CallOpcode

\* head, isEmpty, length, range0, member, fromList, toList, get, grab and withDefault return what
\* they are asked for, whatever the lists and arrays; grab, set and slice panic for an index
\* outside; Maybe.maybe takes no Just for Nothing; and the opcodes that make lists, strings and
\* frames of others keep those: CollectionsMatch.  Not stated, as it does not hold: what the types
\* of tail, range, repeat, set, slice and Maybe.maybe say.
THEOREM CollectionsAreRight == Spec => []CollectionsMatch
  <1>1. ASSUME Init PROVE CollectionsMatch
    <2>1. ListsAreRight
      BY <1>1, NoneAtFirst, Zenon DEF ListsAreRight, Returns
    <2>2. MembersAreRight
      BY <1>1, NoneAtFirst, Zenon DEF MembersAreRight, Returns
    <2>3. IndicesAreRight
      BY <1>1, NoneAtFirst DEF IndicesAreRight, Returns
    <2>4. MaybesAreRight
      BY <1>1, NoneAtFirst, Zenon DEF MaybesAreRight, Returns
    <2>5. MadeOfOthers
      BY <1>1, NoneAtFirst, Zenon DEF MadeOfOthers, Returns
    <2>6. FramesAreKept
      BY <1>1, NoneAtFirst, Zenon DEF FramesAreKept, Returns
    <2>7. QED
      BY <2>1, <2>2, <2>3, <2>4, <2>5, <2>6 DEF CollectionsMatch
  <1>2. CollectionsMatch /\ [Next]_vars => CollectionsMatch'
    <2> SUFFICES ASSUME CollectionsMatch, [Next]_vars PROVE CollectionsMatch'
      OBVIOUS
    <2>1. CASE CallScalar
      BY <2>1, ScalarCalled, ListsElsewhere, MembersElsewhere, IndicesElsewhere,
         MaybesElsewhere, MadeElsewhere, FramesElsewhere
         DEF ScalarNames, CollectionsMatch, IntOpcodes, Products, Comparisons
    <2>2. CASE CallCollection
      BY <2>2, CollectionsCollection
    <2>3. CASE CallOpcode
      BY <2>3, CollectionsOpcode
    <2>4. CASE CallLookup
      BY <2>4, LookupCalled, ListsElsewhere, MembersElsewhere, IndicesElsewhere,
         MaybesElsewhere, MadeElsewhere, FramesElsewhere
         DEF LookupNames, CollectionsMatch, IntOpcodes, Products, Comparisons
    <2>5. CASE CallBlob
      BY <2>5, BlobCalled, ListsElsewhere, MembersElsewhere, IndicesElsewhere,
         MaybesElsewhere, MadeElsewhere, FramesElsewhere
         DEF BlobNames, CollectionsMatch, IntOpcodes, Products, Comparisons
    <2>6. CASE CallLaysOut
      BY <2>6, LaysOutCalled, ListsElsewhere, MembersElsewhere, IndicesElsewhere,
         MaybesElsewhere, MadeElsewhere, FramesElsewhere
         DEF LaysOutNames, CollectionsMatch, IntOpcodes, Products, Comparisons
    <2>7. CASE UNCHANGED vars
      BY <2>7, ListsStays, MembersStays, IndicesStays, MaybesStays, MadeStays, FramesStays
         DEF CollectionsMatch
    <2>8. QED
      BY <2>1, <2>2, <2>3, <2>4, <2>5, <2>6, <2>7 DEF Next
  <1>3. QED
    BY <1>1, <1>2, PTL DEF Spec

\* The actions that LookupsMatch is about.
LEMMA LookupsLookup ==
  ASSUME CallLookup PROVE LookupsMatch'
  <1>1. CASE CallSingleLine
    <2>1. last'.name \in {"singleLine"}
      BY <1>1 DEF CallSingleLine, Calls, Ends
    <2>2. QED
      BY <1>1, <2>1, SingleLineSteps, VariablesElsewhere, CasesElsewhere, LogsElsewhere
         DEF LookupsMatch
  <1>2. CASE CallBacktrace
    <2>1. last'.name \in {"backtrace"}
      BY <1>2 DEF CallBacktrace, Calls, Ends
    <2>2. QED
      BY <1>2, <2>1, BacktraceSteps, VariablesElsewhere, CasesElsewhere, LogsElsewhere
         DEF LookupsMatch
  <1>3. CASE CallVariables
    <2>1. last'.name \in {"variables"}
      BY <1>3 DEF CallVariables, Calls, Ends
    <2>2. QED
      BY <1>3, <2>1, VariablesSteps, PlacesElsewhere, CasesElsewhere, LogsElsewhere
         DEF LookupsMatch
  <1>4. CASE CallLog
    <2>1. last'.name \in {"Debug.log"}
      BY <1>4 DEF CallLog, Calls, Ends
    <2>2. QED
      BY <1>4, <2>1, LogSteps, PlacesElsewhere, VariablesElsewhere, CasesElsewhere
         DEF LookupsMatch
  <1>5. CASE CallPanic
    <2>1. last'.name \in {"Debug.panic"}
      BY <1>5 DEF CallPanic, Calls, Ends
    <2>2. QED
      BY <2>1, PlacesElsewhere, VariablesElsewhere, CasesElsewhere, LogsElsewhere
         DEF LookupsMatch, IntOpcodes, Products, Comparisons
  <1>6. QED
    BY <1>1, <1>2, <1>3, <1>4, <1>5 DEF CallLookup

LEMMA LookupsOpcode ==
  ASSUME CallOpcode PROVE LookupsMatch'
  <1>1. CASE CallEnumCase
    <2>1. last'.name \in {"enumCase"}
      BY <1>1 DEF CallEnumCase, Calls, Ends
    <2>2. QED
      BY <1>1, <2>1, EnumCaseSteps, PlacesElsewhere, VariablesElsewhere, LogsElsewhere
         DEF LookupsMatch
  <1>2. CASE CallIntCase
    <2>1. last'.name \in {"intCase"}
      BY <1>2 DEF CallIntCase, Calls, Ends
    <2>2. QED
      BY <1>2, <2>1, IntCaseSteps, PlacesElsewhere, VariablesElsewhere, LogsElsewhere
         DEF LookupsMatch
  <1>3. CASE CallInt \/ CallNot \/ CallNegate \/ CallListCreate \/ CallListConj \/ CallListAppend \/
       CallStringAppend \/ CallStringEqual \/ CallSetEnum \/ CallMemCopy
    <2>1. last'.name \in IntOpcodes \cup {"not", "negate", "listCreate", "arrayCreate", "listConj",
         "listAppend", "stringAppend", "stringEqual", "setEnum", "memCopy"}
      BY <1>3 DEF CallInt, CallNot, CallNegate, CallListCreate, CallListConj, CallListAppend,
         CallStringAppend, CallStringEqual, CallSetEnum, CallMemCopy, Calls, Ends
    <2>2. QED
      BY <2>1, PlacesElsewhere, VariablesElsewhere, CasesElsewhere, LogsElsewhere
         DEF LookupsMatch, IntOpcodes, Products, Comparisons
  <1>4. QED
    BY <1>1, <1>2, <1>3 DEF CallOpcode

\* Places, variables, cases and logs are looked up right, in tables of every length: LookupsMatch,
\* of debug.c, debug_variables.c, core/debug.c and the jump tables of swamp.c.
THEOREM LookupsAreRight == Spec => []LookupsMatch
  <1>1. ASSUME Init PROVE LookupsMatch
    <2>1. PlacesAreRight
      BY <1>1, NoneAtFirst, Zenon DEF PlacesAreRight, Returns
    <2>2. VariablesAreRight
      BY <1>1, NoneAtFirst, Zenon DEF VariablesAreRight, Returns
    <2>3. CasesAreRight
      BY <1>1, NoneAtFirst, Zenon DEF CasesAreRight, Returns
    <2>4. LogsAreRight
      BY <1>1, NoneAtFirst, Zenon DEF LogsAreRight, Returns
    <2>5. QED
      BY <2>1, <2>2, <2>3, <2>4 DEF LookupsMatch
  <1>2. LookupsMatch /\ [Next]_vars => LookupsMatch'
    <2> SUFFICES ASSUME LookupsMatch, [Next]_vars PROVE LookupsMatch'
      OBVIOUS
    <2>1. CASE CallScalar
      BY <2>1, ScalarCalled, PlacesElsewhere, VariablesElsewhere, CasesElsewhere, LogsElsewhere
         DEF ScalarNames, LookupsMatch, IntOpcodes, Products, Comparisons
    <2>2. CASE CallCollection
      BY <2>2, CollectionCalled, PlacesElsewhere, VariablesElsewhere, CasesElsewhere, LogsElsewhere
         DEF CollectionNames, LookupsMatch, IntOpcodes, Products, Comparisons
    <2>3. CASE CallOpcode
      BY <2>3, LookupsOpcode
    <2>4. CASE CallLookup
      BY <2>4, LookupsLookup
    <2>5. CASE CallBlob
      BY <2>5, BlobCalled, PlacesElsewhere, VariablesElsewhere, CasesElsewhere, LogsElsewhere
         DEF BlobNames, LookupsMatch, IntOpcodes, Products, Comparisons
    <2>6. CASE CallLaysOut
      BY <2>6, LaysOutCalled, PlacesElsewhere, VariablesElsewhere, CasesElsewhere, LogsElsewhere
         DEF LaysOutNames, LookupsMatch, IntOpcodes, Products, Comparisons
    <2>7. CASE UNCHANGED vars
      BY <2>7, PlacesStays, VariablesStays, CasesStays, LogsStays DEF LookupsMatch
    <2>8. QED
      BY <2>1, <2>2, <2>3, <2>4, <2>5, <2>6, <2>7 DEF Next
  <1>3. QED
    BY <1>1, <1>2, PTL DEF Spec

\* Whoever runs an argument lays its own arguments out where the compiler expects them, for types
\* of every size and alignment: ArgumentsArrive, of list.c, blob.c, maybe.c and execute.c.
THEOREM ArgumentsDoArrive == Spec => []ArgumentsArrive
  <1>1. Init => ArgumentsArrive
    BY NoneAtFirst, Zenon DEF ArgumentsArrive, Returns
  <1>2. ArgumentsArrive /\ [Next]_vars => ArgumentsArrive'
    <2> SUFFICES ASSUME ArgumentsArrive, [Next]_vars PROVE ArgumentsArrive'
      OBVIOUS
    <2>1. CASE CallScalar
      BY <2>1, ScalarCalled, ArgumentsElsewhere
         DEF ScalarNames, ArgumentsArrive, IntOpcodes, Products, Comparisons
    <2>2. CASE CallCollection
      BY <2>2, CollectionCalled, ArgumentsElsewhere
         DEF CollectionNames, ArgumentsArrive, IntOpcodes, Products, Comparisons
    <2>3. CASE CallOpcode
      BY <2>3, OpcodeCalled, ArgumentsElsewhere
         DEF OpcodeNames, ArgumentsArrive, IntOpcodes, Products, Comparisons
    <2>4. CASE CallLookup
      BY <2>4, LookupCalled, ArgumentsElsewhere
         DEF LookupNames, ArgumentsArrive, IntOpcodes, Products, Comparisons
    <2>5. CASE CallBlob
      BY <2>5, BlobCalled, ArgumentsElsewhere
         DEF BlobNames, ArgumentsArrive, IntOpcodes, Products, Comparisons
    <2>6. CASE CallLaysOut
      BY <2>6, LaysOutSteps
    <2>7. CASE UNCHANGED vars
      BY <2>7, ArgumentsStays DEF ArgumentsArrive
    <2>8. QED
      BY <2>1, <2>2, <2>3, <2>4, <2>5, <2>6, <2>7 DEF Next
  <1>3. QED
    BY <1>1, <1>2, PTL DEF Spec
=============================================================================
