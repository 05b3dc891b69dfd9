-------------------------- MODULE HigherOrder_proofs --------------------------
(***************************************************************************)
(* Proofs about the higher order functions of lists and blobs, for all     *)
(* lists, blobs and function arguments, and every depth to which calls of  *)
(* these functions are nested.                                             *)
(***************************************************************************)
EXTENDS HigherOrder, SequenceTheorems, WellFoundedInduction, TLAPS

Operations == ListFunctions \cup BlobFunctions
Slots == (UNION {Results(op) : op \in Operations}) \cup Ints \cup {Unset}
LogEntries == [args : Seq(Int), value : Slots]
Nested == [op : Operations, blob : Blobs \cup {NoBlob}]

Calls ==
  [op : Operations, list : Seq(Ints), other : Seq(Ints), blob : Blobs \cup {NoBlob}, width : Int,
   initial : Ints \cup {Unset}, refused : BOOLEAN, i : Nat, running : BOOLEAN, stopped : BOOLEAN,
   args : Seq(Int), slot : Slots, good : Slots, out : Seq(Int), count : 0 .. TempCapacity, max : Nat,
   was : Seq(Octets), log : Seq(LogEntries), during : Seq(Nested)]

\* How many items a call goes over: the length of a blob never changes.
Size(a) ==
  CASE a.op \in BlobFunctions -> Len(a.was)
    [] a.op = "map2" -> IF Len(a.other) < Len(a.list) THEN Len(a.other) ELSE Len(a.list)
    [] OTHER -> Len(a.list)
Skipped(a) == IF a.op = "reduce" THEN 1 ELSE 0

\* Where a loop is: the log has one run per item before it, and that of the
\* item it stopped at.
Progress(a) ==
  /\ a.op \in BlobFunctions => a.blob \in Blobs
  /\ a.i \in 1 + Skipped(a) .. Size(a) + 1
  /\ a.running \/ a.stopped => a.i <= Size(a)
  /\ a.running => ~a.stopped
  /\ a.stopped => a.op \in Searches \cup {"foldlstop"}
  /\ Len(a.out) < a.i
  /\ a.refused => a.op \in PassOne
  /\ ~a.refused => Len(a.log) = a.i - 1 - Skipped(a) + IF a.stopped THEN 1 ELSE 0
  /\ \A k \in 1 .. Len(a.log) : a.log[k].value \in Results(a.op)

\* What the run of item k is given, in a map.
Handed(a, k, args) ==
  /\ PlaceIs(a, k, args)
  /\ a.op = "map2" => args = <<a.list[k], a.other[k]>>
  /\ a.op # "map2" /\ Undisturbed(a) => Last(args) = Source(a)[k]

Gains(a) ==
  IF a.op \in Filters THEN FlattenSeq(Values(a))
  ELSE [k \in DOMAIN a.log |-> IF a.op \in IntoOctets THEN Octet(a.log[k].value) ELSE a.log[k].value]

Maps(a) ==
  a.op \in Collectors \cup Filters /\ ~a.refused =>
    /\ \A k \in 1 .. Len(a.log) : Handed(a, k, a.log[k].args)
    /\ a.running => Handed(a, a.i, a.args)
    /\ a.out = Gains(a)

\* The accumulator after k runs.
AfterRun(a, k) == IF a.op = "foldlstop" THEN a.log[k].value[1] ELSE a.log[k].value
FirstOf(a) == IF a.op = "reduce" THEN Head(a.list) ELSE a.initial
Accumulated(a, k) == IF k = 0 THEN FirstOf(a) ELSE AfterRun(a, k)

Folds(a) ==
  a.op \in Accumulating =>
    /\ a.op # "reduce" => a.initial \in Ints
    /\ \A k \in 1 .. Len(a.log) : a.log[k].args = <<a.list[k + Skipped(a)], Accumulated(a, k - 1)>>
    /\ a.running => a.args = <<a.list[a.i], Accumulated(a, Len(a.log))>>
    /\ a.stopped <=> a.op = "foldlstop" /\ a.log # << >> /\ Last(a.log).value = Nothing
    /\ ~a.stopped => Accumulated(a, Len(a.log)) \in Ints
    /\ ~a.stopped /\ (a.op = "foldl" => a.i > 1 \/ a.list = << >>) => a.slot = Accumulated(a, Len(a.log))
    /\ a.op = "foldlstop" => a.good = Accumulated(a, Len(a.log) - IF a.stopped THEN 1 ELSE 0)

Search(a) ==
  a.op \in Searches /\ ~a.refused =>
    /\ \A k \in 1 .. Len(a.log) - 1 : ~a.log[k].value
    /\ a.stopped <=> a.log # << >> /\ Last(a.log).value
    /\ a.op = "find" /\ a.running => a.args = <<a.list[a.i]>>
    /\ a.op = "find" /\ a.stopped => <<a.list[a.i]>> = Last(a.log).args

\* Nothing has written the blob of the k-th call of st but that call.
Untouched(st, k) ==
  /\ Undisturbed(st[k])
  /\ \A j \in k + 1 .. Len(st) : ~(st[j].op = InPlace /\ st[j].blob = st[k].blob)

Holds(a, octets) ==
  /\ Len(octets) = Len(a.was)
  /\ \A j \in 1 .. Len(a.was) : octets[j] = IF a.op = InPlace /\ j < a.i THEN a.out[j] ELSE a.was[j]

\* A call finds its blob as it was, with what it has written itself.
BlobsHold(st, memory) ==
  \A k \in 1 .. Len(st) : st[k].op \in BlobFunctions =>
    /\ Len(memory[st[k].blob]) = Len(st[k].was)
    /\ Untouched(st, k) => Holds(st[k], memory[st[k].blob])

\* The outermost call is a List.concatMap, and no other one ran or runs.
GathersAlone(st) ==
  /\ Len(st) > 0 /\ st[1].op = "concatMap"
  /\ \A k \in 1 .. Len(st[1].during) : st[1].during[k].op # "concatMap"
  /\ \A j \in 2 .. Len(st) : st[j].op # "concatMap"

GatheredIn(a, buffer) ==
  /\ a.max = TempCapacity
  /\ TotalOf(a) < TempCapacity =>
       /\ a.count = TotalOf(a)
       /\ \A j \in 1 .. a.count : buffer[j] = FlattenSeq(Values(a))[j]

Gathering(st, buffer) == GathersAlone(st) => GatheredIn(st[1], buffer)

States ==
  /\ stack \in Seq(Calls)
  /\ blobs \in [Blobs -> Seq(Octets)]
  /\ temp \in [1 .. TempCapacity -> Ints \cup {Unset}]
  /\ errorTraps \in BOOLEAN
  /\ status \in {"running", "trap", "fault"}

Calling(a) == Progress(a) /\ Maps(a) /\ Folds(a) /\ Search(a)

\* The inductive invariant.
IInv ==
  /\ States
  /\ \A k \in 1 .. Len(stack) : Calling(stack[k]) /\ (k < Len(stack) => stack[k].running)
  /\ BlobsHold(stack, blobs)
  /\ Gathering(stack, temp)

-----------------------------------------------------------------------------
(* Every set of numbers that is not empty has a least element: induction    *)
(* over the positions of a sequence is by the least one that fails.         *)
LEMMA LeastExists ==
  ASSUME NEW S \in SUBSET Nat, S # {}
  PROVE  \E i \in S : \A j \in S : i <= j
  <1> DEFINE R == OpToRel(<, Nat)
  <1>1. \A x, y \in Nat : <<y, x>> \in R <=> y < x
    BY DEF OpToRel
  <1> HIDE DEF R
  <1>2. PICK x \in S : \A y \in S : ~(<<y, x>> \in R)
    BY NatLessThanWellFounded, WFMin DEF R
  <1>3. ASSUME NEW y \in S PROVE x <= y
    <2>1. x \in Nat /\ y \in Nat /\ ~(y < x)
      BY <1>1, <1>2
    <2>2. QED
      BY <2>1
  <1>4. QED
    BY <1>3

\* The recursive function that defines FlattenSeq(s), cut off at n.
FlattensTo(g, s, n) == g = [k \in 1 .. n |-> IF k = 1 THEN s[k] ELSE g[k - 1] \o s[k]]

LEMMA FlattenExists ==
  ASSUME NEW s, NEW n \in Nat
  PROVE  \E g : FlattensTo(g, s, n)
  <1> DEFINE Bad == {m \in Nat : ~ \E g : FlattensTo(g, s, m)}
  <1>1. SUFFICES ASSUME Bad # {} PROVE FALSE
    OBVIOUS
  <1>2. PICK m \in Bad : \A j \in Bad : m <= j
    BY <1>1, LeastExists
  <1>3. CASE m = 0
    <2>1. [k \in 1 .. 0 |-> IF k = 1 THEN s[k] ELSE << >>[k - 1] \o s[k]] = << >>
      OBVIOUS
    <2>2. FlattensTo(<< >>, s, 0)
      BY <2>1 DEF FlattensTo
    <2>3. QED
      BY <1>3, <2>2
  <1>4. CASE m # 0
    <2>1. m \in Nat /\ m - 1 \in Nat /\ m - 1 \notin Bad
      BY <1>2, <1>4
    <2>2. PICK g : FlattensTo(g, s, m - 1)
      BY <2>1
    <2> DEFINE h == [k \in 1 .. m |-> IF k = m THEN IF m = 1 THEN s[m] ELSE g[m - 1] \o s[m] ELSE g[k]]
    <2>3. ASSUME NEW k \in 1 .. m
          PROVE  h[k] = IF k = 1 THEN s[k] ELSE h[k - 1] \o s[k]
      <3>1. CASE k = m
        BY <2>1, <3>1
      <3>2. CASE k # m
        <4>1. k \in 1 .. m - 1
          BY <2>1, <3>2
        <4>2. g[k] = IF k = 1 THEN s[k] ELSE g[k - 1] \o s[k]
          BY <2>2, <4>1 DEF FlattensTo
        <4>3. h[k] = g[k] /\ (k # 1 => h[k - 1] = g[k - 1])
          BY <2>1, <3>2
        <4>4. QED
          BY <4>2, <4>3
      <3>3. QED
        BY <3>1, <3>2
    <2>4. h = [k \in 1 .. m |-> h[k]]
      OBVIOUS
    <2> HIDE DEF h
    <2>5. FlattensTo(h, s, m)
      BY <2>3, <2>4 DEF FlattensTo
    <2>6. QED
      BY <2>5
  <1>5. QED
    BY <1>3, <1>4

(* Two such functions agree where their sequences do.                       *)
LEMMA FlattensAgree ==
  ASSUME NEW g, NEW h, NEW s, NEW t, NEW m \in Nat, NEW n \in Nat, m <= n,
         FlattensTo(g, s, m), FlattensTo(h, t, n), \A k \in 1 .. m : s[k] = t[k]
  PROVE  \A k \in 1 .. m : g[k] = h[k]
  <1> DEFINE Bad == {k \in 1 .. m : g[k] # h[k]}
  <1>1. SUFFICES ASSUME Bad # {} PROVE FALSE
    OBVIOUS
  <1>2. PICK k \in Bad : \A j \in Bad : k <= j
    <2>1. Bad \in SUBSET Nat
      OBVIOUS
    <2> HIDE DEF Bad
    <2>2. QED
      BY <1>1, <2>1, LeastExists
  <1>3. k \in 1 .. m /\ k \in 1 .. n /\ s[k] = t[k]
    BY <1>2
  <1>4. g[k] = IF k = 1 THEN s[k] ELSE g[k - 1] \o s[k]
    BY <1>3 DEF FlattensTo
  <1>5. h[k] = IF k = 1 THEN t[k] ELSE h[k - 1] \o t[k]
    BY <1>3 DEF FlattensTo
  <1>6. k # 1 => g[k - 1] = h[k - 1]
    <2>1. k # 1 => k - 1 \in 1 .. m /\ k - 1 \notin Bad
      BY <1>2, <1>3
    <2>2. QED
      BY <2>1
  <1>7. QED
    BY <1>2, <1>3, <1>4, <1>5, <1>6

LEMMA FlattenDefined ==
  ASSUME NEW S, NEW s \in Seq(S), s # << >>
  PROVE  \E g : FlattensTo(g, s, Len(s)) /\ FlattenSeq(s) = g[Len(s)]
  <1>1. Len(s) \in Nat \ {0}
    BY EmptySeq
  <1> DEFINE f == CHOOSE g : FlattensTo(g, s, Len(s))
  <1>2. \E g : FlattensTo(g, s, Len(s))
    BY <1>1, FlattenExists
  <1>3. FlattensTo(f, s, Len(s))
    BY <1>2
  <1>4. FlattenSeq(s) = f[Len(s)]
    BY <1>1 DEF FlattenSeq, FlattensTo
  <1>5. QED
    BY <1>3, <1>4

(* FlattenSeq adds the items of the last sequence behind those before.      *)
LEMMA FlattenAppend ==
  ASSUME NEW S, NEW s \in Seq(Seq(S)), NEW e \in Seq(S)
  PROVE  FlattenSeq(Append(s, e)) = FlattenSeq(s) \o e
  <1> DEFINE t == Append(s, e)
             n == Len(s)
             m == n + 1
  <1>1. /\ t \in Seq(Seq(S)) /\ t # << >> /\ n \in Nat /\ Len(t) = m /\ t[m] = e
        /\ \A k \in 1 .. n : s[k] = t[k]
    BY AppendProperties
  <1>2. m \in Nat /\ m \in 1 .. m /\ m - 1 = n /\ n <= m /\ (m = 1 <=> n = 0)
    BY <1>1
  <1> HIDE DEF t, n, m
  <1>3. PICK h : FlattensTo(h, t, m) /\ FlattenSeq(t) = h[m]
    BY <1>1, FlattenDefined
  <1>4. h[m] = IF m = 1 THEN e ELSE h[n] \o e
    <2>1. h[m] = IF m = 1 THEN t[m] ELSE h[m - 1] \o t[m]
      BY <1>2, <1>3 DEF FlattensTo
    <2>2. QED
      BY <1>1, <1>2, <2>1
  <1>5. CASE s = << >>
    <2>1. FlattenSeq(s) = << >> /\ n = 0
      BY <1>5 DEF FlattenSeq, n
    <2>2. << >> \o e = e
      BY ConcatEmptySeq
    <2>3. FlattenSeq(t) = FlattenSeq(s) \o e
      BY <1>2, <1>3, <1>4, <2>1, <2>2
    <2>4. QED
      BY <2>3 DEF t
  <1>6. CASE s # << >>
    <2>1. PICK g : FlattensTo(g, s, n) /\ FlattenSeq(s) = g[n]
      BY <1>6, FlattenDefined DEF n
    <2>2. n \in 1 .. n /\ m # 1
      BY <1>6, <1>2, EmptySeq DEF n
    <2>3. \A k \in 1 .. n : g[k] = h[k]
      <3>1. n \in Nat /\ m \in Nat /\ n <= m
        BY <1>1, <1>2
      <3>2. FlattensTo(g, s, n) /\ FlattensTo(h, t, m) /\ \A k \in 1 .. n : s[k] = t[k]
        BY <1>1, <1>3, <2>1
      <3>3. QED
        BY <3>1, <3>2, FlattensAgree, ZenonT(60)
    <2>4. FlattenSeq(t) = FlattenSeq(s) \o e
      BY <1>3, <1>4, <2>1, <2>2, <2>3
    <2>5. QED
      BY <2>4 DEF t
  <1>7. QED
    BY <1>5, <1>6

LEMMA FlattenType ==
  ASSUME NEW S, NEW s \in Seq(Seq(S))
  PROVE  FlattenSeq(s) \in Seq(S)
  <1>1. CASE s = << >>
    <2>1. FlattenSeq(s) = << >>
      BY <1>1 DEF FlattenSeq
    <2>2. QED
      BY <2>1, EmptySeq
  <1>2. CASE s # << >>
    <2>1. Len(s) \in Nat \ {0} /\ \A k \in 1 .. Len(s) : s[k] \in Seq(S)
      BY <1>2, EmptySeq, ElementOfSeq
    <2>2. PICK g : FlattensTo(g, s, Len(s)) /\ FlattenSeq(s) = g[Len(s)]
      BY <1>2, FlattenDefined
    <2> DEFINE Bad == {k \in 1 .. Len(s) : g[k] \notin Seq(S)}
    <2>3. SUFFICES Bad = {}
      BY <2>1, <2>2
    <2>4. SUFFICES ASSUME Bad # {} PROVE FALSE
      OBVIOUS
    <2>5. PICK k \in Bad : \A j \in Bad : k <= j
      <3>1. Bad \in SUBSET Nat
        OBVIOUS
      <3> HIDE DEF Bad
      <3>2. QED
        BY <2>4, <3>1, LeastExists
    <2>6. k \in 1 .. Len(s) /\ s[k] \in Seq(S) /\ g[k] = IF k = 1 THEN s[k] ELSE g[k - 1] \o s[k]
      BY <2>1, <2>2, <2>5 DEF FlattensTo
    <2>7. k # 1 => g[k - 1] \in Seq(S)
      <3>1. k # 1 => k - 1 \in 1 .. Len(s) /\ k - 1 \notin Bad
        BY <2>1, <2>5, <2>6
      <3>2. QED
        BY <3>1
    <2>8. g[k] \in Seq(S)
      <3>1. CASE k = 1
        BY <3>1, <2>6
      <3>2. CASE k # 1
        BY <3>2, <2>6, <2>7, ConcatProperties
      <3>3. QED
        BY <3>1, <3>2
    <2>9. QED
      BY <2>5, <2>8
  <1>3. QED
    BY <1>1, <1>2

(* Positions of a rectangle.                                                *)
LEMMA Divides ==
  ASSUME NEW n \in Nat, NEW w \in Nat \ {0}
  PROVE  /\ n \div w \in Int /\ n % w \in 0 .. w - 1
         /\ ((n \div w) * w) + (n % w) = n
  OBVIOUS

LEMMA OctetType == ASSUME NEW v \in Int PROVE Octet(v) \in Octets
  BY BlobsAssumption DEF Octet, Octets

-----------------------------------------------------------------------------
(* What the program may pass to and return from these functions.            *)
LEMMA ResultKinds ==
  ASSUME NEW op \in Operations, NEW v \in Results(op)
  PROVE  /\ v \in Slots
         /\ op \in Searches => v \in BOOLEAN
         /\ op = "concatMap" => v \in Seq(Ints)
         /\ op \in Filters \cup {"foldlstop"} => v = Nothing \/ (v # Nothing /\ v[1] \in Ints /\ v = <<v[1]>>)
         /\ op \notin Searches \cup Filters \cup {"foldlstop", "concatMap"} => v \in Ints
  <1>1. v \in Slots
    BY DEF Slots
  <1>2. op \in Searches => v \in BOOLEAN
    <2>1. op \in Searches => Results(op) = BOOLEAN
      BY DEF Results, Searches, Filters
    <2>2. QED
      BY <2>1
  <1>3. op = "concatMap" => v \in Seq(Ints)
    <2>1. op = "concatMap" => Results(op) = Lists
      BY DEF Results, Searches, Filters
    <2>2. QED
      BY <2>1, ListsAssumption
  <1>4. op \in Filters \cup {"foldlstop"} => v = Nothing \/ (v # Nothing /\ v[1] \in Ints /\ v = <<v[1]>>)
    <2>1. \A x : Just(x) # Nothing /\ Just(x)[1] = x /\ Just(x) = <<x>>
      BY DEF Just, Nothing
    <2>2. op \in Filters \cup {"foldlstop"} => v \in {Nothing} \cup {Just(x) : x \in Ints}
      BY DEF Results, Filters, Searches
    <2>3. QED
      BY <2>1, <2>2
  <1>5. op \notin Searches \cup Filters \cup {"foldlstop", "concatMap"} => v \in Ints
    BY DEF Results
  <1>6. QED
    BY <1>1, <1>2, <1>3, <1>4, <1>5

LEMMA KeptType ==
  ASSUME NEW a \in Calls, NEW v \in Results(a.op)
  PROVE  /\ Kept(a, v) \in Seq(Int)
         /\ Len(Kept(a, v)) \in {Len(a.out), Len(a.out) + 1}
  <1>1. a.op \in Operations /\ a.out \in Seq(Int)
    BY DEF Calls
  <1>2. \A x \in Int : Append(a.out, x) \in Seq(Int) /\ Len(Append(a.out, x)) = Len(a.out) + 1
    BY <1>1, AppendProperties
  <1>3. CASE a.op \in IntoOctets
    <2>1. v \in Int
      BY <1>1, <1>3, ResultKinds, ListsAssumption DEF IntoOctets, InPlace, Searches, Filters
    <2>2. Octet(v) \in Int
      BY <2>1, OctetType DEF Octets
    <2>3. Kept(a, v) = Append(a.out, Octet(v))
      BY <1>3 DEF Kept, IntoOctets, Collectors, Filters, InPlace
    <2>4. QED
      BY <1>2, <2>2, <2>3
  <1>4. CASE a.op \in Collectors \ IntoOctets
    <2>1. v \in Int
      BY <1>1, <1>4, ResultKinds, ListsAssumption DEF Collectors, Searches, Filters
    <2>2. Kept(a, v) = Append(a.out, v)
      BY <1>4 DEF Kept, IntoOctets, Collectors, Filters, InPlace
    <2>3. QED
      BY <1>2, <2>1, <2>2
  <1>5. CASE a.op \in Filters /\ v # Nothing
    <2>1. v[1] \in Int
      BY <1>1, <1>5, ResultKinds, ListsAssumption
    <2>2. a.op \notin Collectors /\ a.op \notin IntoOctets
      BY <1>5 DEF Filters, Collectors, IntoOctets, InPlace
    <2>3. QED
      BY <1>2, <1>5, <2>1, <2>2 DEF Kept
  <1>6. CASE a.op \notin Collectors /\ ~(a.op \in Filters /\ v # Nothing)
    BY <1>1, <1>6 DEF Kept, Collectors
  <1>7. QED
    BY <1>3, <1>4, <1>5, <1>6 DEF Collectors

(* What a call is once the value of a run has been taken.                   *)
LEMMA TakenFields ==
  ASSUME NEW a \in Calls, NEW v \in Results(a.op), a.op # "concatMap" \/ v \in Seq(Ints)
  PROVE  LET b == Taken(a, v)
         IN /\ b \in Calls
            /\ b.op = a.op /\ b.list = a.list /\ b.other = a.other /\ b.blob = a.blob
            /\ b.width = a.width /\ b.initial = a.initial /\ b.refused = a.refused
            /\ b.was = a.was /\ b.during = a.during /\ b.count = a.count /\ b.max = a.max
            /\ b.running = FALSE /\ b.args = << >> /\ b.stopped = Stops(a.op, v)
            /\ b.i = IF Stops(a.op, v) THEN a.i ELSE a.i + 1
            /\ b.slot = Slot(a, v) /\ b.good = Good(a, v) /\ b.out = Kept(a, v)
            /\ b.log = Append(a.log, [args |-> a.args, value |-> v])
  <1>1. Stops(a.op, v) \in BOOLEAN
    <2>1. a.op \in Operations
      BY DEF Calls
    <2>2. QED
      BY <2>1, ResultKinds DEF Stops
  <1>2. Slot(a, v) \in Slots /\ Good(a, v) \in Slots
    <2>1. a.op \in Operations /\ a.good \in Slots
      BY DEF Calls
    <2>2. v \in Slots /\ (a.op = "foldlstop" /\ v # Nothing => v[1] \in Slots)
      <3>1. v \in Slots
        BY <2>1, ResultKinds
      <3>2. a.op = "foldlstop" /\ v # Nothing => v[1] \in Ints
        BY <2>1, ResultKinds
      <3>3. Ints \subseteq Slots
        BY DEF Slots
      <3>4. QED
        BY <3>1, <3>2, <3>3
    <2>3. QED
      BY <2>1, <2>2 DEF Slot, Good
  <1>3. Append(a.log, [args |-> a.args, value |-> v]) \in Seq(LogEntries)
    <2>1. a.op \in Operations /\ a.args \in Seq(Int) /\ a.log \in Seq(LogEntries)
      BY DEF Calls
    <2>2. [args |-> a.args, value |-> v] \in LogEntries
      BY <2>1, ResultKinds DEF LogEntries
    <2>3. QED
      BY <2>1, <2>2, AppendProperties
  <1>4. Kept(a, v) \in Seq(Int)
    BY KeptType
  <1>5. << >> \in Seq(Int)
    BY EmptySeq
  <1> DEFINE stops == Stops(a.op, v)
             slot == Slot(a, v)
             good == Good(a, v)
             out == Kept(a, v)
             log == Append(a.log, [args |-> a.args, value |-> v])
             i == IF stops THEN a.i ELSE a.i + 1
             none == << >>
  <1>6. i \in Nat
    BY DEF Calls
  <1>7. Taken(a, v) = [a EXCEPT !.running = FALSE, !.args = none, !.stopped = stops, !.i = i,
                                !.slot = slot, !.good = good, !.out = out, !.log = log]
    BY DEF Taken, Calls
  <1>8. stops \in BOOLEAN /\ slot \in Slots /\ good \in Slots /\ out \in Seq(Int) /\ log \in Seq(LogEntries)
        /\ none \in Seq(Int)
    BY <1>1, <1>2, <1>3, <1>4, <1>5
  <1>9. /\ stops = Stops(a.op, v) /\ slot = Slot(a, v) /\ good = Good(a, v) /\ out = Kept(a, v)
        /\ log = Append(a.log, [args |-> a.args, value |-> v])
        /\ i = IF stops THEN a.i ELSE a.i + 1
        /\ none = << >>
    OBVIOUS
  <1> HIDE DEF stops, slot, good, out, log, i, none
  <1> DEFINE b == [a EXCEPT !.running = FALSE, !.args = none, !.stopped = stops, !.i = i,
                            !.slot = slot, !.good = good, !.out = out, !.log = log]
  <1>10. b \in Calls
    BY <1>6, <1>8 DEF Calls
  <1>11. /\ b.op = a.op /\ b.list = a.list /\ b.other = a.other /\ b.blob = a.blob
         /\ b.width = a.width /\ b.initial = a.initial /\ b.refused = a.refused
         /\ b.was = a.was /\ b.during = a.during /\ b.count = a.count /\ b.max = a.max
         /\ b.running = FALSE /\ b.args = none /\ b.stopped = stops /\ b.i = i
         /\ b.slot = slot /\ b.good = good /\ b.out = out /\ b.log = log
    BY DEF Calls
  <1> HIDE DEF b
  <1>12. Taken(a, v) = b
    BY <1>7 DEF b
  <1>13. QED
    BY <1>9, <1>10, <1>11, <1>12

-----------------------------------------------------------------------------
\* b is the call a after the value v of a run has been taken.
TakenAs(a, v, b) ==
  /\ b.op = a.op /\ b.list = a.list /\ b.other = a.other /\ b.blob = a.blob /\ b.width = a.width
  /\ b.initial = a.initial /\ b.refused = a.refused /\ b.was = a.was /\ b.during = a.during /\ b.max = a.max
  /\ b.running = FALSE /\ b.stopped = Stops(a.op, v) /\ b.i = IF Stops(a.op, v) THEN a.i ELSE a.i + 1
  /\ b.slot = Slot(a, v) /\ b.good = Good(a, v) /\ b.out = Kept(a, v)
  /\ b.log = IF a.refused THEN << >> ELSE Append(a.log, [args |-> a.args, value |-> v])

Logged(a, v, b) ==
  /\ Len(a.log) \in Nat /\ Len(b.log) = Len(a.log) + 1
  /\ \A k \in 1 .. Len(a.log) : b.log[k] = a.log[k]
  /\ b.log[Len(a.log) + 1].args = a.args /\ b.log[Len(a.log) + 1].value = v
  /\ Last(b.log).args = a.args /\ Last(b.log).value = v
  /\ b.log # << >>

(* The log after a run.                                                     *)
LEMMA TakenLog ==
  ASSUME NEW a \in Calls, NEW v \in Results(a.op), NEW b \in Calls, TakenAs(a, v, b), ~a.refused
  PROVE  Logged(a, v, b)
  <1> DEFINE entry == [args |-> a.args, value |-> v]
  <1>1. a.log \in Seq(LogEntries) /\ a.args \in Seq(Int) /\ a.op \in Operations
    BY DEF Calls
  <1>2. entry \in LogEntries /\ entry.args = a.args /\ entry.value = v
    BY <1>1, ResultKinds DEF LogEntries
  <1>3. b.log = Append(a.log, entry)
    BY DEF TakenAs
  <1> HIDE DEF entry
  <1>4. Len(a.log) \in Nat /\ Len(b.log) = Len(a.log) + 1 /\ b.log[Len(a.log) + 1] = entry /\ b.log # << >>
        /\ \A k \in 1 .. Len(a.log) : b.log[k] = a.log[k]
    BY <1>1, <1>2, <1>3, AppendProperties
  <1>5. QED
    BY <1>2, <1>4 DEF Last, Logged

LEMMA TakenSize ==
  ASSUME NEW a, NEW v, NEW b, TakenAs(a, v, b)
  PROVE  Size(b) = Size(a) /\ Skipped(b) = Skipped(a)
  BY DEF TakenAs, Size, Skipped

LEMMA SizeType ==
  ASSUME NEW a \in Calls
  PROVE  Size(a) \in Nat /\ Skipped(a) \in {0, 1} /\ a.i \in Nat /\ Len(a.out) \in Nat
  <1>1. Len(a.was) \in Nat /\ Len(a.list) \in Nat /\ Len(a.other) \in Nat /\ Len(a.out) \in Nat /\ a.i \in Nat
    BY LenProperties DEF Calls
  <1>2. QED
    BY <1>1 DEF Size, Skipped

(* The loop moves on by one item, or stops at it.                           *)
LEMMA TakenProgress ==
  ASSUME NEW a \in Calls, NEW v \in Results(a.op), NEW b \in Calls, TakenAs(a, v, b),
         Progress(a), a.running
  PROVE  Progress(b)
  <1>1. a.op \in Operations /\ a.stopped \in BOOLEAN /\ a.refused \in BOOLEAN /\ ~a.stopped
    BY DEF Calls, Progress
  <1>2. /\ Size(b) = Size(a) /\ Skipped(b) = Skipped(a) /\ Size(a) \in Nat /\ Skipped(a) \in {0, 1}
        /\ a.i \in Nat /\ Len(a.out) \in Nat
    BY TakenSize, SizeType
  <1>3. /\ a.i \in 1 + Skipped(a) .. Size(a) /\ Len(a.out) < a.i
        /\ ~a.refused => Len(a.log) = a.i - 1 - Skipped(a)
    BY <1>1, <1>2 DEF Progress
  <1>4. /\ b.op = a.op /\ b.blob = a.blob /\ b.refused = a.refused /\ b.running = FALSE /\ b.out = Kept(a, v)
        /\ b.stopped = Stops(a.op, v) /\ b.i = IF b.stopped THEN a.i ELSE a.i + 1
    BY DEF TakenAs
  <1>5. b.stopped => b.op \in Searches \cup {"foldlstop"}
    BY <1>4 DEF Stops
  <1>6. Len(b.out) < b.i
    <2>1. CASE b.stopped
      <3>1. Kept(a, v) = a.out
        BY <1>4, <1>5, <2>1 DEF Kept, Collectors, IntoOctets, InPlace, Filters, Searches
      <3>2. QED
        BY <1>2, <1>3, <1>4, <2>1, <3>1
    <2>2. CASE ~b.stopped
      <3>1. Len(b.out) \in {Len(a.out), Len(a.out) + 1}
        BY <1>4, KeptType
      <3>2. QED
        BY <1>2, <1>3, <1>4, <2>2, <3>1
    <2>3. QED
      BY <2>1, <2>2
  <1>7. ~b.refused => Len(b.log) = b.i - 1 - Skipped(b) + IF b.stopped THEN 1 ELSE 0
    <2>1. ~a.refused => Len(b.log) = Len(a.log) + 1
      BY TakenLog DEF Logged
    <2>2. QED
      BY <1>2, <1>3, <1>4, <2>1
  <1>8. \A k \in 1 .. Len(b.log) : b.log[k].value \in Results(b.op)
    <2>1. CASE a.refused
      <3>1. b.log = << >>
        BY <2>1 DEF TakenAs
      <3>2. QED
        BY <3>1
    <2>2. CASE ~a.refused
      <3>1. /\ Len(a.log) \in Nat /\ Len(b.log) = Len(a.log) + 1
            /\ \A k \in 1 .. Len(a.log) : b.log[k] = a.log[k]
            /\ b.log[Len(a.log) + 1].value = v
        BY <2>2, TakenLog DEF Logged
      <3>2. \A k \in 1 .. Len(a.log) : a.log[k].value \in Results(a.op)
        BY DEF Progress
      <3>3. QED
        BY <1>4, <3>1, <3>2
    <2>3. QED
      BY <2>1, <2>2
  <1>9. /\ b.op \in BlobFunctions => b.blob \in Blobs
        /\ b.refused => b.op \in PassOne
    BY <1>4 DEF Progress
  <1>10. b.i \in 1 + Skipped(b) .. Size(b) + 1 /\ (b.running \/ b.stopped => b.i <= Size(b))
    BY <1>2, <1>3, <1>4
  <1>11. b.running => ~b.stopped
    BY <1>4
  <1>12. QED
    BY <1>5, <1>6, <1>7, <1>8, <1>9, <1>10, <1>11 DEF Progress

LEMMA TakenSearch ==
  ASSUME NEW a \in Calls, NEW v \in Results(a.op), NEW b \in Calls, TakenAs(a, v, b),
         Progress(a), Search(a), a.running
  PROVE  Search(b)
  <1>1. SUFFICES ASSUME b.op \in Searches, ~b.refused
                 PROVE  /\ \A k \in 1 .. Len(b.log) - 1 : ~b.log[k].value
                        /\ b.stopped <=> b.log # << >> /\ Last(b.log).value
                        /\ b.op = "find" /\ b.running => b.args = <<b.list[b.i]>>
                        /\ b.op = "find" /\ b.stopped => <<b.list[b.i]>> = Last(b.log).args
    BY DEF Search
  <1>2. /\ a.op \in Searches /\ ~a.refused /\ b.op = a.op /\ b.list = a.list /\ b.running = FALSE
        /\ b.stopped = Stops(a.op, v) /\ b.i = IF b.stopped THEN a.i ELSE a.i + 1
    BY <1>1 DEF TakenAs
  <1>3. /\ Len(a.log) \in Nat /\ Len(b.log) = Len(a.log) + 1
        /\ \A k \in 1 .. Len(a.log) : b.log[k] = a.log[k]
        /\ Last(b.log).args = a.args /\ Last(b.log).value = v /\ b.log # << >>
    <2>1. ~a.refused
      BY <1>2
    <2>2. Logged(a, v, b)
      BY <2>1, TakenLog
    <2>3. QED
      BY <2>2 DEF Logged
  <1>4. a.stopped = FALSE
    BY DEF Progress, Calls
  <1>5. \A k \in 1 .. Len(a.log) : ~a.log[k].value
    <2>1. \A k \in 1 .. Len(a.log) - 1 : ~a.log[k].value
      BY <1>2 DEF Search
    <2>2. ~(a.log # << >> /\ Last(a.log).value)
      BY <1>2, <1>4 DEF Search
    <2>3. Len(a.log) # 0 => ~a.log[Len(a.log)].value
      <3>1. a.log \in Seq(LogEntries)
        BY DEF Calls
      <3>2. Len(a.log) # 0 => a.log # << >>
        BY <3>1, EmptySeq
      <3>3. QED
        BY <2>2, <3>2 DEF Last
    <2>4. ASSUME NEW k \in 1 .. Len(a.log) PROVE ~a.log[k].value
      <3>1. k \in 1 .. Len(a.log) - 1 \/ (k = Len(a.log) /\ Len(a.log) # 0)
        BY <1>3
      <3>2. QED
        BY <2>1, <2>3, <3>1
    <2>5. QED
      BY <2>4
  <1>6. \A k \in 1 .. Len(b.log) - 1 : ~b.log[k].value
    BY <1>3, <1>5
  <1>7. b.stopped <=> b.log # << >> /\ Last(b.log).value
    <2>1. Stops(a.op, v) = v
      BY <1>2 DEF Stops, Searches
    <2>2. b.stopped = v
      BY <1>2, <2>1, Zenon
    <2>3. QED
      BY <1>3, <2>2, Zenon
  <1>8. b.op = "find" /\ b.stopped => <<b.list[b.i]>> = Last(b.log).args
    BY <1>2, <1>3 DEF Search
  <1>9. QED
    BY <1>2, <1>6, <1>7, <1>8

LEMMA TakenHanded ==
  ASSUME NEW a, NEW v, NEW b, TakenAs(a, v, b), NEW k, NEW args, Handed(a, k, args)
  PROVE  Handed(b, k, args)
  <1>1. /\ b.op = a.op /\ b.list = a.list /\ b.other = a.other /\ b.blob = a.blob /\ b.width = a.width
        /\ b.was = a.was /\ b.during = a.during
    BY DEF TakenAs
  <1>2. PlaceIs(b, k, args) <=> PlaceIs(a, k, args)
    BY <1>1 DEF PlaceIs
  <1>3. Undisturbed(b) <=> Undisturbed(a)
    BY <1>1 DEF Undisturbed
  <1>4. Source(b) = Source(a)
    BY <1>1 DEF Source
  <1>5. QED
    BY <1>1, <1>2, <1>3, <1>4 DEF Handed

\* The values of a call that have sequences for results.
LEMMA ValuesType ==
  ASSUME NEW a \in Calls, NEW S, \A k \in 1 .. Len(a.log) : a.log[k].value \in S
  PROVE  Values(a) \in Seq(S) /\ DOMAIN a.log = 1 .. Len(a.log) /\ Len(Values(a)) = Len(a.log)
  <1>1. a.log \in Seq(LogEntries)
    BY DEF Calls
  <1>2. DOMAIN a.log = 1 .. Len(a.log) /\ Len(a.log) \in Nat
    BY <1>1, LenProperties
  <1> DEFINE f == [k \in 1 .. Len(a.log) |-> a.log[k].value]
  <1>3. Values(a) = f
    BY <1>2 DEF Values
  <1>4. f \in [1 .. Len(a.log) -> S]
    OBVIOUS
  <1> HIDE DEF f
  <1>5. f \in Seq(S)
    BY <1>2, <1>4, SeqDef
  <1>6. Len(f) = Len(a.log)
    BY <1>2, <1>4, <1>5, LenProperties
  <1>7. QED
    BY <1>2, <1>3, <1>5, <1>6

LEMMA TakenValues ==
  ASSUME NEW a \in Calls, NEW v \in Results(a.op), NEW b \in Calls, TakenAs(a, v, b), ~a.refused,
         NEW S, v \in S, \A k \in 1 .. Len(a.log) : a.log[k].value \in S
  PROVE  Values(b) = Append(Values(a), v)
  <1>1. /\ Len(a.log) \in Nat /\ Len(b.log) = Len(a.log) + 1
        /\ \A k \in 1 .. Len(a.log) : b.log[k] = a.log[k]
        /\ b.log[Len(a.log) + 1].value = v
    <2>1. ~a.refused
      OBVIOUS
    <2>2. Logged(a, v, b)
      BY <2>1, TakenLog
    <2>3. QED
      BY <2>2 DEF Logged
  <1>2. Values(a) \in Seq(S) /\ Len(Values(a)) = Len(a.log) /\ DOMAIN a.log = 1 .. Len(a.log)
    BY ValuesType
  <1>3. \A k \in 1 .. Len(b.log) : b.log[k].value \in S
    BY <1>1
  <1>4. Values(b) \in Seq(S) /\ Len(Values(b)) = Len(b.log) /\ DOMAIN b.log = 1 .. Len(b.log)
    BY <1>3, ValuesType
  <1> DEFINE t == Append(Values(a), v)
  <1>5. t \in Seq(S) /\ Len(t) = Len(b.log) /\ t[Len(b.log)] = v
        /\ \A k \in 1 .. Len(a.log) : t[k] = Values(a)[k]
    BY <1>1, <1>2, AppendProperties
  <1>6. ASSUME NEW k \in 1 .. Len(b.log) PROVE Values(b)[k] = t[k]
    <2>1. Values(b)[k] = b.log[k].value
      BY <1>4 DEF Values
    <2>2. CASE k = Len(b.log)
      BY <1>1, <1>5, <2>1, <2>2
    <2>3. CASE k # Len(b.log)
      <3>1. k \in 1 .. Len(a.log)
        BY <1>1, <2>3
      <3>2. Values(a)[k] = a.log[k].value
        BY <1>2, <3>1 DEF Values
      <3>3. QED
        BY <1>1, <1>5, <2>1, <3>1, <3>2
    <2>4. QED
      BY <2>2, <2>3
  <1> HIDE DEF t
  <1>7. Values(b) = t
    BY <1>4, <1>5, <1>6, SeqEqual
  <1>8. QED
    BY <1>7 DEF t

LEMMA TakenMaps ==
  ASSUME NEW a \in Calls, NEW v \in Results(a.op), NEW b \in Calls, TakenAs(a, v, b),
         Progress(a), Maps(a), a.running
  PROVE  Maps(b)
  <1>1. SUFFICES ASSUME b.op \in Collectors \cup Filters, ~b.refused
                 PROVE  /\ \A k \in 1 .. Len(b.log) : Handed(b, k, b.log[k].args)
                        /\ b.running => Handed(b, b.i, b.args)
                        /\ b.out = Gains(b)
    BY DEF Maps
  <1>2. /\ a.op \in Collectors \cup Filters /\ ~a.refused /\ b.op = a.op /\ b.running = FALSE
        /\ b.out = Kept(a, v)
    BY <1>1 DEF TakenAs
  <1>3. /\ \A k \in 1 .. Len(a.log) : Handed(a, k, a.log[k].args)
        /\ Handed(a, a.i, a.args)
        /\ a.out = Gains(a)
    BY <1>2 DEF Maps
  <1>4. /\ Len(a.log) \in Nat /\ Len(b.log) = Len(a.log) + 1
        /\ \A k \in 1 .. Len(a.log) : b.log[k] = a.log[k]
        /\ b.log[Len(a.log) + 1].args = a.args
        /\ b.log[Len(a.log) + 1].value = v
    <2>1. ~a.refused
      BY <1>2
    <2>2. Logged(a, v, b)
      BY <2>1, TakenLog
    <2>3. QED
      BY <2>2 DEF Logged
  <1>5. a.i = Len(a.log) + 1
    <2>1. a.op # "reduce" /\ a.op \in Operations
      BY <1>2 DEF Collectors, Filters, IntoOctets, InPlace, Calls
    <2>2. a.stopped = FALSE
      BY DEF Progress, Calls
    <2>3. a.i \in Nat /\ Skipped(a) = 0
      BY <2>1 DEF Skipped, Calls
    <2>4. QED
      BY <1>2, <1>4, <2>2, <2>3 DEF Progress
  <1>6. ASSUME NEW k \in 1 .. Len(b.log) PROVE Handed(b, k, b.log[k].args)
    <2>1. Handed(a, k, b.log[k].args)
      <3>1. k \in 1 .. Len(a.log) \/ k = Len(a.log) + 1
        BY <1>4
      <3>2. QED
        BY <1>3, <1>4, <1>5, <3>1
    <2>2. QED
      BY <2>1, TakenHanded
  <1>7. b.out = Gains(b)
    <2>1. CASE a.op \in Filters
      <3>1. a.op \in Operations /\ a.out \in Seq(Int)
        BY DEF Calls
      <3>2. \A x \in Results(a.op) : x \in Seq(Int)
        <4>1. ASSUME NEW x \in Results(a.op) PROVE x \in Seq(Int)
          <5>1. CASE x = Nothing
            BY <5>1 DEF Nothing
          <5>2. CASE x # Nothing
            <6>1. x[1] \in Int /\ x = <<x[1]>>
              BY <2>1, <3>1, <5>2, ResultKinds, ListsAssumption
            <6>2. \A y \in Int : <<y>> \in Seq(Int)
              OBVIOUS
            <6>3. QED
              BY <6>1, <6>2
          <5>3. QED
            BY <5>1, <5>2
        <4>2. QED
          BY <4>1
      <3>3. v \in Seq(Int) /\ \A k \in 1 .. Len(a.log) : a.log[k].value \in Seq(Int)
        BY <3>2 DEF Progress
      <3>4. Values(a) \in Seq(Seq(Int))
        BY <3>3, ValuesType
      <3>5. Values(b) = Append(Values(a), v)
        <4>1. ~a.refused
          BY <1>2
        <4>2. QED
          BY <3>3, <4>1, TakenValues, Zenon
      <3>6. FlattenSeq(Values(b)) = FlattenSeq(Values(a)) \o v
        BY <3>3, <3>4, <3>5, FlattenAppend
      <3>7. a.out = FlattenSeq(Values(a)) /\ Gains(b) = FlattenSeq(Values(b))
        BY <1>2, <1>3, <2>1 DEF Gains
      <3>8. Kept(a, v) = a.out \o v
        <4>1. a.op \notin Collectors
          BY <2>1 DEF Filters, Collectors, IntoOctets, InPlace
        <4>2. CASE v = Nothing
          <5>1. Kept(a, v) = a.out
            BY <2>1, <4>1, <4>2 DEF Kept, Collectors
          <5>2. a.out \o << >> = a.out
            BY <3>1, ConcatEmptySeq
          <5>3. QED
            BY <4>2, <5>1, <5>2 DEF Nothing
        <4>3. CASE v # Nothing
          <5>1. v = <<v[1]>> /\ v[1] \in Int
            BY <2>1, <3>1, <4>3, ResultKinds, ListsAssumption
          <5>2. Kept(a, v) = Append(a.out, v[1])
            BY <2>1, <4>1, <4>3 DEF Kept, Collectors
          <5>3. \A x \in Int : Append(a.out, x) = a.out \o <<x>>
            BY <3>1, AppendIsConcat
          <5>4. QED
            BY <5>1, <5>2, <5>3
        <4>4. QED
          BY <4>2, <4>3
      <3>9. QED
        BY <1>2, <3>6, <3>7, <3>8
    <2>2. CASE a.op \in Collectors
      <3> DEFINE Put(x) == IF a.op \in IntoOctets THEN Octet(x) ELSE x
      <3>1. a.op \notin Filters /\ DOMAIN a.log = 1 .. Len(a.log) /\ DOMAIN b.log = 1 .. Len(b.log)
            /\ a.out \in Seq(Int)
        <4>1. a.log \in Seq(LogEntries) /\ b.log \in Seq(LogEntries) /\ a.out \in Seq(Int)
          BY DEF Calls
        <4>2. DOMAIN a.log = 1 .. Len(a.log) /\ DOMAIN b.log = 1 .. Len(b.log)
          BY <4>1, LenProperties
        <4>3. QED
          BY <2>2, <4>1, <4>2 DEF Filters, Collectors, IntoOctets, InPlace
      <3>2. a.out = [k \in 1 .. Len(a.log) |-> Put(a.log[k].value)]
        BY <1>3, <3>1 DEF Gains
      <3>3. Gains(b) = [k \in 1 .. Len(b.log) |-> Put(b.log[k].value)]
        BY <1>2, <3>1 DEF Gains
      <3>4. Kept(a, v) = Append(a.out, Put(v)) /\ Put(v) \in Int
        <4>1. v \in Int
          <5>1. a.op \notin Searches \cup Filters \cup {"foldlstop", "concatMap"} /\ a.op \in Operations
            BY <2>2 DEF Searches, Filters, Collectors, IntoOctets, InPlace, Calls
          <5>2. QED
            BY <5>1, ResultKinds, ListsAssumption
        <4>2. Put(v) \in Int
          BY <4>1, OctetType DEF Octets
        <4>3. a.op \in IntoOctets => Kept(a, v) = Append(a.out, Octet(v))
          BY DEF Kept, IntoOctets, Collectors, Filters, InPlace
        <4>4. a.op \notin IntoOctets => Kept(a, v) = Append(a.out, v)
          BY <2>2 DEF Kept, IntoOctets, Collectors, Filters, InPlace
        <4>5. QED
          BY <4>2, <4>3, <4>4
      <3> HIDE DEF Put
      <3>5. \A k \in 1 .. Len(b.log) : Put(b.log[k].value) = IF k <= Len(a.log) THEN a.out[k] ELSE Put(v)
        BY <1>4, <3>2
      <3>6. Len(a.out) = Len(a.log)
        BY <1>4, <3>1, <3>2, LenProperties
      <3> DEFINE t == Append(a.out, Put(v))
      <3>7. t \in Seq(Int) /\ Len(t) = Len(b.log) /\ DOMAIN t = 1 .. Len(b.log)
            /\ \A k \in 1 .. Len(b.log) : t[k] = IF k <= Len(a.log) THEN a.out[k] ELSE Put(v)
        <4>1. /\ t \in Seq(Int) /\ Len(t) = Len(a.out) + 1 /\ t[Len(a.out) + 1] = Put(v)
              /\ \A k \in 1 .. Len(a.out) : t[k] = a.out[k]
          BY <3>1, <3>4, AppendProperties
        <4> HIDE DEF t
        <4>2. DOMAIN t = 1 .. Len(t)
          BY <4>1, LenProperties
        <4>3. QED
          BY <1>4, <3>6, <4>1, <4>2
      <3> HIDE DEF t
      <3>8. t = [k \in 1 .. Len(b.log) |-> t[k]]
        BY <3>7
      <3>9. [k \in 1 .. Len(b.log) |-> t[k]] = [k \in 1 .. Len(b.log) |-> Put(b.log[k].value)]
        BY <3>5, <3>7
      <3>10. QED
        BY <1>2, <3>3, <3>4, <3>8, <3>9 DEF t
    <2>3. QED
      BY <1>2, <2>1, <2>2
  <1>8. QED
    BY <1>2, <1>6, <1>7

LEMMA TakenFolds ==
  ASSUME NEW a \in Calls, NEW v \in Results(a.op), NEW b \in Calls, TakenAs(a, v, b),
         Progress(a), Folds(a), a.running
  PROVE  Folds(b)
  <1> DEFINE n == Len(a.log)
  <1>1. SUFFICES ASSUME b.op \in Accumulating PROVE Folds(b)
    BY DEF Folds
  <1>2. /\ a.op \in Accumulating /\ b.op = a.op /\ b.running = FALSE /\ b.list = a.list /\ b.initial = a.initial
        /\ b.stopped = Stops(a.op, v) /\ b.slot = Slot(a, v) /\ b.good = Good(a, v)
        /\ b.i = IF b.stopped THEN a.i ELSE a.i + 1
        /\ Skipped(b) = Skipped(a)
    BY <1>1, TakenSize DEF TakenAs
  <1>3. /\ a.op # "reduce" => a.initial \in Ints
        /\ \A k \in 1 .. n : a.log[k].args = <<a.list[k + Skipped(a)], Accumulated(a, k - 1)>>
        /\ a.args = <<a.list[a.i], Accumulated(a, n)>>
        /\ a.op = "foldlstop" => a.good = Accumulated(a, n - IF a.stopped THEN 1 ELSE 0)
    BY <1>2 DEF Folds
  <1>4. a.stopped = FALSE /\ ~a.refused /\ a.i \in Nat /\ a.op \in Operations
    BY <1>2 DEF Progress, Calls, PassOne, Accumulating
  <1>5. Logged(a, v, b)
    BY <1>4, TakenLog
  <1>6. n \in Nat /\ Len(b.log) = n + 1 /\ b.log[n + 1].value = v /\ b.log[n + 1].args = a.args
        /\ b.log # << >> /\ Last(b.log).value = v /\ \A k \in 1 .. n : b.log[k] = a.log[k]
    BY <1>5 DEF Logged
  <1>7. Skipped(a) \in {0, 1} /\ a.i = n + 1 + Skipped(a)
    <2>1. Skipped(a) \in {0, 1}
      BY DEF Skipped
    <2>2. QED
      BY <1>4, <1>6, <2>1 DEF Progress
  <1>8. \A k \in 0 .. n : Accumulated(b, k) = Accumulated(a, k)
    <2>1. FirstOf(b) = FirstOf(a)
      BY <1>2 DEF FirstOf
    <2>2. \A k \in 1 .. n : AfterRun(b, k) = AfterRun(a, k)
      BY <1>2, <1>6 DEF AfterRun
    <2>3. QED
      BY <1>6, <2>1, <2>2 DEF Accumulated
  <1>9. b.stopped <=> b.op = "foldlstop" /\ b.log # << >> /\ Last(b.log).value = Nothing
    <2>1. Stops(a.op, v) <=> a.op = "foldlstop" /\ v = Nothing
      BY <1>2 DEF Stops, Searches, Accumulating
    <2>2. QED
      BY <1>2, <1>6, <2>1
  <1>10. Accumulated(b, n + 1) = IF a.op = "foldlstop" THEN v[1] ELSE v
    BY <1>2, <1>6 DEF Accumulated, AfterRun
  <1>11. ~b.stopped => Accumulated(b, n + 1) \in Ints /\ b.slot = Accumulated(b, n + 1)
    <2>1. CASE a.op = "foldlstop"
      BY <1>2, <1>4, <1>6, <1>9, <1>10, <2>1, ResultKinds DEF Slot
    <2>2. CASE a.op # "foldlstop"
      <3>1. v \in Ints
        BY <1>2, <1>4, <2>2, ResultKinds DEF Accumulating, Searches, Filters
      <3>2. b.slot = v
        BY <1>2, <2>2 DEF Slot
      <3>3. QED
        BY <1>10, <2>2, <3>1, <3>2
    <2>3. QED
      BY <2>1, <2>2
  <1>12. b.op = "foldlstop" => b.good = Accumulated(b, Len(b.log) - IF b.stopped THEN 1 ELSE 0)
    <2>1. SUFFICES ASSUME b.op = "foldlstop" PROVE b.good = Accumulated(b, Len(b.log) - IF b.stopped THEN 1 ELSE 0)
      OBVIOUS
    <2>2. CASE b.stopped
      <3>1. v = Nothing /\ b.good = a.good
        BY <1>2, <1>6, <1>9, <2>2 DEF Good
      <3>2. a.good = Accumulated(a, n)
        <4>1. n - (IF a.stopped THEN 1 ELSE 0) = n
          <5>1. ~a.stopped
            BY <1>4
          <5>2. QED
            BY <1>6, <5>1
        <4>2. QED
          BY <1>2, <1>3, <2>1, <4>1
      <3>3. Len(b.log) - (IF b.stopped THEN 1 ELSE 0) = n /\ n \in 0 .. n
        BY <1>6, <2>2
      <3>4. QED
        BY <1>8, <3>1, <3>2, <3>3
    <2>3. CASE ~b.stopped
      <3>1. v # Nothing /\ b.good = v[1]
        BY <1>2, <1>6, <1>9, <2>1, <2>3 DEF Good
      <3>2. Len(b.log) - (IF b.stopped THEN 1 ELSE 0) = n + 1
        BY <1>6, <2>3
      <3>3. QED
        BY <1>2, <1>10, <2>1, <3>1, <3>2
    <2>4. QED
      BY <2>2, <2>3
  <1>13. ASSUME NEW k \in 1 .. Len(b.log)
         PROVE  b.log[k].args = <<b.list[k + Skipped(b)], Accumulated(b, k - 1)>>
    <2>1. k - 1 \in 0 .. n
      BY <1>6
    <2>2. Accumulated(b, k - 1) = Accumulated(a, k - 1)
      BY <1>8, <2>1
    <2>3. CASE k \in 1 .. n
      BY <1>2, <1>3, <1>6, <2>2, <2>3
    <2>4. CASE k = n + 1
      <3>1. a.i = k + Skipped(a) /\ k - 1 = n
        BY <1>6, <1>7, <2>4
      <3>2. QED
        BY <1>2, <1>3, <1>6, <2>2, <2>4, <3>1
    <2>5. QED
      BY <1>6, <2>3, <2>4
  <1> HIDE DEF n
  <1>14. QED
    BY <1>2, <1>3, <1>6, <1>9, <1>11, <1>12, <1>13 DEF Folds

(* What holds of a call still does when the value of a run has been taken.  *)
LEMMA TakenCalling ==
  ASSUME NEW a \in Calls, NEW v \in Results(a.op), NEW b \in Calls, TakenAs(a, v, b),
         Calling(a), a.running
  PROVE  Calling(b)
  BY TakenProgress, TakenMaps, TakenFolds, TakenSearch DEF Calling

-----------------------------------------------------------------------------
(* Short sequences put together.                                            *)
LEMMA Tuples ==
  ASSUME NEW x \in Int, NEW y \in Int, NEW z \in Int
  PROVE  /\ << >> \o <<x>> \o << >> = <<x>> /\ <<x>> \in Seq(Int) /\ Last(<<x>>) = x
         /\ << >> \o <<x, y>> \o << >> = <<x, y>> /\ <<x, y>> \in Seq(Int) /\ Last(<<x, y>>) = y
         /\ << >> \o <<x>> \o <<y>> = <<x, y>> /\ <<x>> \o <<y>> \o << >> = <<x, y>>
         /\ <<x, y>> \o <<z>> \o << >> = <<x, y, z>> /\ <<x, y, z>> \in Seq(Int) /\ Last(<<x, y, z>>) = z
  <1>1. <<x>> \in Seq(Int) /\ <<x, y>> \in Seq(Int) /\ <<x, y, z>> \in Seq(Int)
    OBVIOUS
  <1>2. Last(<<x>>) = x /\ Last(<<x, y>>) = y /\ Last(<<x, y, z>>) = z
    BY DEF Last
  <1>3. \A s \in Seq(Int) : << >> \o s = s /\ s \o << >> = s
    BY ConcatEmptySeq
  <1>4. <<x>> \o <<y>> = <<x, y>> /\ <<x, y>> \o <<z>> = <<x, y, z>>
    <2>1. Append(<<x>>, y) = <<x, y>> /\ Append(<<x, y>>, z) = <<x, y, z>>
      <3>1. /\ Len(<<x>>) = 1 /\ <<x>>[1] = x
            /\ Len(<<x, y>>) = 2 /\ <<x, y>>[1] = x /\ <<x, y>>[2] = y
            /\ Len(<<x, y, z>>) = 3 /\ <<x, y, z>>[1] = x /\ <<x, y, z>>[2] = y /\ <<x, y, z>>[3] = z
        OBVIOUS
      <3> DEFINE s == <<x>>
                 t == <<x, y>>
                 u == <<x, y, z>>
      <3>2. s \in Seq(Int) /\ t \in Seq(Int) /\ u \in Seq(Int)
        BY <1>1
      <3>3. /\ Len(s) = 1 /\ s[1] = x /\ Len(t) = 2 /\ t[1] = x /\ t[2] = y
            /\ Len(u) = 3 /\ u[1] = x /\ u[2] = y /\ u[3] = z
        BY <3>1
      <3> HIDE DEF s, t, u
      <3>4. /\ Append(s, y) \in Seq(Int) /\ Len(Append(s, y)) = 2 /\ Append(s, y)[1] = x /\ Append(s, y)[2] = y
            /\ Append(t, z) \in Seq(Int) /\ Len(Append(t, z)) = 3 /\ Append(t, z)[1] = x
            /\ Append(t, z)[2] = y /\ Append(t, z)[3] = z
        <4>1. /\ Append(s, y) \in Seq(Int) /\ Len(Append(s, y)) = Len(s) + 1
              /\ Append(s, y)[Len(s) + 1] = y /\ \A k \in 1 .. Len(s) : Append(s, y)[k] = s[k]
          BY <3>2, AppendProperties
        <4>2. /\ Append(t, z) \in Seq(Int) /\ Len(Append(t, z)) = Len(t) + 1
              /\ Append(t, z)[Len(t) + 1] = z /\ \A k \in 1 .. Len(t) : Append(t, z)[k] = t[k]
          BY <3>2, AppendProperties
        <4>3. QED
          BY <3>3, <4>1, <4>2
      <3>5. Append(s, y) = t
        <4>1. \A k \in 1 .. 2 : Append(s, y)[k] = t[k]
          BY <3>3, <3>4
        <4>2. QED
          BY <3>2, <3>3, <3>4, <4>1, SeqEqual
      <3>6. Append(t, z) = u
        <4>1. \A k \in 1 .. 3 : Append(t, z)[k] = u[k]
          BY <3>3, <3>4
        <4>2. QED
          BY <3>2, <3>3, <3>4, <4>1, SeqEqual
      <3>7. QED
        BY <3>5, <3>6 DEF s, t, u
    <2>2. \A s \in Seq(Int), e \in Int : Append(s, e) = s \o <<e>>
      BY AppendIsConcat
    <2>3. QED
      BY <1>1, <2>1, <2>2
  <1>5. QED
    BY <1>1, <1>2, <1>3, <1>4

LEMMA TuplesOfOne ==
  ASSUME NEW x \in Int
  PROVE  << >> \o <<x>> \o << >> = <<x>> /\ <<x>> \in Seq(Int) /\ Last(<<x>>) = x
  BY Tuples

LEMMA TuplesOfTwo ==
  ASSUME NEW x \in Int, NEW y \in Int
  PROVE  /\ << >> \o <<x, y>> \o << >> = <<x, y>> /\ <<x, y>> \in Seq(Int) /\ Last(<<x, y>>) = y
         /\ << >> \o <<x>> \o <<y>> = <<x, y>> /\ <<x>> \o <<y>> \o << >> = <<x, y>>
  BY Tuples

\* The blob of a call, as the loop in it may read it.
Reads(a) ==
  a.op \in BlobFunctions =>
    /\ Len(blobs[a.blob]) = Len(a.was)
    /\ Undisturbed(a) => Holds(a, blobs[a.blob])

(* The count of list.c and blob.c is the size at the moment of the call.    *)
LEMMA CountIsSize ==
  ASSUME NEW a \in Calls, Reads(a)
  PROVE  Count(a) = Size(a)
  BY DEF Reads, Count, Size

\* The arguments the next run is given: the item, and what goes with it.
Item(a) == IF a.op \in BlobFunctions THEN blobs[a.blob][a.i] ELSE a.list[a.i]

LEMMA ItemType ==
  ASSUME NEW a \in Calls, blobs \in [Blobs -> Seq(Octets)], Progress(a), Reads(a), a.i <= Size(a)
  PROVE  /\ Item(a) \in Int
         /\ a.op = "map2" => a.other[a.i] \in Int /\ Items(a) = <<a.list[a.i], a.other[a.i]>>
         /\ a.op # "map2" => Items(a) = <<Item(a)>>
  <1>1. a.op \in Operations /\ a.list \in Seq(Ints) /\ a.other \in Seq(Ints) /\ a.was \in Seq(Octets) /\ a.i \in Nat
    BY DEF Calls
  <1>2. Len(a.list) \in Nat /\ Len(a.other) \in Nat /\ Len(a.was) \in Nat
    BY <1>1, LenProperties
  <1>3. a.i \in 1 .. Size(a)
    <2>1. a.i >= 1
      BY <1>1 DEF Progress, Skipped
    <2>2. Size(a) \in Nat
      BY <1>2 DEF Size
    <2>3. QED
      BY <1>1, <2>1, <2>2
  <1>4. CASE a.op \in BlobFunctions
    <2>1. a.blob \in Blobs /\ blobs[a.blob] \in Seq(Octets) /\ a.i \in 1 .. Len(blobs[a.blob])
      <3>1. a.blob \in Blobs /\ Len(blobs[a.blob]) = Len(a.was)
        BY <1>4 DEF Progress, Reads
      <3>2. Size(a) = Len(a.was)
        BY <1>4 DEF Size, BlobFunctions, PassOne, InTwoDimensions, Indexed, InPlace
      <3>3. QED
        BY <1>3, <3>1, <3>2
    <2>2. blobs[a.blob][a.i] \in Octets
      BY <2>1, ElementOfSeq
    <2>3. blobs[a.blob][a.i] \in Int
      BY <2>2, BlobsAssumption DEF Octets
    <2>4. a.op # "map2"
      BY <1>4 DEF BlobFunctions, PassOne, InTwoDimensions, Indexed, InPlace
    <2>5. Items(a) = <<blobs[a.blob][a.i]>>
      BY <1>4 DEF Items, BlobFunctions, PassOne, InTwoDimensions, Indexed, InPlace
    <2>6. QED
      BY <1>4, <2>3, <2>4, <2>5 DEF Item
  <1>5. CASE a.op = "map2"
    <2>1. a.op \notin BlobFunctions
      BY <1>5 DEF BlobFunctions, PassOne, InTwoDimensions, Indexed, InPlace
    <2>2. Size(a) = IF Len(a.other) < Len(a.list) THEN Len(a.other) ELSE Len(a.list)
      BY <1>5, <2>1 DEF Size
    <2>3. a.i \in 1 .. Len(a.list) /\ a.i \in 1 .. Len(a.other)
      BY <1>2, <1>3, <2>2
    <2>4. a.list[a.i] \in Ints /\ a.other[a.i] \in Ints
      BY <1>1, <2>3, ElementOfSeq
    <2>5. Items(a) = <<a.list[a.i], a.other[a.i]>>
      BY <1>5 DEF Items, BlobFunctions, PassOne, InTwoDimensions, Indexed, InPlace
    <2>6. QED
      BY <1>5, <2>1, <2>4, <2>5, ListsAssumption DEF Item
  <1>6. CASE a.op \notin BlobFunctions \cup {"map2"}
    <2>1. Size(a) = Len(a.list)
      BY <1>6 DEF Size
    <2>2. a.list[a.i] \in Ints
      BY <1>1, <1>3, <2>1, ElementOfSeq
    <2>3. Items(a) = <<a.list[a.i]>>
      BY <1>6 DEF Items
    <2>4. QED
      BY <1>6, <2>2, <2>3, ListsAssumption DEF Item
  <1>7. QED
    BY <1>4, <1>5, <1>6

(* The accumulator a run of a fold is given is what the run before returned. *)
LEMMA AccumulatorIs ==
  ASSUME NEW a \in Calls, Progress(a), Folds(a), a.op \in Accumulating, ~a.running, ~a.stopped, a.i <= Size(a)
  PROVE  /\ Accumulator(a) = <<Accumulated(a, Len(a.log))>>
         /\ Accumulated(a, Len(a.log)) \in Int
  <1>1. a.op \notin BlobFunctions /\ a.op # "map2" /\ a.op \in Operations /\ a.i \in Nat /\ a.list \in Seq(Ints)
        /\ a.log \in Seq(LogEntries) /\ ~a.refused
    BY DEF Accumulating, BlobFunctions, PassOne, InTwoDimensions, Indexed, InPlace, Calls, Progress
  <1>2. Size(a) = Len(a.list) /\ Len(a.list) \in Nat /\ Len(a.log) \in Nat
    BY <1>1, LenProperties DEF Size
  <1>3. Accumulated(a, Len(a.log)) \in Int
    BY ListsAssumption DEF Folds
  <1>4. Accumulator(a) = <<IF a.op = "foldl" /\ a.i = 1 THEN a.initial ELSE a.slot>>
    BY DEF Accumulator
  <1>5. CASE a.op = "foldl" /\ a.i = 1
    <2>1. Skipped(a) = 0
      BY <1>5 DEF Skipped
    <2>2. Len(a.log) = 0
      BY <1>1, <1>2, <1>5, <2>1 DEF Progress
    <2>3. Accumulated(a, Len(a.log)) = a.initial
      BY <1>5, <2>2 DEF Accumulated, FirstOf
    <2>4. QED
      BY <1>3, <1>4, <1>5, <2>3
  <1>6. CASE ~(a.op = "foldl" /\ a.i = 1)
    <2>1. a.i >= 1
      BY <1>1 DEF Progress, Skipped
    <2>2. a.op = "foldl" => a.i > 1
      BY <1>1, <1>6, <2>1
    <2>3. a.slot = Accumulated(a, Len(a.log))
      BY <2>2 DEF Folds
    <2>4. QED
      BY <1>3, <1>4, <1>6, <2>3
  <1>7. QED
    BY <1>5, <1>6

(* What a run is given, by the kind of function.                            *)
LEMMA ArgumentsAre ==
  ASSUME NEW a \in Calls, blobs \in [Blobs -> Seq(Octets)], Progress(a), Folds(a), Reads(a),
         ~a.running, ~a.stopped, a.i <= Size(a)
  PROVE  LET args == Place(a) \o Items(a) \o Accumulator(a)
         IN /\ args \in Seq(Int)
            /\ a.op \in Collectors \cup Filters => Handed(a, a.i, args)
            /\ a.op \in Accumulating => args = <<a.list[a.i], Accumulated(a, Len(a.log))>>
            /\ a.op = "find" => args = <<a.list[a.i]>>
  <1> DEFINE args == Place(a) \o Items(a) \o Accumulator(a)
             item == Item(a)
             index == a.i - 1
  <1>1. /\ item \in Int
        /\ a.op = "map2" => a.other[a.i] \in Int /\ Items(a) = <<a.list[a.i], a.other[a.i]>>
        /\ a.op # "map2" => Items(a) = <<item>>
    BY ItemType
  <1>2. a.op \in Operations /\ a.width \in Int /\ a.i \in Nat /\ index \in Nat
    <2>1. a.i \in Nat /\ a.i >= 1
      BY DEF Calls, Progress, Skipped
    <2>2. QED
      BY <2>1 DEF Calls
  <1>3. a.op \notin BlobFunctions => item = a.list[a.i]
    BY DEF Item
  <1>4. a.op \notin Accumulating => Accumulator(a) = << >>
    BY DEF Accumulator
  <1>5. a.op \in Collectors \cup Filters /\ a.op # "map2" /\ Undisturbed(a) => item = Source(a)[a.i]
    <2>1. SUFFICES ASSUME a.op # "map2", Undisturbed(a) PROVE item = Source(a)[a.i]
      OBVIOUS
    <2>2. CASE a.op \in BlobFunctions
      <3>1. a.i \in 1 .. Len(a.was)
        <4>1. Size(a) = Len(a.was)
          BY <2>2 DEF Size, BlobFunctions, PassOne, InTwoDimensions, Indexed, InPlace
        <4>2. a.i \in 1 + Skipped(a) .. Size(a) + 1 /\ Len(a.was) \in Nat /\ Skipped(a) \in {0, 1}
          BY LenProperties DEF Progress, Calls, Skipped
        <4>3. QED
          BY <1>2, <4>1, <4>2
      <3>2. Holds(a, blobs[a.blob])
        BY <2>1, <2>2 DEF Reads
      <3>3. blobs[a.blob][a.i] = a.was[a.i]
        BY <1>2, <3>1, <3>2 DEF Holds
      <3>4. Source(a) = a.was
        BY <2>2 DEF Source, BlobFunctions, PassOne, InTwoDimensions, Indexed, InPlace
      <3>5. QED
        BY <2>2, <3>3, <3>4 DEF Item
    <2>3. CASE a.op \notin BlobFunctions
      <3>1. Source(a) = a.list
        BY <2>1, <2>3 DEF Source
      <3>2. QED
        BY <1>3, <2>3, <3>1
    <2>4. QED
      BY <2>2, <2>3
  <1> HIDE DEF item
  <1>6. CASE a.op \in Accumulating
    <2> DEFINE acc == Accumulated(a, Len(a.log))
    <2>1. Accumulator(a) = <<acc>> /\ acc \in Int
      BY <1>6, AccumulatorIs
    <2>2. a.op \notin Indexed /\ a.op \notin InTwoDimensions /\ a.op # "map2" /\ a.op \notin BlobFunctions
          /\ a.op \notin Collectors \cup Filters /\ a.op # "find"
      BY <1>6 DEF Accumulating, BlobFunctions, PassOne, InTwoDimensions, Indexed, InPlace, Collectors, Filters,
                  IntoOctets
    <2>3. Place(a) = << >>
      BY <2>2 DEF Place
    <2> HIDE DEF acc
    <2>4. args = <<item, acc>> /\ args \in Seq(Int)
      <3>1. args = << >> \o <<item>> \o <<acc>>
        BY <1>1, <2>1, <2>2, <2>3
      <3>2. << >> \o <<item>> \o <<acc>> = <<item, acc>> /\ <<item, acc>> \in Seq(Int)
        BY <1>1, <2>1, TuplesOfTwo
      <3>3. QED
        BY <3>1, <3>2, Zenon
    <2>5. QED
      BY <1>3, <2>2, <2>4 DEF acc
  <1>7. CASE a.op \in Indexed
    <2>1. a.op \notin Accumulating /\ a.op \notin InTwoDimensions /\ a.op # "map2" /\ a.op # "find"
      BY <1>7 DEF Accumulating, InTwoDimensions, Indexed, InPlace
    <2>2. Place(a) = <<index>>
      BY <1>7, <2>1 DEF Place
    <2>3. args = <<index, item>> /\ args \in Seq(Int) /\ Last(args) = item
      <3>1. args = <<index>> \o <<item>> \o << >>
        BY <1>1, <1>4, <2>1, <2>2
      <3>2. index \in Int
        BY <1>2
      <3>3. <<index>> \o <<item>> \o << >> = <<index, item>> /\ <<index, item>> \in Seq(Int)
            /\ Last(<<index, item>>) = item
        BY <1>1, <3>2, TuplesOfTwo, Zenon
      <3>4. QED
        BY <3>1, <3>3, Zenon
    <2>4. PlaceIs(a, a.i, args)
      <3>1. args[1] = index
        BY <2>3
      <3>2. QED
        BY <1>7, <2>1, <3>1 DEF PlaceIs
    <2>5. QED
      BY <1>5, <2>1, <2>3, <2>4 DEF Handed
  <1>8. CASE a.op \in InTwoDimensions
    <2>1. a.op \notin Accumulating /\ a.op \notin Indexed /\ a.op # "map2" /\ a.op # "find"
      BY <1>8 DEF Accumulating, InTwoDimensions, Indexed, InPlace
    <2>2. PICK x \in Int, y \in Int :
            /\ Place(a) = <<x, y>>
            /\ a.width > 0 => (y * a.width) + x = a.i - 1 /\ x \in 0 .. a.width - 1
      <3>1. CASE a.width > 0
        <4>1. Place(a) = <<index % a.width, index \div a.width>>
          BY <1>8, <2>1, <3>1 DEF Place
        <4>2. /\ index \div a.width \in Int /\ index % a.width \in 0 .. a.width - 1
              /\ ((index \div a.width) * a.width) + (index % a.width) = index
          <5>1. index \in Nat /\ a.width \in Nat \ {0}
            BY <1>2, <3>1
          <5> DEFINE w == a.width
          <5> HIDE DEF index, w
          <5>2. index \in Nat /\ w \in Nat \ {0}
            BY <5>1 DEF w
          <5>3. /\ index \div w \in Int /\ index % w \in 0 .. w - 1
                /\ ((index \div w) * w) + (index % w) = index
            BY <5>2, Divides
          <5>4. QED
            BY <5>3 DEF w
        <4>3. index % a.width \in Int
          BY <1>2, <4>2
        <4>4. QED
          BY <4>1, <4>2, <4>3
      <3>2. CASE ~(a.width > 0)
        <4>1. Place(a) = <<index, 0>>
          BY <1>8, <2>1, <3>2 DEF Place
        <4>2. index \in Int /\ 0 \in Int
          BY <1>2
        <4>3. QED
          BY <3>2, <4>1, <4>2
      <3>3. QED
        BY <3>1, <3>2
    <2>3. args = <<x, y, item>> /\ args \in Seq(Int) /\ Last(args) = item
      <3>1. args = <<x, y>> \o <<item>> \o << >>
        BY <1>1, <1>4, <2>1, <2>2
      <3>2. <<x, y>> \o <<item>> \o << >> = <<x, y, item>> /\ <<x, y, item>> \in Seq(Int)
            /\ Last(<<x, y, item>>) = item
        BY <1>1, <2>2, Tuples
      <3>3. QED
        BY <3>1, <3>2, Zenon
    <2>4. PlaceIs(a, a.i, args)
      <3>1. args[1] = x /\ args[2] = y
        BY <2>3
      <3>2. QED
        BY <1>8, <2>1, <2>2, <3>1 DEF PlaceIs
    <2>5. QED
      BY <1>5, <2>1, <2>3, <2>4 DEF Handed
  <1>9. CASE a.op \notin Accumulating \cup Indexed \cup InTwoDimensions
    <2>1. Place(a) = << >> /\ PlaceIs(a, a.i, args)
      BY <1>9 DEF Place, PlaceIs
    <2>2. CASE a.op = "map2"
      <3> DEFINE l == a.list[a.i]
                 o == a.other[a.i]
      <3>1. l \in Int /\ o \in Int /\ Items(a) = <<l, o>>
        <4>1. a.op \notin BlobFunctions
          BY <2>2 DEF BlobFunctions, PassOne, InTwoDimensions, Indexed, InPlace
        <4>2. QED
          BY <1>1, <1>3, <2>2, <4>1
      <3> HIDE DEF l, o
      <3>2. args = << >> \o <<l, o>> \o << >>
        BY <1>4, <1>9, <2>1, <3>1
      <3>3. args = <<l, o>> /\ args \in Seq(Int)
        <4>1. << >> \o <<l, o>> \o << >> = <<l, o>> /\ <<l, o>> \in Seq(Int)
          BY <3>1, TuplesOfTwo
        <4>2. QED
          BY <3>2, <4>1, Zenon
      <3>4. Handed(a, a.i, args)
        BY <2>1, <2>2, <3>3 DEF Handed, l, o
      <3>5. QED
        BY <1>9, <2>2, <3>3, <3>4
    <2>3. CASE a.op # "map2"
      <3>1. args = << >> \o <<item>> \o << >>
        BY <1>1, <1>4, <1>9, <2>1, <2>3
      <3>2. args = <<item>> /\ args \in Seq(Int) /\ Last(args) = item
        <4>1. << >> \o <<item>> \o << >> = <<item>> /\ <<item>> \in Seq(Int) /\ Last(<<item>>) = item
          BY <1>1, TuplesOfOne
        <4>2. QED
          BY <3>1, <4>1, Zenon
      <3>3. a.op \in Collectors \cup Filters => Handed(a, a.i, args)
        BY <1>5, <2>1, <2>3, <3>2 DEF Handed
      <3>4. a.op = "find" => args = <<a.list[a.i]>>
        BY <1>3, <3>2 DEF BlobFunctions, PassOne, InTwoDimensions, Indexed, InPlace
      <3>5. QED
        BY <1>9, <3>2, <3>3, <3>4
    <2>4. QED
      BY <2>2, <2>3
  <1>10. QED
    BY <1>6, <1>7, <1>8, <1>9

\* b is the call a with the next run started.
StartedAs(a, b, args) ==
  /\ b.op = a.op /\ b.list = a.list /\ b.other = a.other /\ b.blob = a.blob /\ b.width = a.width
  /\ b.initial = a.initial /\ b.refused = a.refused /\ b.was = a.was /\ b.during = a.during
  /\ b.stopped = a.stopped /\ b.i = a.i /\ b.slot = a.slot /\ b.good = a.good /\ b.out = a.out /\ b.log = a.log
  /\ b.running = TRUE /\ b.args = args

LEMMA StartedFields ==
  ASSUME NEW a \in Calls, NEW args \in Seq(Int)
  PROVE  LET b == [a EXCEPT !.running = TRUE, !.args = args]
         IN b \in Calls /\ StartedAs(a, b, args) /\ b.count = a.count /\ b.max = a.max
  <1> DEFINE b == [a EXCEPT !.running = TRUE, !.args = args]
  <1>1. b \in Calls
    BY DEF Calls
  <1>2. /\ b.op = a.op /\ b.list = a.list /\ b.other = a.other /\ b.blob = a.blob /\ b.width = a.width
        /\ b.initial = a.initial /\ b.refused = a.refused /\ b.was = a.was /\ b.during = a.during
        /\ b.stopped = a.stopped /\ b.i = a.i /\ b.slot = a.slot /\ b.good = a.good /\ b.out = a.out
        /\ b.log = a.log /\ b.running = TRUE /\ b.args = args /\ b.count = a.count /\ b.max = a.max
    BY DEF Calls
  <1> HIDE DEF b
  <1>3. QED
    BY <1>1, <1>2 DEF StartedAs, b

LEMMA StartedCalling ==
  ASSUME NEW a \in Calls, NEW b \in Calls, NEW args, StartedAs(a, b, args), Calling(a), ~a.stopped, a.i <= Size(a),
         a.op \in Collectors \cup Filters => Handed(a, a.i, args),
         a.op \in Accumulating => args = <<a.list[a.i], Accumulated(a, Len(a.log))>>,
         a.op = "find" => args = <<a.list[a.i]>>
  PROVE  Calling(b)
  <1>1. /\ b.op = a.op /\ b.list = a.list /\ b.other = a.other /\ b.blob = a.blob /\ b.width = a.width
        /\ b.initial = a.initial /\ b.refused = a.refused /\ b.was = a.was /\ b.during = a.during
        /\ b.stopped = a.stopped /\ b.i = a.i /\ b.slot = a.slot /\ b.good = a.good /\ b.out = a.out
        /\ b.log = a.log /\ b.running = TRUE /\ b.args = args
    BY DEF StartedAs
  <1>2. Size(b) = Size(a) /\ Skipped(b) = Skipped(a)
    BY <1>1 DEF Size, Skipped
  <1>3. Progress(b)
    BY <1>1, <1>2 DEF Progress, Calling
  <1>4. \A k, x : Handed(a, k, x) => Handed(b, k, x)
    <2>1. ASSUME NEW k, NEW x PROVE PlaceIs(b, k, x) <=> PlaceIs(a, k, x)
      BY <1>1 DEF PlaceIs
    <2>2. Undisturbed(b) <=> Undisturbed(a)
      BY <1>1 DEF Undisturbed
    <2>3. Source(b) = Source(a)
      BY <1>1 DEF Source
    <2>4. QED
      BY <1>1, <2>1, <2>2, <2>3 DEF Handed
  <1>5. Maps(b)
    <2>1. SUFFICES ASSUME b.op \in Collectors \cup Filters, ~b.refused
                   PROVE  /\ \A k \in 1 .. Len(b.log) : Handed(b, k, b.log[k].args)
                          /\ b.running => Handed(b, b.i, b.args)
                          /\ b.out = Gains(b)
      BY DEF Maps
    <2>2. /\ \A k \in 1 .. Len(a.log) : Handed(a, k, a.log[k].args)
          /\ a.out = Gains(a)
      BY <1>1, <2>1 DEF Maps, Calling
    <2>3. Gains(b) = Gains(a)
      BY <1>1 DEF Gains, Values
    <2>4. QED
      BY <1>1, <1>4, <2>1, <2>2, <2>3
  <1>6. Folds(b)
    <2>1. \A k : Accumulated(b, k) = Accumulated(a, k)
      BY <1>1 DEF Accumulated, FirstOf, AfterRun
    <2>2. QED
      BY <1>1, <1>2, <2>1 DEF Folds, Calling
  <1>7. Search(b)
    BY <1>1 DEF Search, Calling
  <1>8. QED
    BY <1>3, <1>5, <1>6, <1>7 DEF Calling

\* b is the call a after another call, made by a run of its argument.
DisturbedAs(a, b) ==
  /\ b.op = a.op /\ b.list = a.list /\ b.other = a.other /\ b.blob = a.blob /\ b.width = a.width
  /\ b.initial = a.initial /\ b.refused = a.refused /\ b.was = a.was
  /\ b.stopped = a.stopped /\ b.i = a.i /\ b.slot = a.slot /\ b.good = a.good /\ b.out = a.out /\ b.log = a.log
  /\ b.running = a.running /\ b.args = a.args

Disturbed(a, e) == [a EXCEPT !.during = Append(@, e)]

LEMMA DisturbedFields ==
  ASSUME NEW a \in Calls, NEW e \in Nested
  PROVE  LET b == Disturbed(a, e)
         IN /\ b \in Calls /\ DisturbedAs(a, b) /\ b.count = a.count /\ b.max = a.max
            /\ b.during = Append(a.during, e)
            /\ Len(a.during) \in Nat /\ Len(b.during) = Len(a.during) + 1 /\ b.during[Len(a.during) + 1] = e
            /\ \A k \in 1 .. Len(a.during) : b.during[k] = a.during[k]
            /\ Undisturbed(b) => Undisturbed(a) /\ e # [op |-> InPlace, blob |-> a.blob]
  <1> DEFINE d == Append(a.during, e)
             b == [a EXCEPT !.during = d]
  <1>1. a.during \in Seq(Nested)
    BY DEF Calls
  <1>2. /\ d \in Seq(Nested) /\ Len(a.during) \in Nat /\ Len(d) = Len(a.during) + 1 /\ d[Len(a.during) + 1] = e
        /\ \A k \in 1 .. Len(a.during) : d[k] = a.during[k]
    BY <1>1, AppendProperties
  <1>3. Disturbed(a, e) = b
    BY DEF Calls, Disturbed
  <1> HIDE DEF d
  <1>4. b \in Calls
    BY <1>2 DEF Calls
  <1>5. /\ b.op = a.op /\ b.list = a.list /\ b.other = a.other /\ b.blob = a.blob /\ b.width = a.width
        /\ b.initial = a.initial /\ b.refused = a.refused /\ b.was = a.was
        /\ b.stopped = a.stopped /\ b.i = a.i /\ b.slot = a.slot /\ b.good = a.good /\ b.out = a.out
        /\ b.log = a.log /\ b.running = a.running /\ b.args = a.args
        /\ b.count = a.count /\ b.max = a.max /\ b.during = d
    BY DEF Calls
  <1> HIDE DEF b
  <1>6. Undisturbed(b) => Undisturbed(a) /\ e # [op |-> InPlace, blob |-> a.blob]
    <2> DEFINE w == [op |-> InPlace, blob |-> a.blob]
    <2>1. Undisturbed(b) <=> ~ \E k \in 1 .. Len(d) : d[k] = w
      BY <1>5 DEF Undisturbed, Contains
    <2>2. Undisturbed(a) <=> ~ \E k \in 1 .. Len(a.during) : a.during[k] = w
      BY DEF Undisturbed, Contains
    <2> HIDE DEF w
    <2>3. 1 .. Len(a.during) \subseteq 1 .. Len(d) /\ Len(a.during) + 1 \in 1 .. Len(d)
      BY <1>2
    <2>4. Undisturbed(b) => Undisturbed(a) /\ e # w
      BY <1>2, <2>1, <2>2, <2>3
    <2>5. QED
      BY <2>4 DEF w
  <1>7. QED
    BY <1>2, <1>3, <1>4, <1>5, <1>6 DEF d, DisturbedAs

LEMMA DisturbedCalling ==
  ASSUME NEW a \in Calls, NEW b \in Calls, DisturbedAs(a, b), Undisturbed(b) => Undisturbed(a), Calling(a)
  PROVE  Calling(b)
  <1>1. /\ b.op = a.op /\ b.list = a.list /\ b.other = a.other /\ b.blob = a.blob /\ b.width = a.width
        /\ b.initial = a.initial /\ b.refused = a.refused /\ b.was = a.was
        /\ b.stopped = a.stopped /\ b.i = a.i /\ b.slot = a.slot /\ b.good = a.good /\ b.out = a.out
        /\ b.log = a.log /\ b.running = a.running /\ b.args = a.args
    BY DEF DisturbedAs
  <1>2. Size(b) = Size(a) /\ Skipped(b) = Skipped(a)
    BY <1>1 DEF Size, Skipped
  <1>3. Progress(b)
    BY <1>1, <1>2 DEF Progress, Calling
  <1>4. \A k, x : Handed(a, k, x) => Handed(b, k, x)
    <2>1. ASSUME NEW k, NEW x PROVE PlaceIs(b, k, x) <=> PlaceIs(a, k, x)
      BY <1>1 DEF PlaceIs
    <2>2. Source(b) = Source(a)
      BY <1>1 DEF Source
    <2>3. QED
      BY <1>1, <2>1, <2>2 DEF Handed
  <1>5. Maps(b)
    <2>1. SUFFICES ASSUME b.op \in Collectors \cup Filters, ~b.refused
                   PROVE  /\ \A k \in 1 .. Len(b.log) : Handed(b, k, b.log[k].args)
                          /\ b.running => Handed(b, b.i, b.args)
                          /\ b.out = Gains(b)
      BY DEF Maps
    <2>2. /\ \A k \in 1 .. Len(a.log) : Handed(a, k, a.log[k].args)
          /\ a.running => Handed(a, a.i, a.args)
          /\ a.out = Gains(a)
      BY <1>1, <2>1 DEF Maps, Calling
    <2>3. Gains(b) = Gains(a)
      BY <1>1 DEF Gains, Values
    <2>4. QED
      BY <1>1, <1>4, <2>1, <2>2, <2>3
  <1>6. Folds(b)
    <2>1. \A k : Accumulated(b, k) = Accumulated(a, k)
      BY <1>1 DEF Accumulated, FirstOf, AfterRun
    <2>2. QED
      BY <1>1, <1>2, <2>1 DEF Folds, Calling
  <1>7. Search(b)
    BY <1>1 DEF Search, Calling
  <1>8. QED
    BY <1>3, <1>5, <1>6, <1>7 DEF Calling

\* What a call may begin with.
Beginning(op, list, other, blob, width, initial, refused) ==
  /\ op \in Operations /\ list \in Seq(Ints) /\ other \in Seq(Ints) /\ blob \in Blobs \cup {NoBlob} /\ width \in Int
  /\ initial \in Ints \cup {Unset} /\ refused \in BOOLEAN
  /\ op = "reduce" => list # << >>
  /\ op \in {"foldl", "foldlstop"} => initial \in Ints
  /\ op \in BlobFunctions => blob \in Blobs
  /\ refused => op \in PassOne

\* The slot a call begins with.
FirstSlot(op, list, initial) ==
  CASE op = "reduce" -> Head(list)
    [] op = "foldlstop" \/ (op = "foldl" /\ list = << >>) -> initial
    [] OTHER -> Unset

\* b is a call that has just begun.
BegunAs(b, op, list, other, blob, width, initial, refused) ==
  /\ b.op = op /\ b.list = list /\ b.other = other /\ b.blob = blob /\ b.width = width /\ b.initial = initial
  /\ b.refused = refused /\ b.i = (IF op = "reduce" THEN 2 ELSE 1) /\ b.running = FALSE /\ b.stopped = FALSE
  /\ b.slot = FirstSlot(op, list, initial)
  /\ b.good = initial /\ b.out = << >> /\ b.count = 0
  /\ b.was = (IF blob = NoBlob THEN << >> ELSE blobs[blob]) /\ b.log = << >> /\ b.during = << >>

LEMMA BegunFields ==
  ASSUME NEW op, NEW list, NEW other, NEW blob, NEW width, NEW initial, NEW refused,
         Beginning(op, list, other, blob, width, initial, refused), blobs \in [Blobs -> Seq(Octets)]
  PROVE  LET b == Call(op, list, other, blob, width, initial, refused)
         IN b \in Calls /\ BegunAs(b, op, list, other, blob, width, initial, refused) /\ b.max = 0
  <1> DEFINE slot == FirstSlot(op, list, initial)
             was == IF blob = NoBlob THEN << >> ELSE blobs[blob]
             i == IF op = "reduce" THEN 2 ELSE 1
             none == << >>
             b == [op |-> op, list |-> list, other |-> other, blob |-> blob, width |-> width,
                   initial |-> initial, refused |-> refused, i |-> i, running |-> FALSE, stopped |-> FALSE,
                   args |-> none, slot |-> slot, good |-> initial, out |-> none, count |-> 0, max |-> 0,
                   was |-> was, log |-> none, during |-> none]
  <1>1. Call(op, list, other, blob, width, initial, refused) = b
    BY DEF Call, FirstSlot
  <1>2. slot \in Slots /\ initial \in Slots
    <2>1. op = "reduce" => Head(list) \in Ints
      BY HeadTailProperties DEF Beginning
    <2>2. Ints \cup {Unset} \subseteq Slots
      BY DEF Slots
    <2>3. op = "reduce" => slot = Head(list)
      BY DEF FirstSlot
    <2>4. op # "reduce" => slot \in {initial, Unset}
      BY DEF FirstSlot
    <2>5. initial \in Ints \cup {Unset}
      BY DEF Beginning
    <2> HIDE DEF slot
    <2>6. QED
      BY <2>1, <2>2, <2>3, <2>4, <2>5
  <1>3. was \in Seq(Octets)
    BY EmptySeq DEF Beginning
  <1>4. none \in Seq(Int) /\ none \in Seq(LogEntries) /\ none \in Seq(Nested)
    BY EmptySeq
  <1>5. i \in Nat /\ 0 \in 0 .. TempCapacity /\ 0 \in Nat
    BY TempAssumption
  <1>6. /\ i = (IF op = "reduce" THEN 2 ELSE 1) /\ was = (IF blob = NoBlob THEN << >> ELSE blobs[blob])
        /\ none = << >> /\ slot = FirstSlot(op, list, initial)
    OBVIOUS
  <1>7. /\ op \in Operations /\ list \in Seq(Ints) /\ other \in Seq(Ints) /\ blob \in Blobs \cup {NoBlob}
        /\ width \in Int /\ initial \in Ints \cup {Unset} /\ refused \in BOOLEAN
    BY DEF Beginning
  <1> HIDE DEF slot, was, i, none
  <1>8. b \in Calls
    BY <1>2, <1>3, <1>4, <1>5, <1>7 DEF Calls
  <1>9. /\ b.op = op /\ b.list = list /\ b.other = other /\ b.blob = blob /\ b.width = width /\ b.initial = initial
        /\ b.refused = refused /\ b.i = i /\ b.running = FALSE /\ b.stopped = FALSE
        /\ b.slot = slot /\ b.good = initial /\ b.out = none /\ b.count = 0
        /\ b.was = was /\ b.log = none /\ b.during = none /\ b.max = 0
    OBVIOUS
  <1> HIDE DEF b
  <1>10. QED
    BY <1>1, <1>6, <1>8, <1>9 DEF BegunAs

LEMMA BegunCalling ==
  ASSUME NEW op, NEW list, NEW other, NEW blob, NEW width, NEW initial, NEW refused,
         Beginning(op, list, other, blob, width, initial, refused),
         NEW b \in Calls, BegunAs(b, op, list, other, blob, width, initial, refused)
  PROVE  Calling(b)
  <1>1. /\ b.op = op /\ b.list = list /\ b.blob = blob /\ b.initial = initial /\ b.refused = refused
        /\ b.i = (IF op = "reduce" THEN 2 ELSE 1) /\ b.running = FALSE /\ b.stopped = FALSE
        /\ b.slot = FirstSlot(op, list, initial)
        /\ b.good = initial /\ b.out = << >> /\ b.log = << >>
    BY DEF BegunAs
  <1>2. Len(b.log) = 0 /\ Len(b.out) = 0
    BY <1>1, EmptySeq
  <1>3. Progress(b)
    <2>1. Size(b) \in Nat /\ (op = "reduce" => Size(b) >= 1)
      <3>1. Size(b) \in Nat
        BY SizeType
      <3>2. op = "reduce" => Size(b) = Len(list)
        BY <1>1 DEF Size, BlobFunctions, PassOne, InTwoDimensions, Indexed, InPlace
      <3>3. op = "reduce" => Len(list) # 0
        BY EmptySeq DEF Beginning
      <3>4. QED
        BY <3>1, <3>2, <3>3
    <2>2. b.i = 1 + Skipped(b) /\ Skipped(b) \in {0, 1} /\ (op # "reduce" => Skipped(b) = 0)
      BY <1>1 DEF Skipped
    <2>3. b.i \in 1 + Skipped(b) .. Size(b) + 1
      BY <1>1, <2>1, <2>2
    <2>4. Len(b.log) = b.i - 1 - Skipped(b) + IF b.stopped THEN 1 ELSE 0
      BY <1>1, <1>2, <2>2
    <2>5. Len(b.out) < b.i
      BY <1>1, <1>2
    <2>6. (op \in BlobFunctions => blob \in Blobs) /\ (refused => op \in PassOne)
      BY DEF Beginning
    <2>7. \A k \in 1 .. Len(b.log) : b.log[k].value \in Results(b.op)
      BY <1>2
    <2>8. QED
      BY <1>1, <2>3, <2>4, <2>5, <2>6, <2>7 DEF Progress
  <1>4. Maps(b)
    <2>1. DOMAIN b.log = {}
      <3>1. << >> \in Seq(Int) /\ Len(<< >>) = 0
        BY EmptySeq
      <3>2. DOMAIN << >> = 1 .. 0
        BY <3>1, LenProperties
      <3>3. QED
        BY <1>1, <3>2
    <2>2. Values(b) = << >>
      BY <2>1 DEF Values
    <2>3. Gains(b) = << >>
      <3>1. FlattenSeq(<< >>) = << >>
        BY EmptySeq DEF FlattenSeq
      <3>2. [k \in DOMAIN b.log |-> IF b.op \in IntoOctets THEN Octet(b.log[k].value) ELSE b.log[k].value] = << >>
        BY <2>1
      <3>3. QED
        BY <2>2, <3>1, <3>2 DEF Gains
    <2>4. QED
      BY <1>1, <1>2, <2>3 DEF Maps
  <1>5. Folds(b)
    <2>1. SUFFICES ASSUME op \in Accumulating PROVE Folds(b)
      BY <1>1 DEF Folds
    <2>2. Accumulated(b, 0) = FirstOf(b)
      BY DEF Accumulated
    <2>3. FirstOf(b) \in Ints /\ (op # "reduce" => FirstOf(b) = initial /\ initial \in Ints)
      <3>1. op = "reduce" => Head(list) \in Ints
        BY HeadTailProperties DEF Beginning
      <3>2. op # "reduce" => initial \in Ints
        BY <2>1 DEF Beginning, Accumulating
      <3>3. QED
        BY <1>1, <3>1, <3>2 DEF FirstOf
    <2>4. (op = "foldl" => b.i > 1 \/ list = << >>) => b.slot = FirstOf(b)
      <3>1. CASE op = "reduce"
        BY <1>1, <3>1 DEF FirstOf, FirstSlot
      <3>2. CASE op = "foldlstop"
        BY <1>1, <3>2 DEF FirstOf, FirstSlot
      <3>3. CASE op = "foldl"
        <4>1. SUFFICES ASSUME list = << >> PROVE b.slot = FirstOf(b)
          BY <1>1, <3>3
        <4>2. b.slot = initial
          BY <1>1, <3>3, <4>1 DEF FirstSlot
        <4>3. QED
          BY <2>3, <3>3, <4>2
      <3>4. QED
        BY <2>1, <3>1, <3>2, <3>3 DEF Accumulating
    <2>5. Len(b.log) - (IF b.stopped THEN 1 ELSE 0) = 0
      BY <1>1, <1>2
    <2>6. op = "foldlstop" => b.good = FirstOf(b)
      BY <1>1, <2>3
    <2>7. \A k \in 1 .. Len(b.log) :
             b.log[k].args = <<b.list[k + Skipped(b)], Accumulated(b, k - 1)>>
      BY <1>2
    <2>8. QED
      BY <1>1, <1>2, <2>2, <2>3, <2>4, <2>5, <2>6, <2>7 DEF Folds
  <1>6. Search(b)
    BY <1>1, <1>2 DEF Search
  <1>7. QED
    BY <1>3, <1>4, <1>5, <1>6 DEF Calling

-----------------------------------------------------------------------------
(* The stack after a call, after a step of the innermost one, and after     *)
(* its return.                                                              *)
LEMMA Pushed ==
  ASSUME NEW s \in Seq(Calls), NEW b \in Calls
  PROVE  /\ Append(s, b) \in Seq(Calls) /\ Len(s) \in Nat /\ Len(Append(s, b)) = Len(s) + 1
         /\ Append(s, b)[Len(s) + 1] = b
         /\ \A k \in 1 .. Len(s) : Append(s, b)[k] = s[k]
  BY AppendProperties

LEMMA Topped ==
  ASSUME NEW s \in Seq(Calls), s # << >>, NEW b \in Calls
  PROVE  LET t == [s EXCEPT ![Len(s)] = b]
         IN /\ t \in Seq(Calls) /\ Len(s) \in Nat \ {0} /\ Len(t) = Len(s) /\ t[Len(s)] = b
            /\ \A k \in 1 .. Len(s) - 1 : t[k] = s[k]
            /\ Last(s) \in Calls /\ Last(s) = s[Len(s)]
  <1> DEFINE n == Len(s)
             t == [s EXCEPT ![n] = b]
  <1>1. n \in Nat \ {0}
    BY EmptySeq
  <1>2. n \in 1 .. n
    BY <1>1
  <1>3. t \in Seq(Calls) /\ Len(t) = n /\ \A k \in 1 .. n : t[k] = IF k = n THEN b ELSE s[k]
    BY <1>2, ExceptSeq
  <1>4. s[n] \in Calls /\ Last(s) = s[n]
    BY <1>2, ElementOfSeq DEF Last
  <1> HIDE DEF n, t
  <1>5. t[n] = b /\ \A k \in 1 .. n - 1 : t[k] = s[k]
    BY <1>1, <1>2, <1>3
  <1>6. t \in Seq(Calls) /\ n \in Nat \ {0} /\ Len(t) = n /\ t[n] = b
        /\ (\A k \in 1 .. n - 1 : t[k] = s[k]) /\ Last(s) \in Calls /\ Last(s) = s[n]
    BY <1>1, <1>3, <1>4, <1>5
  <1>7. QED
    BY <1>6, Zenon DEF n, t

\* The calls of s but the last, each with the entry e.
Popped(s, e) == [k \in 1 .. Len(s) - 1 |-> Disturbed(s[k], e)]

LEMMA PoppedIs ==
  ASSUME NEW s \in Seq(Calls), s # << >>, NEW e \in Nested
  PROVE  /\ Popped(s, e) \in Seq(Calls) /\ Len(s) \in Nat \ {0} /\ Len(Popped(s, e)) = Len(s) - 1
         /\ \A k \in 1 .. Len(s) - 1 : Popped(s, e)[k] = Disturbed(s[k], e) /\ s[k] \in Calls
  <1>1. Len(s) \in Nat \ {0}
    BY EmptySeq
  <1>2. \A k \in 1 .. Len(s) - 1 : s[k] \in Calls
    BY <1>1, ElementOfSeq
  <1>3. \A k \in 1 .. Len(s) - 1 : Disturbed(s[k], e) \in Calls
    BY <1>2, DisturbedFields
  <1> DEFINE n == Len(s) - 1
             t == Popped(s, e)
  <1>4. t = [k \in 1 .. n |-> Disturbed(s[k], e)]
    BY DEF Popped
  <1>5. t \in [1 .. n -> Calls]
    BY <1>3, <1>4
  <1>6. n \in Nat
    BY <1>1
  <1>7. \A k \in 1 .. n : t[k] = Disturbed(s[k], e)
    BY <1>4
  <1> HIDE DEF t, n
  <1>8. t \in Seq(Calls)
    BY <1>5, <1>6, SeqDef
  <1>9. Len(t) = n
    BY <1>5, <1>6, <1>8, LenProperties
  <1>10. QED
    BY <1>1, <1>2, <1>7, <1>8, <1>9 DEF t, n

(* What the blobs hold, when a call begins.                                 *)
LEMMA BlobsHoldPushed ==
  ASSUME NEW s \in Seq(Calls), NEW memory, NEW b \in Calls, BlobsHold(s, memory),
         b.op \in BlobFunctions => b.was = memory[b.blob] /\ b.i = 1
  PROVE  BlobsHold(Append(s, b), memory)
  <1> DEFINE t == Append(s, b)
             n == Len(s)
  <1>1. t \in Seq(Calls) /\ n \in Nat /\ Len(t) = n + 1 /\ t[n + 1] = b /\ \A k \in 1 .. n : t[k] = s[k]
    BY Pushed
  <1> HIDE DEF t, n
  <1>2. ASSUME NEW k \in 1 .. Len(t), t[k].op \in BlobFunctions
        PROVE  /\ Len(memory[t[k].blob]) = Len(t[k].was)
               /\ Untouched(t, k) => Holds(t[k], memory[t[k].blob])
    <2>1. CASE k = n + 1
      <3>1. t[k] = b /\ b.was = memory[b.blob] /\ b.i = 1
        BY <1>1, <1>2, <2>1
      <3>2. Holds(b, memory[b.blob])
        BY <3>1 DEF Holds
      <3>3. QED
        BY <3>1, <3>2
    <2>2. CASE k # n + 1
      <3>1. k \in 1 .. n /\ t[k] = s[k]
        BY <1>1, <2>2
      <3>2. Untouched(t, k) => Untouched(s, k)
        <4>1. ASSUME NEW j \in k + 1 .. n PROVE j \in k + 1 .. Len(t) /\ t[j] = s[j]
          BY <1>1, <3>1
        <4>2. QED
          BY <3>1, <4>1 DEF Untouched, n
      <3>3. QED
        BY <1>2, <3>1, <3>2 DEF BlobsHold, n
    <2>3. QED
      BY <2>1, <2>2
  <1>3. BlobsHold(t, memory)
    BY <1>2 DEF BlobsHold
  <1>4. QED
    BY <1>3 DEF t

(* The same, when the innermost one goes on without writing its blob.       *)
LEMMA BlobsHoldTopped ==
  ASSUME NEW s \in Seq(Calls), s # << >>, NEW memory, NEW b \in Calls, BlobsHold(s, memory),
         b.op = Last(s).op, b.blob = Last(s).blob, b.was = Last(s).was, b.during = Last(s).during,
         b.op = InPlace => b.i = Last(s).i /\ b.out = Last(s).out
  PROVE  BlobsHold([s EXCEPT ![Len(s)] = b], memory)
  <1> DEFINE t == [s EXCEPT ![Len(s)] = b]
             n == Len(s)
             a == Last(s)
  <1>1. /\ t \in Seq(Calls) /\ n \in Nat \ {0} /\ Len(t) = n /\ t[n] = b /\ a = s[n]
        /\ \A k \in 1 .. n - 1 : t[k] = s[k]
    BY Topped
  <1>2. /\ b.op = a.op /\ b.blob = a.blob /\ b.was = a.was /\ b.during = a.during
        /\ b.op = InPlace => b.i = a.i /\ b.out = a.out
    OBVIOUS
  <1> HIDE DEF t, n, a
  <1>3. \A k \in 1 .. n : /\ t[k].op = s[k].op /\ t[k].blob = s[k].blob /\ t[k].was = s[k].was
                          /\ t[k].during = s[k].during
    BY <1>1, <1>2
  <1>4. ASSUME NEW k \in 1 .. n PROVE Untouched(t, k) => Untouched(s, k)
    <2>1. Undisturbed(t[k]) <=> Undisturbed(s[k])
      BY <1>3 DEF Undisturbed
    <2>2. \A j \in k + 1 .. n : t[j].op = s[j].op /\ t[j].blob = s[j].blob
      BY <1>1, <1>3
    <2>3. QED
      BY <1>1, <1>3, <2>1, <2>2 DEF Untouched, n
  <1>5. ASSUME NEW k \in 1 .. n, NEW octets, Holds(s[k], octets) PROVE Holds(t[k], octets)
    <2>1. CASE k = n
      BY <1>1, <1>2, <1>5, <2>1 DEF Holds
    <2>2. CASE k # n
      <3>1. t[k] = s[k]
        BY <1>1, <2>2
      <3>2. QED
        BY <1>5, <3>1
    <2>3. QED
      BY <2>1, <2>2
  <1>6. ASSUME NEW k \in 1 .. Len(t), t[k].op \in BlobFunctions
        PROVE  /\ Len(memory[t[k].blob]) = Len(t[k].was)
               /\ Untouched(t, k) => Holds(t[k], memory[t[k].blob])
    <2>1. k \in 1 .. n /\ s[k].op \in BlobFunctions
      BY <1>1, <1>3, <1>6
    <2>2. /\ Len(memory[s[k].blob]) = Len(s[k].was)
          /\ Untouched(s, k) => Holds(s[k], memory[s[k].blob])
      BY <2>1 DEF BlobsHold, n
    <2>3. QED
      BY <1>3, <1>4, <1>5, <2>1, <2>2
  <1>7. BlobsHold(t, memory)
    BY <1>6 DEF BlobsHold
  <1>8. QED
    BY <1>7 DEF t

(* The same, when the innermost one has written the octet of its item.      *)
LEMMA BlobsHoldWritten ==
  ASSUME NEW s \in Seq(Calls), s # << >>, NEW memory \in [Blobs -> Seq(Octets)], NEW b \in Calls,
         NEW octet \in Octets, BlobsHold(s, memory), Progress(Last(s)), Maps(Last(s)),
         Last(s).running, Last(s).op = InPlace,
         b.op = Last(s).op, b.blob = Last(s).blob, b.was = Last(s).was, b.during = Last(s).during,
         b.i = Last(s).i + 1, b.out = Append(Last(s).out, octet)
  PROVE  LET written == [memory EXCEPT ![Last(s).blob][Last(s).i] = octet]
         IN BlobsHold([s EXCEPT ![Len(s)] = b], written) /\ written \in [Blobs -> Seq(Octets)]
  <1> DEFINE t == [s EXCEPT ![Len(s)] = b]
             n == Len(s)
             a == Last(s)
             before == memory[a.blob]
             after == [before EXCEPT ![a.i] = octet]
             written == [memory EXCEPT ![a.blob] = after]
  <1>1. /\ t \in Seq(Calls) /\ n \in Nat \ {0} /\ Len(t) = n /\ t[n] = b /\ a = s[n] /\ a \in Calls
        /\ \A k \in 1 .. n - 1 : t[k] = s[k]
    BY Topped
  <1>2. [memory EXCEPT ![a.blob][a.i] = octet] = written
    OBVIOUS
  <1>3. /\ b.op = a.op /\ b.blob = a.blob /\ b.was = a.was /\ b.during = a.during /\ a.op = InPlace
        /\ b.i = a.i + 1 /\ b.out = Append(a.out, octet) /\ Progress(a) /\ Maps(a) /\ a.running
    OBVIOUS
  <1> HIDE DEF t, n, a
  <1>4. a.op \in BlobFunctions /\ a.op \in Collectors /\ a.op \notin Filters /\ a.op # "reduce"
        /\ a.op \notin PassOne
    BY <1>3 DEF BlobFunctions, PassOne, InTwoDimensions, Indexed, InPlace, Collectors, IntoOctets, Filters
  <1>5. a.blob \in Blobs /\ before \in Seq(Octets) /\ Len(before) = Len(a.was)
    <2>1. a.blob \in Blobs
      BY <1>3, <1>4 DEF Progress
    <2>2. Len(before) = Len(a.was)
      BY <1>1, <1>4 DEF BlobsHold, n
    <2>3. QED
      BY <2>1, <2>2
  <1>6. a.i \in 1 .. Len(before) /\ a.i \in Nat /\ Len(a.out) = a.i - 1 /\ a.out \in Seq(Int)
    <2>1. Size(a) = Len(a.was) /\ Skipped(a) = 0
      BY <1>4 DEF Size, Skipped, BlobFunctions, PassOne, InTwoDimensions, Indexed, InPlace
    <2>2. a.i \in Nat /\ a.log \in Seq(LogEntries) /\ a.out \in Seq(Int)
      BY <1>1 DEF Calls
    <2>3. a.i \in 1 .. Len(before) /\ Len(a.log) = a.i - 1
      <3>1. ~a.refused /\ a.stopped = FALSE
        BY <1>1, <1>3, <1>4 DEF Progress, Calls
      <3>2. Len(before) \in Nat /\ Len(a.log) \in Nat
        BY <1>5, <2>2, LenProperties
      <3>3. QED
        BY <1>3, <1>5, <2>1, <2>2, <3>1, <3>2 DEF Progress
    <2>4. DOMAIN a.out = 1 .. Len(a.log)
      <3>1. a.out = Gains(a) /\ DOMAIN a.log = 1 .. Len(a.log)
        BY <1>3, <1>4, <2>2, LenProperties DEF Maps, Progress
      <3>2. QED
        BY <1>4, <3>1 DEF Gains
    <2>5. Len(a.out) = Len(a.log)
      <3>1. Len(a.log) \in Nat /\ Len(a.out) \in Nat /\ DOMAIN a.out = 1 .. Len(a.out)
        BY <2>2, LenProperties
      <3>2. QED
        BY <2>4, <3>1
    <2>6. QED
      BY <2>2, <2>3, <2>5
  <1>7. after \in Seq(Octets) /\ Len(after) = Len(before)
        /\ \A j \in 1 .. Len(before) : after[j] = IF j = a.i THEN octet ELSE before[j]
    BY <1>5, <1>6, ExceptSeq
  <1> HIDE DEF after, before
  <1>8. written \in [Blobs -> Seq(Octets)] /\ written[a.blob] = after
        /\ \A c \in Blobs : c # a.blob => written[c] = memory[c]
    BY <1>5, <1>7
  <1> HIDE DEF written
  <1>9. \A k \in 1 .. n : /\ t[k].op = s[k].op /\ t[k].blob = s[k].blob /\ t[k].was = s[k].was
                          /\ t[k].during = s[k].during
    <2>1. ASSUME NEW k \in 1 .. n PROVE k = n \/ t[k] = s[k]
      BY <1>1
    <2>2. /\ t[n].op = s[n].op /\ t[n].blob = s[n].blob /\ t[n].was = s[n].was /\ t[n].during = s[n].during
      BY <1>1, <1>3
    <2>3. QED
      BY <2>1, <2>2
  <1>10. ASSUME NEW k \in 1 .. n PROVE Untouched(t, k) => Untouched(s, k)
    <2>1. Undisturbed(t[k]) <=> Undisturbed(s[k])
      BY <1>9 DEF Undisturbed
    <2>2. \A j \in k + 1 .. n : t[j].op = s[j].op /\ t[j].blob = s[j].blob
      BY <1>1, <1>9
    <2>3. QED
      BY <1>1, <1>9, <2>1, <2>2 DEF Untouched, n
  <1>11. ASSUME NEW k \in 1 .. n, s[k].op \in BlobFunctions
         PROVE  /\ s[k].blob \in Blobs => Len(written[s[k].blob]) = Len(memory[s[k].blob])
                /\ Len(memory[s[k].blob]) = Len(s[k].was)
                /\ Untouched(s, k) => Holds(s[k], memory[s[k].blob])
    <2>1. /\ Len(memory[s[k].blob]) = Len(s[k].was)
          /\ Untouched(s, k) => Holds(s[k], memory[s[k].blob])
      BY <1>11 DEF BlobsHold, n
    <2>2. s[k].blob \in Blobs => Len(written[s[k].blob]) = Len(memory[s[k].blob])
      BY <1>7, <1>8 DEF before
    <2>3. QED
      BY <2>1, <2>2
  <1>12. Untouched(s, n) => Holds(b, after)
    <2>1. SUFFICES ASSUME Untouched(s, n) PROVE Holds(b, after)
      OBVIOUS
    <2>2. Holds(a, before)
      BY <1>1, <1>4, <1>11, <2>1 DEF before
    <2>3. Len(after) = Len(b.was)
      BY <1>3, <1>5, <1>7
    <2>4. /\ Len(b.out) = a.i /\ b.out[a.i] = octet
          /\ \A j \in 1 .. a.i - 1 : b.out[j] = a.out[j]
      <3>1. octet \in Int
        BY BlobsAssumption DEF Octets
      <3>2. /\ Len(Append(a.out, octet)) = Len(a.out) + 1 /\ Append(a.out, octet)[Len(a.out) + 1] = octet
            /\ \A j \in 1 .. Len(a.out) : Append(a.out, octet)[j] = a.out[j]
        BY <1>6, <3>1, AppendProperties
      <3>3. QED
        BY <1>3, <1>6, <3>2
    <2>5. ASSUME NEW j \in 1 .. Len(b.was)
          PROVE  after[j] = IF b.op = InPlace /\ j < b.i THEN b.out[j] ELSE b.was[j]
      <3>1. j \in 1 .. Len(before) /\ j \in 1 .. Len(a.was)
        BY <1>3, <1>5
      <3>2. before[j] = IF j < a.i THEN a.out[j] ELSE a.was[j]
        BY <1>3, <2>2, <3>1 DEF Holds
      <3>3. CASE j = a.i
        BY <1>3, <1>6, <1>7, <2>4, <3>1, <3>3
      <3>4. CASE j < a.i
        <4>1. j \in 1 .. a.i - 1 /\ j # a.i /\ j < b.i
          BY <1>3, <1>6, <3>1, <3>4
        <4>2. after[j] = a.out[j]
          BY <1>7, <3>1, <3>2, <3>4, <4>1
        <4>3. b.out[j] = a.out[j]
          BY <2>4, <4>1
        <4>4. QED
          BY <1>3, <4>1, <4>2, <4>3
      <3>5. CASE j > a.i
        <4>1. j # a.i /\ ~(j < b.i) /\ ~(j < a.i)
          BY <1>3, <1>6, <3>1, <3>5
        <4>2. after[j] = a.was[j]
          BY <1>7, <3>1, <3>2, <4>1
        <4>3. b.was[j] = a.was[j]
          BY <1>3
        <4>4. QED
          BY <4>1, <4>2, <4>3, Zenon
      <3>6. j = a.i \/ j < a.i \/ j > a.i
        BY <1>6, <3>1
      <3>7. QED
        BY <3>3, <3>4, <3>5, <3>6, Zenon
    <2>6. QED
      BY <2>3, <2>5 DEF Holds
  <1>13. ASSUME NEW k \in 1 .. Len(t), t[k].op \in BlobFunctions
         PROVE  /\ Len(written[t[k].blob]) = Len(t[k].was)
                /\ Untouched(t, k) => Holds(t[k], written[t[k].blob])
    <2>1. k \in 1 .. n /\ s[k].op \in BlobFunctions
      BY <1>1, <1>9, <1>13
    <2>2. CASE k = n
      <3>1. Len(after) = Len(b.was)
        BY <1>3, <1>5, <1>7
      <3>2. QED
        BY <1>1, <1>3, <1>8, <1>10, <1>12, <2>1, <2>2, <3>1
    <2>3. CASE k # n
      <3>1. t[k] = s[k]
        BY <1>1, <2>1, <2>3
      <3>2. CASE s[k].blob = a.blob
        <4>1. n \in k + 1 .. n
          BY <1>1, <2>1, <2>3
        <4>2. ~Untouched(s, k)
          BY <1>1, <1>3, <3>2, <4>1 DEF Untouched, n
        <4>3. Len(after) = Len(s[k].was)
          BY <1>7, <1>11, <2>1, <3>2 DEF before
        <4>4. QED
          BY <1>8, <1>10, <2>1, <3>1, <3>2, <4>2, <4>3
      <3>3. CASE s[k].blob # a.blob
        <4>1. written[s[k].blob] = memory[s[k].blob]
          <5>1. CASE s[k].blob \in Blobs
            BY <1>8, <3>3, <5>1
          <5>2. CASE s[k].blob \notin Blobs
            BY <3>3, <5>2 DEF written
          <5>3. QED
            BY <5>1, <5>2
        <4>2. QED
          BY <1>10, <1>11, <2>1, <3>1, <4>1
      <3>4. QED
        BY <3>2, <3>3
    <2>4. QED
      BY <2>2, <2>3
  <1>14. BlobsHold(t, written)
    BY <1>13 DEF BlobsHold
  <1>15. QED
    BY <1>2, <1>8, <1>14 DEF t, a, n

(* The same, when the innermost one returns.                                *)
LEMMA BlobsHoldPopped ==
  ASSUME NEW s \in Seq(Calls), s # << >>, NEW memory, BlobsHold(s, memory), NEW e \in Nested,
         e = [op |-> Last(s).op, blob |-> Last(s).blob]
  PROVE  BlobsHold(Popped(s, e), memory)
  <1> DEFINE t == Popped(s, e)
             n == Len(s)
  <1>1. /\ t \in Seq(Calls) /\ n \in Nat \ {0} /\ Len(t) = n - 1
        /\ \A k \in 1 .. n - 1 : t[k] = Disturbed(s[k], e) /\ s[k] \in Calls
    BY PoppedIs
  <1>2. e.op = s[n].op /\ e.blob = s[n].blob
    BY DEF Last, n
  <1> HIDE DEF t, n
  <1>3. ASSUME NEW k \in 1 .. n - 1
        PROVE  /\ DisturbedAs(s[k], t[k])
               /\ Undisturbed(t[k]) => Undisturbed(s[k]) /\ e # [op |-> InPlace, blob |-> s[k].blob]
    BY <1>1, DisturbedFields
  <1>4. \A k \in 1 .. n - 1 : t[k].op = s[k].op /\ t[k].blob = s[k].blob /\ t[k].was = s[k].was
                              /\ t[k].i = s[k].i /\ t[k].out = s[k].out
    BY <1>3 DEF DisturbedAs
  <1>5. ASSUME NEW k \in 1 .. n - 1, Untouched(t, k) PROVE Untouched(s, k)
    <2>1. Undisturbed(s[k]) /\ e # [op |-> InPlace, blob |-> s[k].blob]
      BY <1>3, <1>5 DEF Untouched
    <2>2. ~(s[n].op = InPlace /\ s[n].blob = s[k].blob)
      BY <1>2, <2>1
    <2>3. ASSUME NEW j \in k + 1 .. n PROVE ~(s[j].op = InPlace /\ s[j].blob = s[k].blob)
      <3>1. CASE j = n
        BY <2>2, <3>1
      <3>2. CASE j # n
        <4>1. j \in k + 1 .. n - 1 /\ j \in 1 .. n - 1
          BY <1>1, <3>2
        <4>2. ~(t[j].op = InPlace /\ t[j].blob = t[k].blob)
          BY <1>1, <1>5, <4>1 DEF Untouched
        <4>3. QED
          BY <1>4, <4>1, <4>2
      <3>3. QED
        BY <3>1, <3>2
    <2>4. QED
      BY <2>1, <2>3 DEF Untouched, n
  <1>6. ASSUME NEW k \in 1 .. Len(t), t[k].op \in BlobFunctions
        PROVE  /\ Len(memory[t[k].blob]) = Len(t[k].was)
               /\ Untouched(t, k) => Holds(t[k], memory[t[k].blob])
    <2>1. k \in 1 .. n - 1 /\ k \in 1 .. n /\ s[k].op \in BlobFunctions
      BY <1>1, <1>4, <1>6
    <2>2. /\ Len(memory[s[k].blob]) = Len(s[k].was)
          /\ Untouched(s, k) => Holds(s[k], memory[s[k].blob])
      BY <2>1 DEF BlobsHold, n
    <2>3. Holds(s[k], memory[s[k].blob]) => Holds(t[k], memory[s[k].blob])
      BY <1>4, <2>1 DEF Holds
    <2>4. QED
      BY <1>4, <1>5, <2>1, <2>2, <2>3
  <1>7. BlobsHold(t, memory)
    BY <1>6 DEF BlobsHold
  <1>8. QED
    BY <1>7 DEF t

(* What the outermost List.concatMap has gathered, when a call begins.      *)
LEMMA GatheringPushed ==
  ASSUME NEW s \in Seq(Calls), NEW buffer, NEW b \in Calls, Gathering(s, buffer),
         s = << >> /\ b.op = "concatMap" => b.max = TempCapacity /\ b.log = << >> /\ b.count = 0
  PROVE  Gathering(Append(s, b), buffer)
  <1> DEFINE t == Append(s, b)
             n == Len(s)
  <1>1. t \in Seq(Calls) /\ n \in Nat /\ Len(t) = n + 1 /\ t[n + 1] = b /\ \A k \in 1 .. n : t[k] = s[k]
    BY Pushed
  <1>2. n = 0 => s = << >>
    BY EmptySeq
  <1> HIDE DEF t, n
  <1>3. SUFFICES ASSUME GathersAlone(t) PROVE GatheredIn(t[1], buffer)
    BY DEF Gathering, t
  <1>4. CASE n = 0
    <2>1. t[1] = b /\ b.op = "concatMap" /\ b.max = TempCapacity /\ b.log = << >> /\ b.count = 0
      BY <1>1, <1>2, <1>3, <1>4 DEF GathersAlone
    <2>2. Values(b) = << >>
      <3>1. << >> \in Seq(Int) /\ Len(<< >>) = 0
        BY EmptySeq
      <3>2. DOMAIN << >> = 1 .. 0
        BY <3>1, LenProperties
      <3>3. DOMAIN b.log = {}
        BY <2>1, <3>2
      <3>4. QED
        BY <3>3 DEF Values
    <2>3. TotalOf(b) = 0
      <3>1. FlattenSeq(<< >>) = << >> /\ Len(<< >>) = 0
        BY EmptySeq DEF FlattenSeq
      <3>2. QED
        BY <2>2, <3>1 DEF TotalOf
    <2>4. QED
      BY <2>1, <2>3 DEF GatheredIn
  <1>5. CASE n # 0
    <2>1. t[1] = s[1] /\ n > 0 /\ \A j \in 2 .. n : j \in 2 .. Len(t) /\ t[j] = s[j]
      BY <1>1, <1>5
    <2>2. GathersAlone(s)
      BY <1>3, <2>1 DEF GathersAlone, n
    <2>3. QED
      BY <2>1, <2>2 DEF Gathering
  <1>6. QED
    BY <1>4, <1>5

(* The same, when the innermost one goes on and is no List.concatMap, or    *)
(* none that has taken a list.                                              *)
LEMMA GatheringTopped ==
  ASSUME NEW s \in Seq(Calls), s # << >>, NEW buffer, NEW b \in Calls, Gathering(s, buffer),
         b.op = Last(s).op, b.during = Last(s).during,
         b.op = "concatMap" => b.log = Last(s).log /\ b.max = Last(s).max /\ b.count = Last(s).count
  PROVE  Gathering([s EXCEPT ![Len(s)] = b], buffer)
  <1> DEFINE t == [s EXCEPT ![Len(s)] = b]
             n == Len(s)
             a == Last(s)
  <1>1. /\ t \in Seq(Calls) /\ n \in Nat \ {0} /\ Len(t) = n /\ t[n] = b /\ a = s[n]
        /\ \A k \in 1 .. n - 1 : t[k] = s[k]
    BY Topped
  <1>2. /\ b.op = a.op /\ b.during = a.during
        /\ b.op = "concatMap" => b.log = a.log /\ b.max = a.max /\ b.count = a.count
    OBVIOUS
  <1> HIDE DEF t, n, a
  <1>3. SUFFICES ASSUME GathersAlone(t) PROVE GatheredIn(t[1], buffer)
    BY DEF Gathering, t
  <1>4. \A k \in 1 .. n : t[k].op = s[k].op /\ t[k].during = s[k].during
    BY <1>1, <1>2
  <1>5. GathersAlone(s)
    <2>1. 1 \in 1 .. n /\ \A j \in 2 .. n : j \in 1 .. n
      BY <1>1
    <2>2. QED
      BY <1>1, <1>3, <1>4, <2>1 DEF GathersAlone, n
  <1>6. GatheredIn(s[1], buffer)
    BY <1>5 DEF Gathering
  <1>7. t[1].log = s[1].log /\ t[1].max = s[1].max /\ t[1].count = s[1].count
    <2>1. CASE n = 1
      BY <1>1, <1>2, <1>3, <2>1 DEF GathersAlone
    <2>2. CASE n # 1
      BY <1>1, <2>2
    <2>3. QED
      BY <2>1, <2>2
  <1>8. Values(t[1]) = Values(s[1])
    BY <1>7 DEF Values
  <1>9. QED
    BY <1>6, <1>7, <1>8 DEF GatheredIn, TotalOf

(* The same, when the innermost one returns.                                *)
LEMMA GatheringPopped ==
  ASSUME NEW s \in Seq(Calls), s # << >>, NEW buffer, NEW after, Gathering(s, buffer), NEW e \in Nested,
         e = [op |-> Last(s).op, blob |-> Last(s).blob], Len(s) = 1 \/ after = buffer
  PROVE  Gathering(Popped(s, e), after)
  <1> DEFINE t == Popped(s, e)
             n == Len(s)
  <1>1. /\ t \in Seq(Calls) /\ n \in Nat \ {0} /\ Len(t) = n - 1
        /\ \A k \in 1 .. n - 1 : t[k] = Disturbed(s[k], e) /\ s[k] \in Calls
    BY PoppedIs
  <1>2. e.op = s[n].op
    BY DEF Last, n
  <1>3. n = 1 \/ after = buffer
    OBVIOUS
  <1> HIDE DEF t, n
  <1>4. SUFFICES ASSUME GathersAlone(t) PROVE GatheredIn(t[1], after)
    BY DEF Gathering, t
  <1>5. n > 1 /\ 1 \in 1 .. n - 1 /\ after = buffer
    BY <1>1, <1>3, <1>4 DEF GathersAlone
  <1>6. \A k \in 1 .. n - 1 : DisturbedAs(s[k], t[k]) /\ t[k].count = s[k].count /\ t[k].max = s[k].max
    BY <1>1, DisturbedFields
  <1>7. /\ Len(s[1].during) \in Nat /\ Len(t[1].during) = Len(s[1].during) + 1
        /\ t[1].during[Len(s[1].during) + 1] = e
        /\ \A k \in 1 .. Len(s[1].during) : t[1].during[k] = s[1].during[k]
    <2>1. t[1] = Disturbed(s[1], e) /\ s[1] \in Calls
      BY <1>1, <1>5
    <2> DEFINE c == s[1]
               d == t[1]
    <2>2. c \in Calls /\ d = Disturbed(c, e)
      BY <2>1
    <2> HIDE DEF c, d
    <2>3. /\ Len(c.during) \in Nat /\ Len(d.during) = Len(c.during) + 1
          /\ d.during[Len(c.during) + 1] = e
          /\ \A k \in 1 .. Len(c.during) : d.during[k] = c.during[k]
      BY <2>2, DisturbedFields
    <2>4. QED
      BY <2>3 DEF c, d
  <1>8. \A k \in 1 .. n - 1 : t[k].op = s[k].op
    BY <1>6 DEF DisturbedAs
  <1>9. GathersAlone(s)
    <2>1. s[1].op = "concatMap" /\ n > 0
      <3>1. t[1].op = "concatMap"
        BY <1>4 DEF GathersAlone
      <3>2. t[1].op = s[1].op
        BY <1>5, <1>8
      <3>3. QED
        BY <1>1, <3>1, <3>2
    <2>2. \A k \in 1 .. Len(t[1].during) : t[1].during[k].op # "concatMap"
      BY <1>4 DEF GathersAlone
    <2>3. \A k \in 1 .. Len(s[1].during) : s[1].during[k].op # "concatMap"
      BY <1>7, <2>2
    <2>4. e.op # "concatMap"
      BY <1>7, <2>2
    <2>5. ASSUME NEW j \in 2 .. n PROVE s[j].op # "concatMap"
      <3>1. CASE j = n
        BY <1>2, <2>4, <3>1
      <3>2. CASE j # n
        <4>1. j \in 2 .. Len(t) /\ j \in 1 .. n - 1
          BY <1>1, <3>2
        <4>2. QED
          BY <1>4, <1>8, <4>1 DEF GathersAlone
      <3>3. QED
        BY <3>1, <3>2
    <2>6. QED
      BY <2>1, <2>3, <2>5 DEF GathersAlone, n
  <1>10. GatheredIn(s[1], after)
    BY <1>5, <1>9 DEF Gathering
  <1>11. t[1].log = s[1].log /\ t[1].max = s[1].max /\ t[1].count = s[1].count
    BY <1>5, <1>6 DEF DisturbedAs
  <1>12. Values(t[1]) = Values(s[1])
    BY <1>11 DEF Values
  <1>13. QED
    BY <1>10, <1>11, <1>12 DEF GatheredIn, TotalOf

(* The same, when the innermost one is a List.concatMap that takes a list.  *)
LEMMA GatheringTaken ==
  ASSUME NEW s \in Seq(Calls), s # << >>, Gathering(s, temp), temp \in [1 .. TempCapacity -> Ints \cup {Unset}],
         NEW b \in Calls, NEW list \in Lists, NEW buffer,
         Progress(Last(s)), Last(s).op = "concatMap", TakenAs(Last(s), list, b),
         \/ /\ list = << >> \/ ~Fits(Last(s).count, list, Last(s).max)
            /\ b.count = Last(s).count /\ buffer = temp
         \/ /\ Last(s).count + Len(list) <= TempCapacity
            /\ b.count = Last(s).count + Len(list) /\ buffer = TempWith(list, Last(s).count)
  PROVE  Gathering([s EXCEPT ![Len(s)] = b], buffer)
  <1> DEFINE t == [s EXCEPT ![Len(s)] = b]
             n == Len(s)
             a == Last(s)
             m == Len(list)
  <1>1. /\ t \in Seq(Calls) /\ n \in Nat \ {0} /\ Len(t) = n /\ t[n] = b /\ a = s[n] /\ a \in Calls
        /\ \A k \in 1 .. n - 1 : t[k] = s[k]
    BY Topped
  <1>2. /\ Progress(a) /\ a.op = "concatMap" /\ TakenAs(a, list, b)
        /\ \/ (list = << >> \/ ~Fits(a.count, list, a.max)) /\ b.count = a.count /\ buffer = temp
           \/ a.count + m <= TempCapacity /\ b.count = a.count + m /\ buffer = TempWith(list, a.count)
    OBVIOUS
  <1>3. list \in Seq(Ints) /\ m \in Nat /\ (list = << >> => m = 0)
    <2>1. list \in Seq(Ints)
      BY ListsAssumption
    <2>2. QED
      BY <2>1, LenProperties, EmptySeq
  <1> HIDE DEF t, n, a
  <1>4. SUFFICES ASSUME GathersAlone(t) PROVE GatheredIn(t[1], buffer)
    BY DEF Gathering, t
  <1>5. b.op = "concatMap" /\ b.during = a.during /\ b.max = a.max
    BY <1>2 DEF TakenAs
  <1>6. n = 1
    <2>1. SUFFICES ASSUME n # 1 PROVE FALSE
      OBVIOUS
    <2>2. n \in 2 .. Len(t)
      BY <1>1, <2>1
    <2>3. t[n].op # "concatMap"
      BY <1>4, <2>2 DEF GathersAlone
    <2>4. QED
      BY <1>1, <1>5, <2>3
  <1>7. GathersAlone(s)
    <2>1. Len(s) = 1 /\ s[1] = a /\ t[1] = b /\ Len(t) = 1
      BY <1>1, <1>6 DEF n
    <2>2. \A k \in 1 .. Len(a.during) : a.during[k].op # "concatMap"
      BY <1>4, <1>5, <2>1 DEF GathersAlone
    <2>3. \A j \in 2 .. Len(s) : s[j].op # "concatMap"
      BY <2>1
    <2>4. QED
      BY <1>2, <2>1, <2>2, <2>3 DEF GathersAlone
  <1>8. GatheredIn(a, temp)
    BY <1>1, <1>6, <1>7 DEF Gathering
  <1>9. ~a.refused
    BY <1>2 DEF Progress, PassOne
  <1>10. \A k \in 1 .. Len(a.log) : a.log[k].value \in Seq(Ints)
    <2>1. \A k \in 1 .. Len(a.log) : a.log[k].value \in Results("concatMap")
      BY <1>2 DEF Progress
    <2>2. Results("concatMap") = Lists
      BY DEF Results, Searches, Filters
    <2>3. QED
      BY <2>1, <2>2, ListsAssumption
  <1>11. list \in Results(a.op)
    BY <1>2 DEF Results, Searches, Filters
  <1>12. Values(b) = Append(Values(a), list) /\ Values(a) \in Seq(Seq(Ints))
    <2>1. Values(a) \in Seq(Seq(Ints))
      BY <1>1, <1>10, ValuesType
    <2>2. a \in Calls /\ list \in Results(a.op) /\ TakenAs(a, list, b) /\ ~a.refused /\ list \in Seq(Ints)
      BY <1>1, <1>2, <1>3, <1>9, <1>11
    <2>3. Values(b) = Append(Values(a), list)
      BY <1>10, <2>2, TakenValues
    <2>4. QED
      BY <2>1, <2>3
  <1> DEFINE f == FlattenSeq(Values(a))
             g == FlattenSeq(Values(b))
  <1>13. f \in Seq(Ints) /\ g = f \o list
    BY <1>3, <1>12, FlattenAppend, FlattenType
  <1>14. TotalOf(a) = Len(f) /\ TotalOf(b) = Len(g)
    BY DEF TotalOf
  <1>15. /\ a.max = TempCapacity
         /\ TotalOf(a) < TempCapacity =>
              a.count = TotalOf(a) /\ \A j \in 1 .. a.count : temp[j] = f[j]
    BY <1>8 DEF GatheredIn
  <1>16. a.count \in Nat
    <2>1. a.count \in 0 .. TempCapacity
      BY <1>1 DEF Calls
    <2>2. QED
      BY <2>1, TempAssumption
  <1> HIDE DEF f, g, m
  <1>17. /\ Len(f) \in Nat /\ Len(g) = Len(f) + m
         /\ \A j \in 1 .. Len(f) : g[j] = f[j]
         /\ \A j \in 1 .. m : g[Len(f) + j] = list[j]
    <2>1. /\ Len(f \o list) = Len(f) + Len(list)
          /\ \A j \in 1 .. Len(f) + Len(list) : (f \o list)[j] = IF j <= Len(f) THEN f[j] ELSE list[j - Len(f)]
      BY <1>3, <1>13, ConcatProperties
    <2>2. Len(f) \in Nat
      BY <1>13, LenProperties
    <2>3. ASSUME NEW j \in 1 .. m PROVE g[Len(f) + j] = list[j]
      <3>1. Len(f) + j \in 1 .. Len(f) + m /\ ~(Len(f) + j <= Len(f)) /\ (Len(f) + j) - Len(f) = j
        BY <1>3, <2>2
      <3>2. QED
        BY <1>13, <2>1, <3>1 DEF m
    <2>4. ASSUME NEW j \in 1 .. Len(f) PROVE g[j] = f[j]
      <3>1. j \in 1 .. Len(f) + m /\ j <= Len(f)
        BY <1>3, <2>2
      <3>2. QED
        BY <1>13, <2>1, <3>1 DEF m
    <2>5. QED
      BY <1>13, <2>1, <2>2, <2>3, <2>4 DEF m
  <1>18. SUFFICES ASSUME TotalOf(b) < TempCapacity
                  PROVE  b.count = TotalOf(b) /\ \A j \in 1 .. b.count : buffer[j] = g[j]
    <2>1. t[1] = b
      BY <1>1, <1>6
    <2>2. QED
      BY <1>5, <1>15, <1>18, <2>1 DEF GatheredIn, g
  <1>19. TempCapacity \in Nat
    BY TempAssumption
  <1>20. a.count = Len(f) /\ \A j \in 1 .. a.count : temp[j] = f[j]
    BY <1>3, <1>14, <1>15, <1>17, <1>18, <1>19
  <1>21. CASE (list = << >> \/ ~Fits(a.count, list, a.max)) /\ b.count = a.count /\ buffer = temp
    <2>1. list = << >>
      <3>1. Fits(a.count, list, a.max)
        BY <1>14, <1>15, <1>17, <1>18, <1>20 DEF Fits, m
      <3>2. QED
        BY <1>21, <3>1
    <2>2. m = 0
      BY <1>3, <2>1
    <2>3. QED
      BY <1>14, <1>17, <1>20, <1>21, <2>2
  <1>22. CASE a.count + m <= TempCapacity /\ b.count = a.count + m /\ buffer = TempWith(list, a.count)
    <2>1. b.count = TotalOf(b)
      BY <1>14, <1>17, <1>20, <1>22
    <2>2. ASSUME NEW j \in 1 .. b.count PROVE buffer[j] = g[j]
      <3>1. j \in 1 .. TempCapacity /\ j \in Nat
        BY <1>3, <1>16, <1>19, <1>22
      <3>2. buffer[j] = IF j - a.count \in DOMAIN list THEN list[j - a.count] ELSE temp[j]
        BY <1>22, <3>1 DEF TempWith
      <3>3. DOMAIN list = 1 .. m
        BY <1>3, LenProperties DEF m
      <3>4. CASE j <= a.count
        <4>1. j \in 1 .. a.count /\ j - a.count \notin 1 .. m
          BY <1>16, <3>1, <3>4
        <4>2. QED
          BY <1>17, <1>20, <3>2, <3>3, <4>1
      <3>5. CASE j > a.count
        <4>1. j - a.count \in 1 .. m /\ Len(f) + (j - a.count) = j
          BY <1>3, <1>16, <1>20, <1>22, <3>1, <3>5
        <4>2. QED
          BY <1>17, <3>2, <3>3, <4>1
      <3>6. QED
        BY <1>16, <3>1, <3>4, <3>5
    <2>3. QED
      BY <2>1, <2>2
  <1>23. QED
    BY <1>2, <1>21, <1>22

-----------------------------------------------------------------------------
LEMMA InitIInv == Init => IInv
  <1> SUFFICES ASSUME Init PROVE IInv
    OBVIOUS
  <1>1. stack = << >> /\ blobs = FirstOctets /\ temp = [k \in 1 .. TempCapacity |-> Unset]
        /\ errorTraps \in BOOLEAN /\ status = "running"
    BY DEF Init
  <1>2. stack \in Seq(Calls) /\ Len(stack) = 0
    BY <1>1, EmptySeq
  <1>3. States
    BY <1>1, <1>2, BlobsAssumption DEF States
  <1>4. BlobsHold(stack, blobs) /\ Gathering(stack, temp)
    BY <1>2 DEF BlobsHold, Gathering, GathersAlone
  <1>5. QED
    BY <1>2, <1>3, <1>4 DEF IInv

(* What a call changes.                                                     *)
LEMMA CallsKeep ==
  ASSUME IInv, NEW op, NEW list, NEW other, NEW blob, NEW width, NEW initial, NEW refused,
         Beginning(op, list, other, blob, width, initial, refused),
         NEW b \in Calls, BegunAs(b, op, list, other, blob, width, initial, refused),
         CanCall, Begin(b), stack = << >> /\ op = "concatMap" => b.max = TempCapacity
  PROVE  IInv'
  <1> DEFINE n == Len(stack)
  <1>1. stack \in Seq(Calls) /\ stack' = Append(stack, b) /\ blobs' = blobs /\ temp' = temp
        /\ errorTraps' = errorTraps /\ status' = status
    BY DEF IInv, States, Begin
  <1>2. stack' \in Seq(Calls) /\ n \in Nat /\ Len(stack') = n + 1 /\ stack'[n + 1] = b
        /\ \A k \in 1 .. n : stack'[k] = stack[k]
    BY <1>1, Pushed
  <1>3. Calling(b)
    BY BegunCalling
  <1>4. States'
    BY <1>1, <1>2 DEF IInv, States
  <1>5. n # 0 => stack[n].running
    BY <1>1, EmptySeq DEF CanCall, Top, Last
  <1>6. ASSUME NEW k \in 1 .. Len(stack')
        PROVE  Calling(stack'[k]) /\ (k < Len(stack') => stack'[k].running)
    <2>1. CASE k = n + 1
      BY <1>2, <1>3, <2>1
    <2>2. CASE k # n + 1
      <3>1. k \in 1 .. n /\ stack'[k] = stack[k] /\ (k < n \/ k = n)
        BY <1>2, <2>2
      <3>2. Calling(stack[k]) /\ (k < n => stack[k].running)
        BY <3>1 DEF IInv
      <3>3. QED
        BY <1>2, <1>5, <3>1, <3>2
    <2>3. QED
      BY <2>1, <2>2
  <1>7. BlobsHold(stack', blobs)
    <2>1. b.op \in BlobFunctions => b.was = blobs[b.blob] /\ b.i = 1
      <3>1. op \in BlobFunctions => blob \in Blobs /\ op # "reduce"
        BY DEF Beginning, BlobFunctions, PassOne, InTwoDimensions, Indexed, InPlace
      <3>2. op \in BlobFunctions => blob # NoBlob
        BY <3>1, BlobsAssumption
      <3>3. QED
        BY <3>1, <3>2 DEF BegunAs
    <2>2. BlobsHold(stack, blobs)
      BY DEF IInv
    <2>3. QED
      BY <1>1, <2>1, <2>2, BlobsHoldPushed
  <1>8. Gathering(stack', temp)
    <2>1. stack = << >> /\ b.op = "concatMap" => b.max = TempCapacity /\ b.log = << >> /\ b.count = 0
      BY DEF BegunAs
    <2>2. Gathering(stack, temp)
      BY DEF IInv
    <2>3. QED
      BY <1>1, <2>1, <2>2, GatheringPushed
  <1>9. BlobsHold(stack', blobs') /\ Gathering(stack', temp')
    BY <1>1, <1>7, <1>8
  <1>10. QED
    BY <1>4, <1>6, <1>9 DEF IInv

(* What a step of the innermost call changes.                               *)
LEMMA StepsKeep ==
  ASSUME IInv, stack # << >>, NEW b \in Calls, Calling(b), stack' = [stack EXCEPT ![Len(stack)] = b],
         blobs' \in [Blobs -> Seq(Octets)], temp' \in [1 .. TempCapacity -> Ints \cup {Unset}],
         errorTraps' = errorTraps, status' = status, BlobsHold(stack', blobs'), Gathering(stack', temp')
  PROVE  IInv'
  <1> DEFINE n == Len(stack)
  <1>1. stack \in Seq(Calls) /\ errorTraps' \in BOOLEAN /\ status' \in {"running", "trap", "fault"}
    BY DEF IInv, States
  <1>2. /\ stack' \in Seq(Calls) /\ n \in Nat \ {0} /\ Len(stack') = n /\ stack'[n] = b
        /\ \A k \in 1 .. n - 1 : stack'[k] = stack[k]
    BY <1>1, Topped
  <1>3. States'
    BY <1>1, <1>2 DEF States
  <1> HIDE DEF n
  <1>4. ASSUME NEW k \in 1 .. Len(stack')
        PROVE  Calling(stack'[k]) /\ (k < Len(stack') => stack'[k].running)
    <2>1. CASE k = n
      <3>1. Calling(stack'[k]) /\ ~(k < Len(stack'))
        BY <1>2, <2>1
      <3>2. QED
        BY <3>1, Zenon
    <2>2. CASE k # n
      <3>1. k \in 1 .. n - 1 /\ k < n /\ k \in 1 .. n
        BY <1>2, <2>2
      <3>2. stack'[k] = stack[k]
        BY <1>2, <3>1
      <3>3. Calling(stack[k]) /\ stack[k].running
        BY <3>1 DEF IInv, n
      <3>4. QED
        BY <3>2, <3>3, Zenon
    <2>3. QED
      BY <2>1, <2>2
  <1>5. QED
    BY <1>3, <1>4 DEF IInv

(* The process stops where it is.                                           *)
LEMMA StopsKeep ==
  ASSUME IInv, NEW how \in {"trap", "fault"}, Stop(how)
  PROVE  IInv'
  <1>1. stack' = stack /\ blobs' = blobs /\ temp' = temp /\ errorTraps' = errorTraps /\ status' = how
    BY DEF Stop
  <1>2. States'
    BY <1>1 DEF IInv, States
  <1>3. QED
    BY <1>1, <1>2 DEF IInv

LEMMA StutterKeeps ==
  ASSUME IInv, UNCHANGED vars
  PROVE  IInv'
  <1>1. stack' = stack /\ blobs' = blobs /\ temp' = temp /\ errorTraps' = errorTraps /\ status' = status
    BY DEF vars
  <1>2. States'
    BY <1>1 DEF IInv, States
  <1>3. QED
    BY <1>1, <1>2 DEF IInv


LEMMA CallListKeeps ==
  ASSUME IInv, NEW list \in Lists, NEW op, CallList(op, list)
  PROVE  IInv'
  <1> DEFINE b == Call(op, list, << >>, NoBlob, 0, Unset, FALSE)
  <1>1. CanCall /\ Begin(b) /\ op \in {"map", "indexedMap", "any", "find"}
    BY DEF CallList
  <1>2. Beginning(op, list, << >>, NoBlob, 0, Unset, FALSE)
    <2>1. list \in Seq(Ints) /\ << >> \in Seq(Ints) /\ op \in Operations /\ op \notin BlobFunctions
          /\ op \notin {"reduce", "foldl", "foldlstop"}
      BY <1>1, ListsAssumption, EmptySeq DEF Operations, ListFunctions, BlobFunctions, PassOne, InTwoDimensions,
                                             Indexed, InPlace
    <2>2. QED
      BY <2>1 DEF Beginning
  <1>3. b \in Calls /\ BegunAs(b, op, list, << >>, NoBlob, 0, Unset, FALSE)
    BY <1>2, BegunFields DEF IInv, States
  <1>4. op # "concatMap"
    BY <1>1
  <1> HIDE DEF b
  <1>5. QED
    BY <1>1, <1>2, <1>3, <1>4, CallsKeep

LEMMA CallMap2Keeps ==
  ASSUME IInv, NEW list \in Lists, NEW other \in Lists, CallMap2(list, other)
  PROVE  IInv'
  <1> DEFINE b == Call("map2", list, other, NoBlob, 0, Unset, FALSE)
  <1>1. CanCall /\ Begin(b)
    BY DEF CallMap2
  <1>2. Beginning("map2", list, other, NoBlob, 0, Unset, FALSE)
    <2>1. list \in Seq(Ints) /\ other \in Seq(Ints) /\ "map2" \in Operations /\ "map2" \notin BlobFunctions
      BY ListsAssumption DEF Operations, ListFunctions, BlobFunctions, PassOne, InTwoDimensions, Indexed, InPlace
    <2>2. QED
      BY <2>1 DEF Beginning
  <1>3. b \in Calls /\ BegunAs(b, "map2", list, other, NoBlob, 0, Unset, FALSE)
    BY <1>2, BegunFields DEF IInv, States
  <1> HIDE DEF b
  <1>4. QED
    BY <1>1, <1>2, <1>3, CallsKeep

LEMMA CallConcatMapKeeps ==
  ASSUME IInv, NEW list \in Lists, CallConcatMap(list)
  PROVE  IInv'
  <1> DEFINE c == Call("concatMap", list, << >>, NoBlob, 0, Unset, FALSE)
  <1>1. PICK max \in Capacities : CanCall /\ Begin([c EXCEPT !.max = max])
    BY DEF CallConcatMap
  <1>2. Beginning("concatMap", list, << >>, NoBlob, 0, Unset, FALSE)
    <2>1. list \in Seq(Ints) /\ << >> \in Seq(Ints) /\ "concatMap" \in Operations /\ "concatMap" \notin BlobFunctions
      BY ListsAssumption, EmptySeq DEF Operations, ListFunctions, BlobFunctions, PassOne, InTwoDimensions,
                                       Indexed, InPlace
    <2>2. QED
      BY <2>1 DEF Beginning
  <1>3. c \in Calls /\ BegunAs(c, "concatMap", list, << >>, NoBlob, 0, Unset, FALSE)
    BY <1>2, BegunFields DEF IInv, States
  <1>4. max \in Nat /\ (stack = << >> => max = TempCapacity)
    BY TempAssumption DEF Capacities
  <1> DEFINE b == [c EXCEPT !.max = max]
  <1> HIDE DEF c
  <1>5. b \in Calls /\ b.max = max
    BY <1>3, <1>4 DEF Calls
  <1>6. BegunAs(b, "concatMap", list, << >>, NoBlob, 0, Unset, FALSE)
    <2>1. /\ b.op = c.op /\ b.list = c.list /\ b.other = c.other /\ b.blob = c.blob /\ b.width = c.width
          /\ b.initial = c.initial /\ b.refused = c.refused /\ b.i = c.i /\ b.running = c.running
          /\ b.stopped = c.stopped /\ b.slot = c.slot /\ b.good = c.good /\ b.out = c.out /\ b.count = c.count
          /\ b.was = c.was /\ b.log = c.log /\ b.during = c.during
      BY <1>3 DEF Calls
    <2> HIDE DEF b
    <2>2. QED
      BY <1>3, <2>1 DEF BegunAs
  <1> HIDE DEF b
  <1>7. CanCall /\ Begin(b)
    BY <1>1 DEF b
  <1>8. QED
    BY <1>2, <1>4, <1>5, <1>6, <1>7, CallsKeep

LEMMA CallReduceKeeps ==
  ASSUME IInv, NEW list \in Lists, CallReduce(list)
  PROVE  IInv'
  <1> DEFINE b == Call("reduce", list, << >>, NoBlob, 0, Unset, FALSE)
  <1>1. CASE list = << >>
    <2>1. PICK how \in {"trap", "fault"} : Stop(how)
      BY <1>1 DEF CallReduce
    <2>2. QED
      BY <2>1, StopsKeep
  <1>2. CASE list # << >>
    <2>1. CanCall /\ Begin(b)
      BY <1>2 DEF CallReduce
    <2>2. Beginning("reduce", list, << >>, NoBlob, 0, Unset, FALSE)
      <3>1. list \in Seq(Ints) /\ << >> \in Seq(Ints) /\ "reduce" \in Operations /\ "reduce" \notin BlobFunctions
        BY ListsAssumption, EmptySeq DEF Operations, ListFunctions, BlobFunctions, PassOne, InTwoDimensions,
                                         Indexed, InPlace
      <3>2. QED
        BY <1>2, <3>1 DEF Beginning
    <2>3. b \in Calls /\ BegunAs(b, "reduce", list, << >>, NoBlob, 0, Unset, FALSE)
      BY <2>2, BegunFields DEF IInv, States
    <2> HIDE DEF b
    <2>4. QED
      BY <2>1, <2>2, <2>3, CallsKeep
  <1>3. QED
    BY <1>1, <1>2

LEMMA CallFoldKeeps ==
  ASSUME IInv, NEW list \in Lists, NEW op \in {"foldl", "foldlstop"}, NEW initial \in Ints, NEW closure \in BOOLEAN,
         CallFold(op, list, initial, closure)
  PROVE  IInv'
  <1> DEFINE b == Call(op, list, << >>, NoBlob, 0, initial, FALSE)
  <1>1. CASE op = "foldlstop" /\ closure
    <2>1. Stop("fault")
      BY <1>1 DEF CallFold
    <2>2. QED
      BY <2>1, StopsKeep
  <1>2. CASE ~(op = "foldlstop" /\ closure)
    <2>1. CanCall /\ Begin(b)
      BY <1>2 DEF CallFold
    <2>2. Beginning(op, list, << >>, NoBlob, 0, initial, FALSE)
      <3>1. list \in Seq(Ints) /\ << >> \in Seq(Ints) /\ op \in Operations /\ op \notin BlobFunctions
        BY ListsAssumption, EmptySeq DEF Operations, ListFunctions, BlobFunctions, PassOne, InTwoDimensions,
                                         Indexed, InPlace
      <3>2. QED
        BY <3>1 DEF Beginning
    <2>3. b \in Calls /\ BegunAs(b, op, list, << >>, NoBlob, 0, initial, FALSE)
      BY <2>2, BegunFields DEF IInv, States
    <2>4. op # "concatMap"
      OBVIOUS
    <2> HIDE DEF b
    <2>5. QED
      BY <2>1, <2>2, <2>3, <2>4, CallsKeep
  <1>3. QED
    BY <1>1, <1>2

LEMMA CallBlobKeeps ==
  ASSUME IInv, NEW op \in BlobFunctions, NEW blob \in Blobs, NEW closure \in BOOLEAN, CallBlob(op, blob, closure)
  PROVE  IInv'
  <1> DEFINE refused == closure /\ op \in PassOne
             b == Call(op, << >>, << >>, blob, 0, Unset, refused)
  <1>1. CanCall /\ Begin(b)
    BY DEF CallBlob
  <1>2. refused \in BOOLEAN /\ (refused => op \in PassOne)
    OBVIOUS
  <1> HIDE DEF refused
  <1>3. op # "concatMap" /\ op \in Operations /\ op \notin {"reduce", "foldl", "foldlstop"}
    BY DEF Operations, BlobFunctions, PassOne, InTwoDimensions, Indexed, InPlace
  <1>4. Beginning(op, << >>, << >>, blob, 0, Unset, refused)
    <2>1. << >> \in Seq(Ints)
      BY EmptySeq
    <2>2. QED
      BY <1>2, <1>3, <2>1 DEF Beginning
  <1>5. b \in Calls /\ BegunAs(b, op, << >>, << >>, blob, 0, Unset, refused)
    BY <1>4, BegunFields DEF IInv, States
  <1> HIDE DEF b
  <1>6. QED
    BY <1>1, <1>3, <1>4, <1>5, CallsKeep

LEMMA CallBlob2dKeeps ==
  ASSUME IInv, NEW op \in BlobFunctions, NEW blob \in Blobs, NEW width \in Widths, CallBlob2d(op, blob, width)
  PROVE  IInv'
  <1> DEFINE b == Call(op, << >>, << >>, blob, width, Unset, FALSE)
  <1>1. Stop("trap") \/ Stop("fault") \/ (CanCall /\ Begin(b))
    BY DEF CallBlob2d
  <1>2. CASE Stop("trap") \/ Stop("fault")
    BY <1>2, StopsKeep
  <1>3. CASE CanCall /\ Begin(b)
    <2>1. op # "concatMap" /\ op \in Operations /\ op \notin {"reduce", "foldl", "foldlstop"} /\ width \in Int
      BY ListsAssumption DEF Operations, BlobFunctions, PassOne, InTwoDimensions, Indexed, InPlace
    <2>2. Beginning(op, << >>, << >>, blob, width, Unset, FALSE)
      <3>1. << >> \in Seq(Ints)
        BY EmptySeq
      <3>2. QED
        BY <2>1, <3>1 DEF Beginning
    <2>3. b \in Calls /\ BegunAs(b, op, << >>, << >>, blob, width, Unset, FALSE)
      BY <2>2, BegunFields DEF IInv, States
    <2> HIDE DEF b
    <2>4. QED
      BY <1>3, <2>1, <2>2, <2>3, CallsKeep
  <1>4. QED
    BY <1>1, <1>2, <1>3

(* The innermost call, and the blob it reads.                               *)
LEMMA TopIs ==
  ASSUME IInv, stack # << >>
  PROVE  /\ Top \in Calls /\ Calling(Top) /\ Reads(Top) /\ Count(Top) = Size(Top)
         /\ Len(stack) \in Nat \ {0} /\ Top = stack[Len(stack)] /\ Top = Last(stack) /\ stack \in Seq(Calls)
  <1> DEFINE n == Len(stack)
  <1>1. stack \in Seq(Calls) /\ n \in Nat \ {0} /\ n \in 1 .. n
    <2>1. stack \in Seq(Calls)
      BY DEF IInv, States
    <2>2. n \in Nat \ {0}
      BY <2>1, EmptySeq
    <2>3. QED
      BY <2>1, <2>2
  <1>2. Top = stack[n] /\ Top = Last(stack)
    BY DEF Top, Last
  <1>3. Top \in Calls
    BY <1>1, <1>2, ElementOfSeq
  <1>4. Calling(Top)
    <2>1. Calling(stack[n])
      BY <1>1 DEF IInv
    <2>2. QED
      BY <1>2, <2>1
  <1>5. Reads(Top)
    <2>1. SUFFICES ASSUME stack[n].op \in BlobFunctions PROVE Reads(stack[n])
      BY <1>2 DEF Reads
    <2>2. /\ Len(blobs[stack[n].blob]) = Len(stack[n].was)
          /\ Untouched(stack, n) => Holds(stack[n], blobs[stack[n].blob])
      BY <1>1, <2>1 DEF IInv, BlobsHold
    <2>3. Undisturbed(stack[n]) => Untouched(stack, n)
      BY <1>1 DEF Untouched
    <2>4. QED
      BY <2>2, <2>3 DEF Reads
  <1>6. QED
    BY <1>1, <1>2, <1>3, <1>4, <1>5, CountIsSize

(* A value taken, by a function that was not refused its run.               *)
LEMMA TakenIs ==
  ASSUME NEW a \in Calls, NEW v \in Results(a.op), ~a.refused
  PROVE  Taken(a, v) \in Calls /\ TakenAs(a, v, Taken(a, v)) /\ Taken(a, v).count = a.count
  <1> DEFINE b == Taken(a, v)
  <1>1. a.op # "concatMap" \/ v \in Seq(Ints)
    BY ResultKinds DEF Calls
  <1>2. /\ b \in Calls
        /\ b.op = a.op /\ b.list = a.list /\ b.other = a.other /\ b.blob = a.blob
        /\ b.width = a.width /\ b.initial = a.initial /\ b.refused = a.refused
        /\ b.was = a.was /\ b.during = a.during /\ b.count = a.count /\ b.max = a.max
        /\ b.running = FALSE /\ b.args = << >> /\ b.stopped = Stops(a.op, v)
        /\ b.i = (IF Stops(a.op, v) THEN a.i ELSE a.i + 1)
        /\ b.slot = Slot(a, v) /\ b.good = Good(a, v) /\ b.out = Kept(a, v)
        /\ b.log = Append(a.log, [args |-> a.args, value |-> v])
    BY <1>1, TakenFields
  <1> HIDE DEF b
  <1>3. TakenAs(a, v, b)
    BY <1>2 DEF TakenAs
  <1>4. QED
    BY <1>2, <1>3 DEF b

LEMMA StartRunKeeps == ASSUME IInv, StartRun PROVE IInv'
  <1> DEFINE a == Top
             args == Place(a) \o Items(a) \o Accumulator(a)
             b == [a EXCEPT !.running = TRUE, !.args = args]
  <1>1. /\ stack # << >> /\ ~a.running /\ ~Finished(a) /\ stack' = [stack EXCEPT ![Len(stack)] = b]
        /\ blobs' = blobs /\ temp' = temp /\ errorTraps' = errorTraps /\ status' = status
    BY DEF StartRun, TopBecomes
  <1>2. a \in Calls /\ Calling(a) /\ Reads(a) /\ Count(a) = Size(a) /\ a = Last(stack) /\ stack \in Seq(Calls)
    BY <1>1, TopIs
  <1>3. /\ blobs \in [Blobs -> Seq(Octets)] /\ temp \in [1 .. TempCapacity -> Ints \cup {Unset}]
        /\ BlobsHold(stack, blobs) /\ Gathering(stack, temp)
    BY DEF IInv, States
  <1> HIDE DEF a
  <1>4. ~a.stopped /\ a.i <= Size(a)
    <2>1. a.i \in Nat /\ Size(a) \in Nat
      BY <1>2, SizeType
    <2>2. QED
      BY <1>1, <1>2, <2>1 DEF Finished
  <1>5. Progress(a) /\ Folds(a)
    BY <1>2 DEF Calling
  <1>6. /\ args \in Seq(Int)
        /\ a.op \in Collectors \cup Filters => Handed(a, a.i, args)
        /\ a.op \in Accumulating => args = <<a.list[a.i], Accumulated(a, Len(a.log))>>
        /\ a.op = "find" => args = <<a.list[a.i]>>
    BY <1>1, <1>2, <1>3, <1>4, <1>5, ArgumentsAre
  <1> HIDE DEF args
  <1>7. b \in Calls /\ StartedAs(a, b, args) /\ b.count = a.count /\ b.max = a.max
    BY <1>2, <1>6, StartedFields
  <1> HIDE DEF b
  <1>8. Calling(b)
    BY <1>2, <1>4, <1>6, <1>7, StartedCalling
  <1>9. b.op = a.op /\ b.blob = a.blob /\ b.was = a.was /\ b.during = a.during /\ b.i = a.i /\ b.out = a.out
        /\ b.log = a.log
    BY <1>7 DEF StartedAs
  <1>10. BlobsHold(stack', blobs)
    BY <1>1, <1>2, <1>3, <1>7, <1>9, BlobsHoldTopped
  <1>11. Gathering(stack', temp)
    BY <1>1, <1>2, <1>3, <1>7, <1>9, GatheringTopped
  <1>12. QED
    BY <1>1, <1>3, <1>7, <1>8, <1>10, <1>11, StepsKeep

LEMMA RunReturnsKeeps == ASSUME IInv, NEW v, RunReturns(v) PROVE IInv'
  <1> DEFINE a == Top
             b == Taken(a, v)
  <1>1. /\ stack # << >> /\ a.running /\ ~a.refused /\ a.op \notin {"concatMap", InPlace} /\ v \in Results(a.op)
        /\ stack' = [stack EXCEPT ![Len(stack)] = b]
        /\ blobs' = blobs /\ temp' = temp /\ errorTraps' = errorTraps /\ status' = status
    BY DEF RunReturns, Returning, TopBecomes
  <1>2. a \in Calls /\ Calling(a) /\ a = Last(stack) /\ stack \in Seq(Calls)
    BY <1>1, TopIs
  <1>3. /\ blobs \in [Blobs -> Seq(Octets)] /\ temp \in [1 .. TempCapacity -> Ints \cup {Unset}]
        /\ BlobsHold(stack, blobs) /\ Gathering(stack, temp)
    BY DEF IInv, States
  <1> HIDE DEF a
  <1>4. b \in Calls /\ TakenAs(a, v, b)
    BY <1>1, <1>2, TakenIs
  <1> HIDE DEF b
  <1>5. Calling(b)
    BY <1>1, <1>2, <1>4, TakenCalling
  <1>6. b.op = a.op /\ b.blob = a.blob /\ b.was = a.was /\ b.during = a.during
    BY <1>4 DEF TakenAs
  <1>7. b.op # InPlace /\ b.op # "concatMap"
    BY <1>1, <1>6
  <1>8. BlobsHold(stack', blobs)
    BY <1>1, <1>2, <1>3, <1>4, <1>6, <1>7, BlobsHoldTopped
  <1>9. Gathering(stack', temp)
    BY <1>1, <1>2, <1>3, <1>4, <1>6, <1>7, GatheringTopped
  <1>10. QED
    BY <1>1, <1>3, <1>4, <1>5, <1>8, <1>9, StepsKeep

LEMMA RunRefusedKeeps == ASSUME IInv, NEW v, RunRefused(v) PROVE IInv'
  <1> DEFINE a == Top
             c == Taken(a, v)
             none == << >>
             b == [c EXCEPT !.log = none]
  <1>1. /\ stack # << >> /\ a.running /\ a.refused /\ v \in Results(a.op)
        /\ stack' = [stack EXCEPT ![Len(stack)] = b]
        /\ blobs' = blobs /\ temp' = temp /\ errorTraps' = errorTraps /\ status' = status
    BY DEF RunRefused, Returning, TopBecomes
  <1>2. a \in Calls /\ Calling(a) /\ a = Last(stack) /\ stack \in Seq(Calls)
    BY <1>1, TopIs
  <1>3. /\ blobs \in [Blobs -> Seq(Octets)] /\ temp \in [1 .. TempCapacity -> Ints \cup {Unset}]
        /\ BlobsHold(stack, blobs) /\ Gathering(stack, temp)
    BY DEF IInv, States
  <1> HIDE DEF a
  <1>4. a.op \in PassOne
    BY <1>1, <1>2 DEF Calling, Progress
  <1>5. a.op # InPlace /\ a.op # "concatMap"
    BY <1>4 DEF PassOne, InPlace
  <1>6. /\ c \in Calls
        /\ c.op = a.op /\ c.list = a.list /\ c.other = a.other /\ c.blob = a.blob
        /\ c.width = a.width /\ c.initial = a.initial /\ c.refused = a.refused
        /\ c.was = a.was /\ c.during = a.during /\ c.count = a.count /\ c.max = a.max
        /\ c.running = FALSE /\ c.stopped = Stops(a.op, v)
        /\ c.i = (IF Stops(a.op, v) THEN a.i ELSE a.i + 1)
        /\ c.slot = Slot(a, v) /\ c.good = Good(a, v) /\ c.out = Kept(a, v)
    <2>1. a \in Calls /\ v \in Results(a.op) /\ a.op # "concatMap"
      BY <1>1, <1>2, <1>5
    <2>2. QED
      BY <2>1, TakenFields
  <1>7. none \in Seq(LogEntries) /\ none = << >>
    BY EmptySeq
  <1> HIDE DEF c, none
  <1>8. b \in Calls
    BY <1>6, <1>7 DEF Calls
  <1>9. /\ b.op = c.op /\ b.list = c.list /\ b.other = c.other /\ b.blob = c.blob
        /\ b.width = c.width /\ b.initial = c.initial /\ b.refused = c.refused
        /\ b.was = c.was /\ b.during = c.during /\ b.count = c.count /\ b.max = c.max
        /\ b.running = c.running /\ b.stopped = c.stopped /\ b.i = c.i
        /\ b.slot = c.slot /\ b.good = c.good /\ b.out = c.out /\ b.log = none
    BY <1>6 DEF Calls
  <1> HIDE DEF b
  <1>10. TakenAs(a, v, b)
    BY <1>1, <1>6, <1>7, <1>9 DEF TakenAs
  <1>11. Calling(b)
    BY <1>1, <1>2, <1>8, <1>10, TakenCalling
  <1>12. b.op = a.op /\ b.blob = a.blob /\ b.was = a.was /\ b.during = a.during
    BY <1>6, <1>9
  <1>13. b.op # InPlace /\ b.op # "concatMap"
    BY <1>5, <1>12
  <1>14. BlobsHold(stack', blobs)
    BY <1>1, <1>2, <1>3, <1>8, <1>12, <1>13, BlobsHoldTopped
  <1>15. Gathering(stack', temp)
    BY <1>1, <1>2, <1>3, <1>8, <1>12, <1>13, GatheringTopped
  <1>16. QED
    BY <1>1, <1>3, <1>8, <1>11, <1>14, <1>15, StepsKeep

LEMMA RunReturnsInPlaceKeeps == ASSUME IInv, NEW v, RunReturnsInPlace(v) PROVE IInv'
  <1> DEFINE a == Top
             b == Taken(a, v)
             octet == Octet(v)
  <1>1. /\ stack # << >> /\ a.running /\ a.op = InPlace /\ v \in Results(InPlace)
        /\ stack' = [stack EXCEPT ![Len(stack)] = b]
        /\ blobs' = [blobs EXCEPT ![a.blob][a.i] = octet]
        /\ temp' = temp /\ errorTraps' = errorTraps /\ status' = status
    BY DEF RunReturnsInPlace, Returning, TopBecomes
  <1>2. a \in Calls /\ Calling(a) /\ a = Last(stack) /\ stack \in Seq(Calls)
    BY <1>1, TopIs
  <1>3. /\ blobs \in [Blobs -> Seq(Octets)] /\ temp \in [1 .. TempCapacity -> Ints \cup {Unset}]
        /\ BlobsHold(stack, blobs) /\ Gathering(stack, temp)
    BY DEF IInv, States
  <1>4. octet \in Octets
    <2>1. v \in Ints
      BY <1>1 DEF Results, InPlace, Searches, Filters
    <2>2. QED
      BY <2>1, ListsAssumption, OctetType
  <1> HIDE DEF a
  <1>5. ~a.refused /\ v \in Results(a.op)
    BY <1>1, <1>2 DEF Calling, Progress, PassOne, InPlace
  <1>6. b \in Calls /\ TakenAs(a, v, b)
    BY <1>2, <1>5, TakenIs
  <1> HIDE DEF b
  <1>7. Calling(b)
    BY <1>1, <1>2, <1>5, <1>6, TakenCalling
  <1>8. b.op = a.op /\ b.blob = a.blob /\ b.was = a.was /\ b.during = a.during /\ b.i = a.i + 1
        /\ b.out = Append(a.out, octet)
    <2>1. Stops(a.op, v) = FALSE
      BY <1>1 DEF Stops, Searches, InPlace
    <2>2. Kept(a, v) = Append(a.out, octet)
      BY <1>1 DEF Kept, IntoOctets, Collectors, Filters, InPlace
    <2>3. QED
      BY <1>6, <2>1, <2>2 DEF TakenAs
  <1> HIDE DEF octet
  <1>9. BlobsHold(stack', blobs') /\ blobs' \in [Blobs -> Seq(Octets)]
    <2>1. Progress(a) /\ Maps(a)
      BY <1>2 DEF Calling
    <2>2. QED
      BY <1>1, <1>2, <1>3, <1>4, <1>6, <1>8, <2>1, BlobsHoldWritten
  <1>10. Gathering(stack', temp)
    <2>1. b.op # "concatMap"
      BY <1>1, <1>8 DEF InPlace
    <2>2. QED
      BY <1>1, <1>2, <1>3, <1>6, <1>8, <2>1, GatheringTopped
  <1>11. QED
    BY <1>1, <1>3, <1>6, <1>7, <1>9, <1>10, StepsKeep

LEMMA RunReturnsListKeeps == ASSUME IInv, NEW list \in Lists, RunReturnsList(list) PROVE IInv'
  <1> DEFINE a == Top
             c == Taken(a, list)
             added == a.count + Len(list)
             d == [c EXCEPT !.count = added]
  <1>1. stack # << >> /\ a.running /\ a.op = "concatMap"
    BY DEF RunReturnsList, Returning
  <1>2. a \in Calls /\ Calling(a) /\ a = Last(stack) /\ stack \in Seq(Calls)
    BY <1>1, TopIs
  <1>3. /\ blobs \in [Blobs -> Seq(Octets)] /\ temp \in [1 .. TempCapacity -> Ints \cup {Unset}]
        /\ BlobsHold(stack, blobs) /\ Gathering(stack, temp)
    BY DEF IInv, States
  <1>4. ~a.refused /\ list \in Results(a.op)
    BY <1>1, <1>2 DEF Calling, Progress, PassOne, Results, Searches, Filters
  <1>5. c \in Calls /\ TakenAs(a, list, c) /\ c.count = a.count
    BY <1>2, <1>4, TakenIs
  <1>6. list \in Seq(Ints) /\ Len(list) \in Nat /\ a.count \in 0 .. TempCapacity /\ TempCapacity \in Nat
    <2>1. list \in Seq(Ints)
      BY ListsAssumption
    <2>2. QED
      BY <1>2, <2>1, LenProperties, TempAssumption DEF Calls
  <1>7. \/ Stop("fault")
        \/ /\ list = << >> \/ ~Fits(a.count, list, a.max)
           /\ stack' = [stack EXCEPT ![Len(stack)] = c] /\ UNCHANGED <<blobs, temp, errorTraps, status>>
        \/ /\ added <= TempCapacity
           /\ stack' = [stack EXCEPT ![Len(stack)] = [c EXCEPT !.count = @ + Len(list)]]
           /\ temp' = TempWith(list, a.count) /\ UNCHANGED <<blobs, errorTraps, status>>
    BY <1>6 DEF RunReturnsList, TopBecomes
  <1>8. [c EXCEPT !.count = @ + Len(list)] = d
    BY <1>5 DEF Calls
  <1> HIDE DEF a, c
  <1>9. ASSUME NEW b \in Calls, TakenAs(a, list, b), NEW buffer \in [1 .. TempCapacity -> Ints \cup {Unset}],
               \/ /\ list = << >> \/ ~Fits(a.count, list, a.max)
                  /\ b.count = a.count /\ buffer = temp
               \/ /\ added <= TempCapacity /\ b.count = added /\ buffer = TempWith(list, a.count),
               stack' = [stack EXCEPT ![Len(stack)] = b], temp' = buffer, UNCHANGED <<blobs, errorTraps, status>>
        PROVE  IInv'
    <2>1. Calling(b)
      BY <1>1, <1>2, <1>4, <1>9, TakenCalling
    <2>2. b.op = a.op /\ b.blob = a.blob /\ b.was = a.was /\ b.during = a.during
      BY <1>9 DEF TakenAs
    <2>3. BlobsHold(stack', blobs)
      <3>1. b.op # InPlace
        BY <1>1, <2>2 DEF InPlace
      <3>2. QED
        BY <1>1, <1>2, <1>3, <1>9, <2>2, <3>1, BlobsHoldTopped
    <2>4. Gathering(stack', buffer)
      <3>1. Progress(a)
        BY <1>2 DEF Calling
      <3>2. QED
        BY <1>1, <1>2, <1>3, <1>9, <3>1, GatheringTaken
    <2>5. QED
      BY <1>1, <1>3, <1>9, <2>1, <2>3, <2>4, StepsKeep
  <1>10. CASE Stop("fault")
    BY <1>10, StopsKeep
  <1>11. CASE /\ list = << >> \/ ~Fits(a.count, list, a.max)
              /\ stack' = [stack EXCEPT ![Len(stack)] = c] /\ UNCHANGED <<blobs, temp, errorTraps, status>>
    BY <1>3, <1>5, <1>9, <1>11
  <1>12. CASE /\ added <= TempCapacity
              /\ stack' = [stack EXCEPT ![Len(stack)] = [c EXCEPT !.count = @ + Len(list)]]
              /\ temp' = TempWith(list, a.count) /\ UNCHANGED <<blobs, errorTraps, status>>
    <2>1. added \in 0 .. TempCapacity
      BY <1>6, <1>12
    <2> HIDE DEF added
    <2>2. d \in Calls /\ d.count = added
      BY <1>5, <2>1 DEF Calls
    <2>3. TakenAs(a, list, d)
      <3>1. /\ d.op = c.op /\ d.list = c.list /\ d.other = c.other /\ d.blob = c.blob
            /\ d.width = c.width /\ d.initial = c.initial /\ d.refused = c.refused
            /\ d.was = c.was /\ d.during = c.during /\ d.max = c.max
            /\ d.running = c.running /\ d.stopped = c.stopped /\ d.i = c.i
            /\ d.slot = c.slot /\ d.good = c.good /\ d.out = c.out /\ d.log = c.log
        BY <1>5 DEF Calls
      <3> HIDE DEF d
      <3>2. QED
        BY <1>5, <3>1 DEF TakenAs
    <2>4. TempWith(list, a.count) \in [1 .. TempCapacity -> Ints \cup {Unset}]
      <3>1. ASSUME NEW k \in 1 .. TempCapacity, k - a.count \in DOMAIN list PROVE list[k - a.count] \in Ints
        <4>1. DOMAIN list = 1 .. Len(list)
          BY <1>6, LenProperties
        <4>2. QED
          BY <1>6, <3>1, <4>1, ElementOfSeq
      <3>2. QED
        BY <1>3, <3>1 DEF TempWith
    <2>5. stack' = [stack EXCEPT ![Len(stack)] = d]
      BY <1>8, <1>12
    <2> HIDE DEF d
    <2>6. QED
      BY <1>9, <1>12, <2>2, <2>3, <2>4, <2>5
  <1>13. QED
    BY <1>7, <1>10, <1>11, <1>12

(* The innermost call returns to the run that made it.                      *)
LEMMA ReturnKeeps == ASSUME IInv, Return PROVE IInv'
  <1> DEFINE a == Top
             n == Len(stack)
             e == [op |-> a.op, blob |-> a.blob]
             rest == Popped(stack, e)
  <1>1. /\ stack # << >> /\ stack' = rest /\ blobs' = blobs /\ errorTraps' = errorTraps /\ status' = status
        /\ temp' = IF n = 1 THEN [k \in 1 .. TempCapacity |-> Unset] ELSE temp
    BY DEF Return, Popped, Disturbed, Depth
  <1>2. a \in Calls /\ a = Last(stack) /\ stack \in Seq(Calls)
    BY <1>1, TopIs
  <1>3. /\ blobs \in [Blobs -> Seq(Octets)] /\ temp \in [1 .. TempCapacity -> Ints \cup {Unset}]
        /\ BlobsHold(stack, blobs) /\ Gathering(stack, temp)
    BY DEF IInv, States
  <1> HIDE DEF a
  <1>4. e \in Nested /\ e = [op |-> Last(stack).op, blob |-> Last(stack).blob]
    BY <1>2 DEF Calls, Nested
  <1> HIDE DEF e
  <1>5. /\ rest \in Seq(Calls) /\ n \in Nat \ {0} /\ Len(rest) = n - 1
        /\ \A k \in 1 .. n - 1 : rest[k] = Disturbed(stack[k], e) /\ stack[k] \in Calls
    BY <1>1, <1>2, <1>4, PoppedIs
  <1>6. BlobsHold(rest, blobs)
    BY <1>1, <1>2, <1>3, <1>4, BlobsHoldPopped
  <1>7. Gathering(rest, temp')
    BY <1>1, <1>2, <1>3, <1>4, GatheringPopped
  <1>8. temp' \in [1 .. TempCapacity -> Ints \cup {Unset}]
    BY <1>1, <1>3
  <1> HIDE DEF rest, n
  <1>9. ASSUME NEW k \in 1 .. Len(rest)
        PROVE  Calling(rest[k]) /\ (k < Len(rest) => rest[k].running)
    <2>1. k \in 1 .. n - 1 /\ k \in 1 .. n /\ k < n
      BY <1>5
    <2>2. Calling(stack[k]) /\ stack[k].running
      BY <2>1 DEF IInv, n
    <2> DEFINE c == stack[k]
               b == rest[k]
    <2>3. c \in Calls /\ b = Disturbed(c, e)
      BY <1>5, <2>1
    <2> HIDE DEF c, b
    <2>4. b \in Calls /\ DisturbedAs(c, b) /\ (Undisturbed(b) => Undisturbed(c))
      BY <1>4, <2>3, DisturbedFields
    <2>5. Calling(c) /\ c.running
      BY <2>2 DEF c
    <2>6. Calling(b)
      BY <2>3, <2>4, <2>5, DisturbedCalling
    <2>7. b.running
      BY <2>4, <2>5 DEF DisturbedAs
    <2>8. QED
      BY <2>6, <2>7 DEF b
  <1>10. States'
    BY <1>1, <1>3, <1>5, <1>8 DEF IInv, States
  <1>11. QED
    BY <1>1, <1>6, <1>7, <1>9, <1>10 DEF IInv

LEMMA NextIInv == IInv /\ [Next]_vars => IInv'
  <1> SUFFICES ASSUME IInv, [Next]_vars PROVE IInv'
    OBVIOUS
  <1>1. ASSUME NEW list \in Lists, NEW op \in ListFunctions, CallList(op, list) PROVE IInv'
    BY <1>1, CallListKeeps
  <1>2. ASSUME NEW list \in Lists, NEW other \in Lists, CallMap2(list, other) PROVE IInv'
    BY <1>2, CallMap2Keeps
  <1>3. ASSUME NEW list \in Lists, CallConcatMap(list) PROVE IInv'
    BY <1>3, CallConcatMapKeeps
  <1>4. ASSUME NEW list \in Lists, CallReduce(list) PROVE IInv'
    BY <1>4, CallReduceKeeps
  <1>5. ASSUME NEW list \in Lists, NEW op \in {"foldl", "foldlstop"}, NEW initial \in Ints, NEW closure \in BOOLEAN,
               CallFold(op, list, initial, closure)
        PROVE  IInv'
    BY <1>5, CallFoldKeeps
  <1>6. ASSUME NEW op \in BlobFunctions, NEW b \in Blobs, NEW closure \in BOOLEAN, CallBlob(op, b, closure)
        PROVE  IInv'
    BY <1>6, CallBlobKeeps
  <1>7. ASSUME NEW op \in BlobFunctions, NEW b \in Blobs, NEW width \in Widths, CallBlob2d(op, b, width)
        PROVE  IInv'
    BY <1>7, CallBlob2dKeeps
  <1>8. CASE StartRun
    BY <1>8, StartRunKeeps
  <1>9. ASSUME NEW v, RunReturnsInPlace(v) PROVE IInv'
    BY <1>9, RunReturnsInPlaceKeeps
  <1>10. ASSUME NEW list \in Lists, RunReturnsList(list) PROVE IInv'
    BY <1>10, RunReturnsListKeeps
  <1>11. ASSUME NEW v, RunReturns(v) \/ RunRefused(v) PROVE IInv'
    BY <1>11, RunReturnsKeeps, RunRefusedKeeps
  <1>12. CASE Return
    BY <1>12, ReturnKeeps
  <1>13. CASE UNCHANGED vars
    BY <1>13, StutterKeeps
  <1>14. QED
    BY <1>1, <1>2, <1>3, <1>4, <1>5, <1>6, <1>7, <1>8, <1>9, <1>10, <1>11, <1>12, <1>13 DEF Next

(* The stack of the nested calls, what each has done, the blobs and the     *)
(* temporary buffer stay consistent.                                        *)
THEOREM Inductive == Spec => []IInv
  BY InitIInv, NextIInv, PTL DEF Spec

-----------------------------------------------------------------------------
LEMMA TypeFollows == IInv => TypeOK
  <1> SUFFICES ASSUME IInv PROVE TypeOK
    OBVIOUS
  <1>1. ASSUME NEW k \in DOMAIN stack
        PROVE  LET a == stack[k]
               IN /\ a.op \in ListFunctions \cup BlobFunctions
                  /\ a.i \in 1 .. Count(a) + 1
                  /\ a.running => a.i <= Count(a) /\ ~a.stopped
                  /\ a.count <= TempCapacity
                  /\ Len(a.out) <= Count(a)
                  /\ k < Depth => a.running
    <2> DEFINE a == stack[k]
    <2>1. stack \in Seq(Calls) /\ k \in 1 .. Len(stack)
      BY LenProperties DEF IInv, States
    <2>2. a \in Calls /\ Calling(a) /\ (k < Len(stack) => a.running)
      BY <2>1, ElementOfSeq DEF IInv
    <2>3. a.op \in BlobFunctions => Len(blobs[a.blob]) = Len(a.was)
      BY <2>1 DEF IInv, BlobsHold
    <2> HIDE DEF a
    <2>4. Count(a) = Size(a)
      BY <2>3 DEF Count, Size
    <2>5. Size(a) \in Nat /\ a.i \in Nat /\ Skipped(a) \in {0, 1} /\ Len(a.out) \in Nat
      BY <2>2, SizeType
    <2>6. /\ a.i \in 1 .. Size(a) + 1 /\ Len(a.out) <= Size(a)
          /\ a.running => a.i <= Size(a) /\ ~a.stopped
      BY <2>2, <2>5 DEF Calling, Progress
    <2>7. a.op \in ListFunctions \cup BlobFunctions
      BY <2>2 DEF Calls, Operations
    <2>8. a.count <= TempCapacity
      <3>1. a.count \in 0 .. TempCapacity
        BY <2>2 DEF Calls
      <3>2. QED
        BY <3>1, TempAssumption
    <2>9. QED
      BY <2>2, <2>4, <2>6, <2>7, <2>8 DEF a, Depth
  <1>2. QED
    BY <1>1 DEF IInv, States, TypeOK

(* Each call of these functions is where a loop over its items can be, and  *)
(* has gathered no more than one value per item it is past.                 *)
THEOREM TypeCorrect == Spec => []TypeOK
  BY Inductive, TypeFollows, PTL

\* The loop of a call that is about to return is at its end, unless it stopped.
Over(a) ==
  /\ a \in Calls /\ Calling(a) /\ ~a.running /\ Count(a) = Size(a) /\ ~a.refused
  /\ a.stopped \in BOOLEAN /\ (~a.stopped => Len(a.log) = Size(a) - Skipped(a))
  /\ Size(a) \in Nat /\ Skipped(a) \in {0, 1} /\ Len(a.log) \in Nat /\ DOMAIN a.log = 1 .. Len(a.log)

LEMMA ReadyIsOver ==
  ASSUME IInv, NEW op, Ready(op)
  PROVE  Over(Top) /\ Reads(Top) /\ Top.op = op /\ stack # << >>
  <1> DEFINE a == Top
  <1>1. stack # << >> /\ Finished(a) /\ ~a.refused /\ a.op = op
    BY DEF Ready
  <1>2. a \in Calls /\ Calling(a) /\ Reads(a) /\ Count(a) = Size(a)
    BY <1>1, TopIs
  <1> HIDE DEF a
  <1>3. Size(a) \in Nat /\ Skipped(a) \in {0, 1} /\ a.i \in Nat
    BY <1>2, SizeType
  <1>4. a.log \in Seq(LogEntries) /\ a.stopped \in BOOLEAN
    BY <1>2 DEF Calls
  <1>5. Len(a.log) \in Nat /\ DOMAIN a.log = 1 .. Len(a.log)
    BY <1>4, LenProperties
  <1>6. ~a.running /\ (a.stopped \/ a.i > Size(a))
    BY <1>1, <1>2 DEF Finished
  <1>7. /\ a.i <= Size(a) + 1
        /\ Len(a.log) = a.i - 1 - Skipped(a) + IF a.stopped THEN 1 ELSE 0
    BY <1>1, <1>2, <1>3 DEF Calling, Progress
  <1>8. ~a.stopped => Len(a.log) = Size(a) - Skipped(a)
    BY <1>3, <1>4, <1>5, <1>6, <1>7
  <1>9. QED
    BY <1>1, <1>2, <1>3, <1>4, <1>5, <1>6, <1>8 DEF Over, a

LEMMA MapsFollow == IInv => MapsArePointwise
  <1> SUFFICES ASSUME IInv, ReadyIn(Collectors \cup Filters)
               PROVE  MapsArePointwise
    BY DEF MapsArePointwise
  <1> DEFINE a == Top
  <1>1. PICK op \in Collectors \cup Filters : Ready(op)
    BY DEF ReadyIn
  <1>2. Over(a) /\ Reads(a) /\ a.op \in Collectors \cup Filters
    BY <1>1, ReadyIsOver
  <1> HIDE DEF a
  <1>3. Maps(a) /\ Progress(a)
    BY <1>2 DEF Over, Calling
  <1>4. ~a.stopped /\ Skipped(a) = 0
    <2>1. a.op \notin Searches \cup {"foldlstop"} /\ a.op # "reduce"
      BY <1>2 DEF Collectors, Filters, IntoOctets, InPlace, Searches
    <2>2. QED
      BY <1>3, <2>1 DEF Progress, Skipped
  <1>5. Len(a.log) = Size(a) /\ Count(a) = Size(a) /\ Size(a) \in Nat /\ DOMAIN a.log = 1 .. Len(a.log)
    BY <1>2, <1>4 DEF Over
  <1>6. /\ \A k \in 1 .. Len(a.log) : Handed(a, k, a.log[k].args)
        /\ a.out = Gains(a)
    BY <1>2, <1>3 DEF Maps, Over
  <1>7. Len(a.log) = IF a.op = "map2" THEN Count(a) ELSE Len(Source(a))
    <2>1. CASE a.op = "map2"
      BY <1>5, <2>1
    <2>2. CASE a.op \in BlobFunctions
      <3>1. Size(a) = Len(a.was) /\ Source(a) = a.was /\ a.op # "map2"
        BY <2>2 DEF Size, Source, BlobFunctions, PassOne, InTwoDimensions, Indexed, InPlace
      <3>2. QED
        BY <1>5, <3>1
    <2>3. CASE a.op \notin BlobFunctions \cup {"map2"}
      <3>1. Size(a) = Len(a.list) /\ Source(a) = a.list
        BY <2>3 DEF Size, Source
      <3>2. QED
        BY <1>5, <2>3, <3>1
    <2>4. QED
      BY <2>1, <2>2, <2>3
  <1>8. ASSUME NEW k \in DOMAIN a.log
        PROVE  /\ PlaceIs(a, k, a.log[k].args)
               /\ a.op = "map2" => a.log[k].args = <<a.list[k], a.other[k]>>
               /\ a.op # "map2" /\ Undisturbed(a) => Last(a.log[k].args) = Source(a)[k]
    BY <1>5, <1>6 DEF Handed
  <1>9. a.out = IF a.op \in Filters THEN FlattenSeq(Values(a))
                ELSE [k \in DOMAIN a.log |-> IF a.op \in IntoOctets THEN Octet(a.log[k].value) ELSE a.log[k].value]
    BY <1>6 DEF Gains
  <1>10. ASSUME a.op = InPlace, Undisturbed(a) PROVE blobs[a.blob] = a.out
    <2>1. a.op \in BlobFunctions /\ a.op \notin Filters
      BY <1>10 DEF BlobFunctions, PassOne, InTwoDimensions, Indexed, InPlace, Filters
    <2>2. Holds(a, blobs[a.blob]) /\ a.blob \in Blobs
      BY <1>2, <1>3, <1>10, <2>1 DEF Reads, Progress
    <2>3. Size(a) = Len(a.was)
      BY <2>1 DEF Size, BlobFunctions, PassOne, InTwoDimensions, Indexed, InPlace
    <2>4. a \in Calls /\ a.i \in Nat
      BY <1>2 DEF Over, Calls
    <2>5. a.i = Size(a) + 1
      BY <1>2, <1>3, <1>4, <1>5, <2>4 DEF Progress, Over
    <2> DEFINE octets == blobs[a.blob]
               out == a.out
               m == Size(a)
    <2>6. \A j \in 1 .. m : octets[j] = out[j]
      <3>1. ASSUME NEW j \in 1 .. m PROVE octets[j] = out[j]
        <4>1. j < a.i /\ j \in 1 .. Len(a.was)
          BY <1>5, <2>3, <2>5
        <4>2. QED
          BY <1>10, <2>2, <4>1 DEF Holds
      <3>2. QED
        BY <3>1
    <2>7. octets \in Seq(Octets) /\ Len(octets) = m
      BY <2>2, <2>3 DEF IInv, States, Holds
    <2>8. out = [k \in DOMAIN a.log |-> IF a.op \in IntoOctets THEN Octet(a.log[k].value) ELSE a.log[k].value]
      BY <1>9, <2>1
    <2>9. DOMAIN out = 1 .. m
      BY <1>5, <2>8
    <2>10. out \in Seq(Int)
      BY <2>4 DEF Calls
    <2> HIDE DEF octets, out, m
    <2>11. Len(out) = m
      <3>1. m \in Nat
        BY <1>5 DEF m
      <3>2. Len(out) \in Nat /\ DOMAIN out = 1 .. Len(out)
        BY <2>10, LenProperties
      <3>3. QED
        BY <2>9, <3>1, <3>2
    <2>12. octets \in Seq(Int)
      <3>1. Octets \subseteq Int
        BY BlobsAssumption DEF Octets
      <3>2. octets \in [1 .. m -> Octets]
        BY <2>7, LenProperties
      <3>3. octets \in [1 .. m -> Int] /\ m \in Nat
        BY <1>5, <2>7, <3>1, <3>2 DEF m
      <3>4. QED
        BY <3>3, SeqDef
    <2>13. octets = out
      BY <2>6, <2>7, <2>10, <2>11, <2>12, SeqEqual
    <2>14. QED
      BY <2>13 DEF octets, out
  <1>11. QED
    BY <1>7, <1>8, <1>9, <1>10 DEF MapsArePointwise, a

(* A map or filter over a list or blob is pointwise, whatever functions its *)
(* argument calls in the meantime, and however deep.                        *)
THEOREM MapsCorrect == Spec => []MapsArePointwise
  BY Inductive, MapsFollow, PTL

LEMMA FoldsFollow == IInv => FoldsThread
  <1> SUFFICES ASSUME IInv, ReadyIn(Accumulating)
               PROVE  FoldsThread
    BY DEF FoldsThread
  <1> DEFINE a == Top
             skipped == IF a.op = "reduce" THEN 1 ELSE 0
             first == IF a.op = "reduce" THEN Head(a.list) ELSE a.initial
             After(k) == IF a.op = "foldlstop" THEN a.log[k].value[1] ELSE a.log[k].value
             stopped == a.op = "foldlstop" /\ a.log # << >> /\ Last(a.log).value = Nothing
             kept == Len(a.log) - IF stopped THEN 1 ELSE 0
  <1>1. PICK op \in Accumulating : Ready(op)
    BY DEF ReadyIn
  <1>2. Over(a) /\ a.op \in Accumulating
    BY <1>1, ReadyIsOver
  <1> HIDE DEF a
  <1>3. Folds(a) /\ Progress(a)
    BY <1>2 DEF Over, Calling
  <1>4. /\ \A k \in 1 .. Len(a.log) : a.log[k].args = <<a.list[k + Skipped(a)], Accumulated(a, k - 1)>>
        /\ a.stopped <=> stopped
        /\ ~a.stopped /\ (a.op = "foldl" => a.i > 1 \/ a.list = << >>) => a.slot = Accumulated(a, Len(a.log))
        /\ a.op = "foldlstop" => a.good = Accumulated(a, Len(a.log) - IF a.stopped THEN 1 ELSE 0)
    BY <1>2, <1>3 DEF Folds
  <1>5. skipped = Skipped(a) /\ \A k : Accumulated(a, k) = IF k = 0 THEN first ELSE After(k)
    BY DEF Skipped, Accumulated, FirstOf, AfterRun
  <1>6. /\ Size(a) = Len(a.list) /\ Size(a) \in Nat /\ Skipped(a) \in {0, 1} /\ Len(a.log) \in Nat
        /\ DOMAIN a.log = 1 .. Len(a.log) /\ (~a.stopped => Len(a.log) = Size(a) - Skipped(a))
    <2>1. a.op \notin BlobFunctions /\ a.op # "map2"
      BY <1>2 DEF Accumulating, BlobFunctions, PassOne, InTwoDimensions, Indexed, InPlace
    <2>2. Size(a) = Len(a.list)
      BY <2>1 DEF Size
    <2>3. QED
      BY <1>2, <2>2 DEF Over
  <1>7. ASSUME NEW k \in DOMAIN a.log
        PROVE  a.log[k].args = <<a.list[k + skipped], IF k = 1 THEN first ELSE After(k - 1)>>
    <2>1. k \in 1 .. Len(a.log)
      BY <1>6
    <2>2. Accumulated(a, k - 1) = IF k = 1 THEN first ELSE After(k - 1)
      BY <1>5, <2>1
    <2>3. QED
      BY <1>4, <1>5, <2>1, <2>2
  <1>8. ~stopped => Len(a.log) + skipped = Len(a.list)
    <2> HIDE DEF stopped, skipped
    <2>1. QED
      BY <1>4, <1>5, <1>6
  <1>9. (IF a.op = "foldlstop" THEN a.good ELSE a.slot) = IF kept = 0 THEN first ELSE After(kept)
    <2>1. CASE a.op = "foldlstop"
      BY <1>4, <1>5, <2>1
    <2>2. CASE a.op # "foldlstop"
      <3>1. ~a.stopped /\ kept = Len(a.log)
        BY <1>4, <1>6, <2>2
      <3>2. a.op = "foldl" => a.i > 1 \/ a.list = << >>
        <4>1. SUFFICES ASSUME a.op = "foldl" PROVE a.i > 1 \/ a.list = << >>
          OBVIOUS
        <4>2. a \in Calls /\ a.i \in Nat /\ a.list \in Seq(Ints)
          BY <1>2 DEF Over, Calls
        <4>3. a.i = Size(a) + 1
          <5>1. Skipped(a) = 0
            BY <4>1 DEF Skipped
          <5>2. ~a.refused
            BY <1>2 DEF Over
          <5>3. Len(a.log) = a.i - 1
            BY <1>3, <1>6, <3>1, <4>2, <5>1, <5>2 DEF Progress
          <5>4. QED
            BY <1>6, <3>1, <4>2, <5>1, <5>3
        <4>4. QED
          BY <1>6, <4>2, <4>3, EmptySeq
      <3>3. a.slot = Accumulated(a, kept)
        BY <1>4, <3>1, <3>2
      <3>4. QED
        BY <1>5, <2>2, <3>3
    <2>3. QED
      BY <2>1, <2>2
  <1>10. QED
    BY <1>7, <1>8, <1>9 DEF FoldsThread, a

(* The folds thread their accumulator through every item, in order, even    *)
(* though the runs of their argument fold as well.                          *)
THEOREM Threading == Spec => []FoldsThread
  BY Inductive, FoldsFollow, PTL

LEMMA SearchesFollow == IInv => SearchesStopAtTheFirst
  <1> SUFFICES ASSUME IInv, ReadyIn(Searches)
               PROVE  SearchesStopAtTheFirst
    BY DEF SearchesStopAtTheFirst
  <1> DEFINE a == Top
  <1>1. PICK op \in Searches : Ready(op)
    BY DEF ReadyIn
  <1>2. Over(a) /\ a.op \in Searches
    BY <1>1, ReadyIsOver
  <1> HIDE DEF a
  <1>3. Search(a) /\ ~a.refused
    BY <1>2 DEF Over, Calling
  <1>4. Skipped(a) = 0
    BY <1>2 DEF Skipped, Searches
  <1>5. ~a.stopped => Len(a.log) = Count(a)
    BY <1>2, <1>4 DEF Over
  <1>6. a.stopped \in BOOLEAN
    BY <1>2 DEF Over
  <1>7. /\ \A k \in 1 .. Len(a.log) - 1 : ~a.log[k].value
        /\ a.stopped <=> a.log # << >> /\ Last(a.log).value
        /\ a.op = "find" /\ a.stopped => <<a.list[a.i]>> = Last(a.log).args
    BY <1>2, <1>3 DEF Search
  <1>8. a.stopped = (a.log # << >> /\ Last(a.log).value)
    BY <1>6, <1>7
  <1>9. QED
    BY <1>5, <1>7, <1>8 DEF SearchesStopAtTheFirst, a

(* A search asks about the items in order and stops at the first for which  *)
(* the answer is true.                                                      *)
THEOREM Stopping == Spec => []SearchesStopAtTheFirst
  BY Inductive, SearchesFollow, PTL

LEMMA ConcatMapFollows == IInv => ConcatMapConcatenates
  <1> SUFFICES ASSUME IInv, Ready("concatMap"), NoOtherConcatMap(Top), TotalOf(Top) < TempCapacity
               PROVE  Concatenates(Top)
    BY DEF ConcatMapConcatenates
  <1> DEFINE a == Top
             f == FlattenSeq(Values(a))
  <1>1. stack # << >> /\ a.op = "concatMap" /\ Len(stack) = 1
    BY DEF Ready, NoOtherConcatMap, Depth
  <1>2. a \in Calls /\ Calling(a) /\ a = stack[1]
    BY <1>1, TopIs
  <1>3. \A k \in 1 .. Len(a.during) : a.during[k].op # "concatMap"
    <2>1. a.during \in Seq(Nested)
      BY <1>2 DEF Calls
    <2>2. DOMAIN a.during = 1 .. Len(a.during)
      BY <2>1, LenProperties
    <2>3. QED
      BY <2>2 DEF NoOtherConcatMap
  <1> HIDE DEF a
  <1>4. GathersAlone(stack)
    BY <1>1, <1>2, <1>3 DEF GathersAlone
  <1>5. GatheredIn(a, temp)
    BY <1>2, <1>4 DEF IInv, Gathering
  <1>6. a.count = Len(f) /\ \A j \in 1 .. a.count : temp[j] = f[j]
    BY <1>5 DEF GatheredIn, TotalOf, a
  <1>7. f \in Seq(Ints)
    <2>1. \A k \in 1 .. Len(a.log) : a.log[k].value \in Seq(Ints)
      <3>1. \A k \in 1 .. Len(a.log) : a.log[k].value \in Results("concatMap")
        BY <1>1, <1>2 DEF Calling, Progress
      <3>2. Results("concatMap") = Lists
        BY DEF Results, Searches, Filters
      <3>3. QED
        BY <3>1, <3>2, ListsAssumption
    <2>2. Values(a) \in Seq(Seq(Ints))
      BY <1>2, <2>1, ValuesType
    <2>3. QED
      BY <2>2, FlattenType
  <1> DEFINE n == a.count
             g == SubSeq(temp, 1, n)
  <1>8. n \in Nat /\ \A j \in 1 .. n : f[j] \in Ints
    BY <1>6, <1>7, LenProperties, ElementOfSeq
  <1>9. \A j \in 1 .. n : temp[j] \in Ints
    BY <1>6, <1>8
  <1> HIDE DEF n, f
  <1>10. g \in Seq(Ints) /\ Len(g) = n /\ \A j \in 1 .. n : g[j] = temp[j]
    <2>1. /\ SubSeq(temp, 1, n) \in Seq(Ints)
          /\ Len(SubSeq(temp, 1, n)) = IF 1 <= n THEN n - 1 + 1 ELSE 0
          /\ \A i \in 1 .. n - 1 + 1 : SubSeq(temp, 1, n)[i] = temp[1 + i - 1]
      BY <1>8, <1>9, SubSeqProperties
    <2>2. n - 1 + 1 = n /\ (~(1 <= n) => n = 0)
      BY <1>8
    <2>3. QED
      BY <1>8, <2>1, <2>2
  <1> HIDE DEF g
  <1>11. g = f
    BY <1>6, <1>7, <1>8, <1>10, SeqEqual DEF n
  <1>12. QED
    BY <1>11 DEF Concatenates, Gathered, f, g, n, a

(* A List.concatMap the program calls from its outermost function, in whose *)
(* runs no other one is called and whose lists leave the buffer less than   *)
(* full, returns the items of all the lists, in order.  It says nothing of  *)
(* nested ones and of a full buffer, where items are lost.                  *)
THEOREM Concatenation == Spec => []ConcatMapConcatenates
  BY Inductive, ConcatMapFollows, PTL
=============================================================================
