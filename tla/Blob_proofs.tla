---------------------------- MODULE Blob_proofs ----------------------------
(***************************************************************************)
(* Proofs about blobs in two dimensions, for blobs, areas and dimensions of *)
(* every size: also of the wrong ones, whose product, sum or quotient wraps. *)
(***************************************************************************)
EXTENDS Core_proofs

-----------------------------------------------------------------------------
(* Columns, rows and octets.                                                *)

\* Octets, no more than there is room for.
IsBlob(octets) == octets \in Seq(Octets) /\ Len(octets) <= Capacity

\* A blob is indexed by integers that do not wrap.
LEMMA BlobIsShort ==
  ASSUME NEW octets, IsBlob(octets)
  PROVE  /\ Len(octets) \in 0 .. Capacity /\ Capacity < Half /\ Half \in Nat /\ Capacity \in Nat
         /\ DOMAIN octets = 1 .. Len(octets)
         /\ \A k \in 1 .. Len(octets) : octets[k] \in Octets
  BY CapacityAssumption, HalfAssumption DEF IsBlob

\* A part of an area is no larger than it.
LEMMA AreaFits ==
  ASSUME NEW w \in Nat, NEW h \in Nat, NEW a \in 0 .. w, NEW b \in 0 .. h
  PROVE  a * b \in 0 .. w * h
  <1>1. a * b <= w * b
    <2>1. (w - a) * b >= 0
      OBVIOUS
    <2>2. (w - a) * b = w * b - a * b
      OBVIOUS
    <2>3. QED
      BY <2>1, <2>2
  <1>2. w * b <= w * h
    <2>1. w * (h - b) >= 0
      OBVIOUS
    <2>2. w * (h - b) = w * h - w * b
      OBVIOUS
    <2>3. QED
      BY <2>1, <2>2
  <1>3. a * b \in Nat /\ w * b \in Nat /\ w * h \in Nat
    OBVIOUS
  <1>4. QED
    BY <1>1, <1>2, <1>3

\* A cell and the beginning of its row are within the area.
LEMMA RowFits ==
  ASSUME NEW w \in Nat \ {0}, NEW h \in Nat, NEW x \in 0 .. w - 1, NEW y \in 0 .. h - 1
  PROVE  y * w + x \in 0 .. w * h - 1 /\ y * w \in 0 .. w * h - 1
  <1>1. (h - 1 - y) * w >= 0
    OBVIOUS
  <1>2. (h - 1 - y) * w = w * h - w - y * w
    OBVIOUS
  <1>3. y * w \in Nat /\ w * h \in Nat
    OBVIOUS
  <1>4. QED
    BY <1>1, <1>2, <1>3

\* Column and row of a cell.
LEMMA CellIsOne ==
  ASSUME NEW w \in Nat \ {0}, NEW x \in 0 .. w - 1, NEW y \in Int
  PROVE  (y * w + x) \div w = y /\ (y * w + x) % w = x
  <1>1. y * w \in Int /\ y * w = w * y
    OBVIOUS
  <1> DEFINE n == y * w + x
  <1>2. n \in Int /\ n = w * y + x
    BY <1>1
  <1>3. n \div w = y
    <2> HIDE DEF n
    <2>1. QED
      BY <1>2, DivUnique
  <1>4. n = w * (n \div w) + (n % w)
    <2> HIDE DEF n
    <2>1. QED
      BY <1>2, DivMod
  <1>5. n % w = x
    <2> HIDE DEF n
    <2>1. n % w \in Int
      BY <1>2, DivMod
    <2>2. QED
      BY <1>1, <1>2, <1>3, <1>4, <2>1
  <1>6. QED
    BY <1>3, <1>5

\* Cells of different columns or rows are different octets.
LEMMA CellsDiffer ==
  ASSUME NEW w \in Nat \ {0}, NEW x \in 0 .. w - 1, NEW y \in Int, NEW u \in 0 .. w - 1, NEW v \in Int,
         y * w + x = v * w + u
  PROVE  x = u /\ y = v
  <1>1. (y * w + x) \div w = y /\ (y * w + x) % w = x
    BY CellIsOne
  <1>2. (v * w + u) \div w = v /\ (v * w + u) % w = u
    BY CellIsOne
  <1>3. QED
    BY <1>1, <1>2, Zenon

\* A cell of a blob of whole rows is an octet of it.
LEMMA CellInside ==
  ASSUME NEW octets, IsBlob(octets), NEW size, size.width \in Int, size.height \in Int,
         IsWhole(octets, size), NEW x \in 0 .. size.width - 1, NEW y \in 0 .. size.height - 1
  PROVE  /\ y * size.width + x \in 0 .. Len(octets) - 1
         /\ Int32(y * size.width + x) = y * size.width + x
         /\ Int32(y * size.width) = y * size.width
         /\ y * size.width \in Nat
         /\ Pixel(octets, size.width, x, y) \in Octets
         /\ At(octets, y * size.width + x) = Pixel(octets, size.width, x, y)
  <1>1. /\ size.width \in Nat \ {0} /\ size.height \in Nat
        /\ Len(octets) = size.width * size.height
    BY DEF IsWhole
  <1>2. y * size.width + x \in 0 .. size.width * size.height - 1 /\ y * size.width \in 0 .. size.width * size.height - 1
    BY <1>1, RowFits
  <1> DEFINE n == y * size.width + x
             m == y * size.width
  <1>3. n \in 0 .. Len(octets) - 1 /\ m \in 0 .. Len(octets) - 1
    BY <1>1, <1>2
  <1>4. n + 1 = y * size.width + x + 1
    BY <1>2
  <1> HIDE DEF n, m
  <1>5. Int32(n) = n /\ Int32(m) = m
    <2>1. Len(octets) \in 0 .. Capacity /\ Capacity < Half /\ Half \in Nat /\ Capacity \in Nat
      BY BlobIsShort
    <2>2. n \in Int /\ m \in Int /\ -Half <= n /\ n <= Half - 1 /\ -Half <= m /\ m <= Half - 1
      BY <1>3, <2>1
    <2>3. QED
      <3>1. Fits(n) /\ Fits(m)
        BY <2>1, <2>2 DEF Fits
      <3>2. QED
        BY <2>2, <3>1, Int32Fits
  <1>6. octets[n + 1] \in Octets /\ m \in Nat
    BY <1>3, BlobIsShort
  <1>7. QED
    BY <1>3, <1>4, <1>5, <1>6 DEF n, m, Pixel, At

\* Blob.get2d finds the octet, or tells that it is outside.
LEMMA Get2dIsRight ==
  ASSUME NEW octets, IsBlob(octets), NEW size, size.width \in Int, size.height \in Int, IsWhole(octets, size),
         NEW position, position.x \in Int, position.y \in Int
  PROVE  BlobGet2d(position, size, octets)
           = Returned(IF LiesIn(position, [width |-> 1, height |-> 1], size)
                      THEN Just(Pixel(octets, size.width, position.x, position.y)) ELSE Nothing)
  <1> DEFINE inside == /\ 0 <= position.x /\ position.x < size.width
                       /\ 0 <= position.y /\ position.y < size.height
             index == position.y * size.width + position.x
  <1>1. LiesIn(position, [width |-> 1, height |-> 1], size) <=> inside
    BY DEF LiesIn
  <1>2. CASE inside
    <2>1. Int32(index) = index /\ index \in 0 .. Len(octets) - 1 /\ At(octets, index) = Pixel(octets, size.width, position.x, position.y)
      <3>1. position.x \in 0 .. size.width - 1 /\ position.y \in 0 .. size.height - 1
        BY <1>2
      <3>2. QED
        BY <3>1, CellInside
    <2>2. Inside(octets, {Int32(index)})
      BY <2>1 DEF Inside, Count
    <2>3. QED
      BY <1>1, <1>2, <2>1, <2>2 DEF BlobGet2d
  <1>3. CASE ~inside
    BY <1>1, <1>3 DEF BlobGet2d
  <1>4. QED
    BY <1>2, <1>3

-----------------------------------------------------------------------------
(* Blobs that are written and made.                                         *)

\* Blobs are functions from positions to octets.
LEMMA FunctionIsBlob ==
  ASSUME NEW n \in 0 .. Capacity, NEW f \in [1 .. n -> Octets]
  PROVE  IsBlob(f) /\ Len(f) = n
  <1>1. n \in Nat /\ Capacity \in Nat
    BY CapacityAssumption, HalfAssumption
  <1>2. f \in Seq(Octets) /\ Len(f) = n
    BY <1>1
  <1>3. QED
    BY <1>1, <1>2 DEF IsBlob

LEMMA BlobIsFunction ==
  ASSUME NEW octets, IsBlob(octets)
  PROVE  octets \in [1 .. Len(octets) -> Octets] /\ Len(octets) \in 0 .. Capacity
  BY BlobIsShort DEF IsBlob

\* An outcome that leaves n octets where it returns.
Leaves(outcome, n) ==
  outcome.how = "returned" => IsBlob(outcome.value) /\ Len(outcome.value) = n

\* Octets written into a blob leave a blob of the same length, with what was written and the rest.
LEMMA WritesOctets ==
  ASSUME NEW octets, IsBlob(octets), NEW writes, \A k \in DOMAIN writes : writes[k] \in Octets
  PROVE  /\ Leaves(Written(octets, writes), Len(octets))
         /\ Inside(octets, DOMAIN writes) =>
              Written(octets, writes).how = "returned"
                /\ \A k \in 0 .. Len(octets) - 1 :
                     Written(octets, writes).value[k + 1]
                       = IF k \in DOMAIN writes THEN writes[k] ELSE octets[k + 1]
  <1> DEFINE n == Len(octets)
             f == [k \in 1 .. n |-> IF k - 1 \in DOMAIN writes THEN writes[k - 1] ELSE octets[k]]
  <1>1. n \in 0 .. Capacity /\ \A k \in 1 .. n : octets[k] \in Octets
    BY BlobIsShort
  <1>2. f \in [1 .. n -> Octets]
    BY <1>1
  <1>3. IsBlob(f) /\ Len(f) = n
    <2> HIDE DEF f, n
    <2>1. QED
      BY <1>1, <1>2, FunctionIsBlob
  <1>4. Written(octets, writes) = IF Inside(octets, DOMAIN writes) THEN Returned(f) ELSE Stopped("fault")
    BY DEF Written, Count
  <1>5. \A k \in 0 .. n - 1 : f[k + 1] = IF k \in DOMAIN writes THEN writes[k] ELSE octets[k + 1]
    <2> TAKE k \in 0 .. n - 1
    <2>1. n \in Nat
      BY <1>1
    <2> HIDE DEF n
    <2>2. k + 1 \in 1 .. n /\ (k + 1) - 1 = k
      BY <2>1
    <2>3. QED
      BY <2>2
  <1> HIDE DEF f
  <1>6. QED
    BY <1>3, <1>4, <1>5 DEF Leaves, Returned, Stopped

\* What the functions write are octets.
LEMMA OctetValues ==
  /\ 0 \in Octets /\ FreshOctet \in Octets /\ Plus \in Octets /\ Minus \in Octets /\ Bar \in Octets
  /\ \A n \in Int : n % OctetLimit \in Octets
  BY DEF Octets, OctetLimit, FreshOctet, Plus, Minus, Bar

\* Blob.make makes a blob.
LEMMA MakeIsBlob ==
  ASSUME NEW traps, NEW count \in Int, NEW outcome \in BlobMake(traps, count), outcome.how = "returned"
  PROVE  IsBlob(outcome.value)
  <1> DEFINE f == [k \in 1 .. count |-> 0]
  <1>1. count \in 0 .. Capacity /\ outcome = Returned(f)
    <2> HIDE DEF f
    <2>1. outcome \in Allocated(traps, count, {Returned(f)})
      BY DEF BlobMake, f
    <2>2. QED
      BY <2>1, AllocatedEnds
  <1>2. f \in [1 .. count -> Octets]
    BY OctetValues
  <1>3. IsBlob(f)
    <2> HIDE DEF f
    <2>1. QED
      BY <1>1, <1>2, FunctionIsBlob
  <1>4. QED
    BY <1>1, <1>3 DEF Returned

\* Blob.fromList and Blob.fromArray clip each item to an octet.
LEMMA FromIsRight ==
  ASSUME NEW traps, NEW list \in Seq(Int), NEW sized, NEW outcome \in BlobFrom(traps, list, sized),
         outcome.how = "returned"
  PROVE  /\ IsBlob(outcome.value) /\ Len(outcome.value) = Len(list)
         /\ \A i \in DOMAIN outcome.value : (outcome.value[i] - list[i]) % OctetLimit = 0
  <1> DEFINE n == Len(list)
             f == [i \in 1 .. n |-> list[i] % OctetLimit]
  <1>1. n \in 0 .. Capacity /\ outcome = Returned(f)
    <2>1. n \in Int
      OBVIOUS
    <2>2. outcome # Stopped("trap")
      BY DEF Stopped
    <2>3. outcome \in Allocated(traps, n, {Returned(f)})
      BY <2>2 DEF BlobFrom
    <2> HIDE DEF f, n
    <2>4. QED
      BY <2>1, <2>3, AllocatedEnds
  <1>2. \A i \in 1 .. n : list[i] \in Int
    OBVIOUS
  <1>3. f \in [1 .. n -> Octets]
    BY <1>2, OctetValues
  <1>4. IsBlob(f) /\ Len(f) = n /\ DOMAIN f = 1 .. n
    <2> HIDE DEF f, n
    <2>1. QED
      BY <1>1, <1>3, FunctionIsBlob
  <1>5. \A i \in 1 .. n : (f[i] - list[i]) % OctetLimit = 0
    BY <1>2 DEF OctetLimit
  <1> HIDE DEF f
  <1>6. QED
    BY <1>1, <1>4, <1>5 DEF Returned

\* Blob.slice2d makes a blob.
LEMMA SliceIsBlob ==
  ASSUME NEW traps, NEW octets, IsBlob(octets),
         NEW pos, NEW blobSize, NEW size, size.width \in Int, size.height \in Int,
         NEW outcome \in BlobSlice2d(traps, pos, blobSize, size, octets), outcome.how = "returned"
  PROVE  IsBlob(outcome.value)
  <1> DEFINE area == Int32(size.width * size.height)
             then == {IF SliceIsWild(pos, size) THEN Stopped("fault")
                      ELSE Sliced(pos, size, blobSize.width, octets)}
             fresh == [k \in 1 .. area |-> FreshOctet]
  <1>1. \A how \in {"trap", "fault"} : outcome # Stopped(how)
    BY DEF Stopped
  <1>2. outcome \in Allocated(traps, area, then)
    <2> HIDE DEF then, area
    <2>1. BlobSlice2d(traps, pos, blobSize, size, octets) \subseteq
            {Stopped("trap"), Stopped("fault")} \cup Allocated(traps, area, then)
      BY DEF BlobSlice2d, then, area
    <2>2. QED
      BY <1>1, <2>1
  <1>3. area \in Int
    <2>1. size.width * size.height \in Int
      OBVIOUS
    <2>2. QED
      BY <2>1, Int32Fits
  <1>4. area \in 0 .. Capacity /\ outcome \in then
    <2> HIDE DEF area, then
    <2>1. QED
      BY <1>2, <1>3, AllocatedEnds
  <1>5. outcome = Sliced(pos, size, blobSize.width, octets)
    BY <1>1, <1>4
  <1> DEFINE rows == SliceRows(pos, size)
             source == [k \in 0 .. (Cardinality(rows) * size.width) - 1 |->
                          (pos.y + (k \div size.width)) * blobSize.width + pos.x + (k % size.width)]
             writes == [k \in DOMAIN source |-> At(octets, source[k])]
  <1>6. Inside(octets, Range(source)) /\ outcome = Written(fresh, writes)
    <2> HIDE DEF source
    <2>1. Sliced(pos, size, blobSize.width, octets)
            = IF ~Inside(octets, Range(source)) THEN Stopped("fault") ELSE Written(fresh, writes)
      BY DEF Sliced, source
    <2> HIDE DEF fresh, writes
    <2>2. QED
      BY <1>1, <1>5, <2>1
  <1>7. \A k \in DOMAIN writes : writes[k] \in Octets
    <2> HIDE DEF source
    <2> TAKE k \in DOMAIN writes
    <2>1. source[k] \in 0 .. Len(octets) - 1
      BY <1>6 DEF Inside, Range, Count
    <2>2. source[k] + 1 \in 1 .. Len(octets)
      BY <2>1, BlobIsShort
    <2>3. QED
      BY <2>2, BlobIsShort DEF At
  <1>8. IsBlob(fresh)
    <2>1. fresh \in [1 .. area -> Octets]
      BY OctetValues
    <2> HIDE DEF fresh, area
    <2>2. QED
      BY <1>4, <2>1, FunctionIsBlob
  <1> HIDE DEF fresh, writes
  <1>9. QED
    BY <1>6, <1>7, <1>8, WritesOctets DEF Leaves

-----------------------------------------------------------------------------
(* Areas that are read.                                                     *)

\* An octet of an area has a column and a row in it.
LEMMA QuotientFits ==
  ASSUME NEW w \in Nat \ {0}, NEW h \in Nat, NEW k \in 0 .. h * w - 1
  PROVE  k \div w \in 0 .. h - 1 /\ k % w \in 0 .. w - 1
  <1> DEFINE q == k \div w
             r == k % w
  <1>1. k \in Int /\ h * w \in Nat
    OBVIOUS
  <1>2. k = w * q + r /\ r \in 0 .. w - 1 /\ q \in Int
    <2>1. QED
      BY <1>1, DivMod
  <1> HIDE DEF q, r
  <1>3. q >= 0
    <2>1. CASE q <= -1
      <3>1. w * (-1 - q) >= 0
        BY <1>2, <2>1
      <3>2. w * (-1 - q) = -w - w * q
        BY <1>2
      <3>3. w * q \in Int
        BY <1>2
      <3>4. QED
        BY <1>1, <1>2, <3>1, <3>2, <3>3
    <2>2. QED
      BY <1>2, <2>1
  <1>4. q < h
    <2>1. CASE q >= h
      <3>1. w * (q - h) >= 0
        BY <1>2, <2>1
      <3>2. w * (q - h) = w * q - h * w
        BY <1>2
      <3>3. w * q \in Int
        BY <1>2
      <3>4. QED
        BY <1>1, <1>2, <3>1, <3>2, <3>3
    <2>2. QED
      BY <1>2, <2>1
  <1>5. QED
    BY <1>2, <1>3, <1>4 DEF q, r

\* A number below the half does not wrap.
LEMMA Int32Is ==
  ASSUME NEW n \in Int, 0 <= n, n < Half
  PROVE  Int32(n) = n
  <1>1. Fits(n)
    BY HalfAssumption DEF Fits
  <1>2. QED
    BY <1>1, Int32Fits

\* The area lies in a blob of whole rows; it may be empty.
Covers(pos, size, blobSize, octets) ==
  /\ IsBlob(octets) /\ IsWhole(octets, blobSize)
  /\ pos.x \in Nat /\ pos.y \in Nat /\ size.width \in Nat /\ size.height \in Nat
  /\ blobSize.width \in Integers32 /\ blobSize.height \in Integers32
  /\ pos.x + size.width <= blobSize.width /\ pos.y + size.height <= blobSize.height

\* No sum or product about such an area wraps.
LEMMA CoversFits ==
  ASSUME NEW pos, NEW size, NEW blobSize, NEW octets, Covers(pos, size, blobSize, octets)
  PROVE  /\ blobSize.width \in Nat \ {0} /\ blobSize.height \in Nat
         /\ Len(octets) = blobSize.width * blobSize.height
         /\ Len(octets) \in 0 .. Capacity /\ Capacity < Half /\ Capacity \in Nat /\ Half \in Nat
         /\ Int32(pos.x + size.width) = pos.x + size.width
         /\ Int32(pos.y + size.height) = pos.y + size.height
         /\ size.width * size.height \in 0 .. Capacity
         /\ Int32(size.width * size.height) = size.width * size.height
  <1> DEFINE W == blobSize.width
             H == blobSize.height
             w == size.width
             h == size.height
             X == pos.x
             Y == pos.y
  <1>1. /\ W \in Int /\ H \in Int /\ W > 0 /\ H >= 0 /\ W < Half /\ H < Half /\ Half \in Nat
        /\ X \in Nat /\ Y \in Nat /\ w \in Nat /\ h \in Nat /\ X + w <= W /\ Y + h <= H
        /\ Len(octets) = W * H
    BY HalfAssumption DEF Covers, IsWhole, Integers32
  <1>2. Len(octets) \in 0 .. Capacity /\ Capacity < Half /\ Capacity \in Nat
    BY BlobIsShort DEF Covers
  <1> HIDE DEF W, H, w, h, X, Y
  <1>3. Int32(X + w) = X + w /\ Int32(Y + h) = Y + h
    <2>1. X + w \in Int /\ Y + h \in Int /\ 0 <= X + w /\ X + w < Half /\ 0 <= Y + h /\ Y + h < Half
      BY <1>1
    <2>2. QED
      BY <2>1, Int32Is
  <1>4. w * h \in 0 .. W * H
    <2>1. W \in Nat /\ H \in Nat /\ w \in 0 .. W /\ h \in 0 .. H
      BY <1>1
    <2>2. QED
      BY <2>1, AreaFits
  <1>5. w * h \in Int /\ 0 <= w * h /\ w * h <= Capacity /\ w * h < Half
    BY <1>1, <1>2, <1>4
  <1>6. Int32(w * h) = w * h
    BY <1>5, Int32Is
  <1>7. QED
    BY <1>1, <1>2, <1>3, <1>5, <1>6 DEF W, H, w, h, X, Y

\* The slice has the pixels of its area.
LEMMA SliceIsRight ==
  ASSUME NEW traps, NEW octets, NEW pos, NEW blobSize, NEW size, Covers(pos, size, blobSize, octets),
         NEW outcome \in BlobSlice2d(traps, pos, blobSize, size, octets)
  PROVE  /\ outcome.how = "returned" /\ Len(outcome.value) = size.width * size.height
         /\ \A x \in 0 .. size.width - 1, y \in 0 .. size.height - 1 :
              Pixel(outcome.value, size.width, x, y)
                = Pixel(octets, blobSize.width, pos.x + x, pos.y + y)
  <1> DEFINE W == blobSize.width
             H == blobSize.height
             w == size.width
             h == size.height
             X == pos.x
             Y == pos.y
             n == Len(octets)
             area == Int32(w * h)
             rows == SliceRows(pos, size)
             fresh == [k \in 1 .. area |-> FreshOctet]
             source == [k \in 0 .. (Cardinality(rows) * w) - 1 |-> (Y + (k \div w)) * W + X + (k % w)]
             writes == [k \in DOMAIN source |-> At(octets, source[k])]
  <1>1. /\ W \in Nat \ {0} /\ H \in Nat /\ n = W * H /\ n \in Nat
        /\ X \in Nat /\ Y \in Nat /\ w \in Nat /\ h \in Nat /\ X + w <= W /\ Y + h <= H
        /\ Int32(X + w) = X + w /\ Int32(Y + h) = Y + h
        /\ w * h \in 0 .. Capacity /\ area = w * h
    BY CoversFits DEF Covers
  <1>2. n \div W = H /\ n % W = 0
    <2>1. 0 \in 0 .. W - 1 /\ H \in Int /\ H * W + 0 = n
      BY <1>1
    <2> HIDE DEF W, H, n
    <2>2. (H * W + 0) \div W = H /\ (H * W + 0) % W = 0
      BY <1>1, <2>1, CellIsOne
    <2>3. QED
      BY <2>1, <2>2
  <1>3. ~SliceIsWrong(pos, size, blobSize, octets)
    <2>1. W >= 0 /\ ~(X + w > W) /\ ~(Y + h > H) /\ ~(X < 0) /\ ~(Y < 0)
      BY <1>1
    <2>2. QED
      BY <1>1, <1>2, <2>1 DEF SliceIsWrong, Count
  <1>4. End(Y, h) = Y + h /\ ~Endless(Y, h) /\ rows = Y .. Y + h - 1
    <2>1. End(Y, h) = Y + h
      BY <1>1 DEF End
    <2>2. ~Endless(Y, h)
      BY <1>1, <2>1 DEF Endless
    <2>3. QED
      <3>1. ~(Y < 0)
        BY <1>1
      <3>2. rows = Loop(Y, h)
        BY <3>1 DEF SliceRows
      <3>3. Loop(Y, h) = Y .. Y + h - 1
        BY <1>1, <2>1 DEF Loop
      <3>4. QED
        BY <2>1, <2>2, <3>2, <3>3
  <1>5. ~SliceIsWild(pos, size)
    BY <1>1, <1>4 DEF SliceIsWild
  <1>6. Cardinality(rows) = h
    <2> HIDE DEF rows, Y, h
    <2>1. Y \in Int /\ Y + h - 1 \in Int
      BY <1>1
    <2>2. IF Y <= Y + h - 1 THEN Cardinality(Y .. Y + h - 1) = (Y + h - 1) - Y + 1 ELSE Cardinality(Y .. Y + h - 1) = 0
      BY <2>1, FS_Interval
    <2>3. QED
      BY <1>1, <1>4, <2>2
  <1>7. BlobSlice2d(traps, pos, blobSize, size, octets) = {Sliced(pos, size, W, octets)}
    <2>1. area \in 0 .. Capacity /\ W # 0
      BY <1>1
    <2>2. BlobSlice2d(traps, pos, blobSize, size, octets) = Allocated(traps, area, {Sliced(pos, size, W,
         octets)})
      BY <1>3, <1>5, <2>1 DEF BlobSlice2d
    <2> HIDE DEF area
    <2>3. QED
      BY <2>1, <2>2, AllocationFits
  <1>8. Sliced(pos, size, W, octets)
          = IF ~Inside(octets, Range(source)) THEN Stopped("fault") ELSE Written(fresh, writes)
    BY DEF Sliced
  <1>9. DOMAIN source = 0 .. h * w - 1 /\ DOMAIN writes = DOMAIN source
    BY <1>6
  <1>10. \A k \in 0 .. h * w - 1 :
           /\ k \div w \in 0 .. h - 1 /\ k % w \in 0 .. w - 1
           /\ source[k] \in 0 .. n - 1
           /\ At(octets, source[k]) = Pixel(octets, W, X + (k % w), Y + (k \div w))
           /\ At(octets, source[k]) \in Octets
    <2> TAKE k \in 0 .. h * w - 1
    <2>1. source[k] = (Y + (k \div w)) * W + X + (k % w)
      BY <1>9
    <2> HIDE DEF source, W, w, H, h, X, Y, n
    <2>2. w # 0
      BY <1>1
    <2>3. k \div w \in 0 .. h - 1 /\ k % w \in 0 .. w - 1
      BY <1>1, <2>2, QuotientFits
    <2> DEFINE x == X + (k % w)
               y == Y + (k \div w)
    <2>4. x \in 0 .. W - 1 /\ y \in 0 .. H - 1
      BY <1>1, <2>3
    <2>5. (Y + (k \div w)) * W + X + (k % w) = y * W + x
      <3>1. y * W \in Int
        BY <1>1, <2>4
      <3>2. QED
        BY <1>1, <2>3, <3>1
    <2> HIDE DEF x, y
    <2>6. /\ y * W + x \in 0 .. n - 1
          /\ Pixel(octets, W, x, y) \in Octets
          /\ At(octets, y * W + x) = Pixel(octets, W, x, y)
      <3>1. IsBlob(octets) /\ IsWhole(octets, blobSize)
        BY DEF Covers
      <3>2. QED
        BY <1>1, <2>4, <3>1, CellInside DEF W, H, n
    <2>7. QED
      BY <2>1, <2>3, <2>5, <2>6 DEF x, y
  <1>11. Inside(octets, Range(source))
    <2> HIDE DEF source
    <2>1. QED
      BY <1>9, <1>10 DEF Inside, Range, Count
  <1>12. \A k \in DOMAIN writes : writes[k] \in Octets /\ writes[k] = At(octets, source[k])
    BY <1>9, <1>10
  <1>13. IsBlob(fresh) /\ Len(fresh) = w * h
    <2>1. fresh \in [1 .. area -> Octets]
      BY OctetValues
    <2>2. area \in 0 .. Capacity
      BY <1>1
    <2> HIDE DEF fresh, area
    <2>3. QED
      BY <1>1, <2>1, <2>2, FunctionIsBlob
  <1>14. Inside(fresh, DOMAIN writes)
    <2>1. h * w = w * h
      BY <1>1
    <2> HIDE DEF fresh, writes
    <2>2. QED
      BY <1>9, <1>13, <2>1 DEF Inside, Count
  <1> DEFINE v == outcome.value
  <1>15. outcome = Written(fresh, writes)
    <2> HIDE DEF source, fresh, writes
    <2>1. QED
      BY <1>7, <1>8, <1>11
  <1>16. /\ outcome.how = "returned" /\ Len(v) = w * h
         /\ \A k \in 0 .. w * h - 1 : v[k + 1] = IF k \in DOMAIN writes THEN writes[k] ELSE fresh[k + 1]
    <2> HIDE DEF source, fresh, writes
    <2>1. QED
      BY <1>12, <1>13, <1>14, <1>15, WritesOctets DEF Leaves
  <1>17. \A x \in 0 .. w - 1, y \in 0 .. h - 1 : Pixel(v, w, x, y) = Pixel(octets, W, X + x, Y + y)
    <2> TAKE x \in 0 .. w - 1, y \in 0 .. h - 1
    <2> HIDE DEF source, fresh, writes, v, W, w, H, h, X, Y, n
    <2>1. w \in Nat \ {0} /\ w * h = h * w
      BY <1>1
    <2>2. y * w + x \in 0 .. w * h - 1 /\ y * w \in Nat
      BY <1>1, <2>1, RowFits
    <2>3. (y * w + x) \div w = y /\ (y * w + x) % w = x
      BY <2>1, CellIsOne
    <2> DEFINE k == y * w + x
    <2>4. k \in 0 .. w * h - 1 /\ k \in 0 .. h * w - 1 /\ k + 1 = y * w + x + 1 /\ k \div w = y /\ k % w = x
      BY <2>1, <2>2, <2>3
    <2> HIDE DEF k
    <2>5. k \in DOMAIN writes
      BY <1>9, <2>4
    <2>6. v[k + 1] = Pixel(octets, W, X + x, Y + y)
      BY <1>10, <1>12, <1>16, <2>4, <2>5
    <2>7. QED
      BY <2>4, <2>6 DEF Pixel
  <1>18. QED
    BY <1>16, <1>17

\* What returned was allocated.
LEMMA AllocationReturns ==
  ASSUME NEW traps, NEW count, NEW then, NEW outcome \in Allocated(traps, count, then), outcome.how = "returned"
  PROVE  outcome \in then
  BY DEF Allocated, Stopped

\* The octet of this column and row is shown.
IsShown(outcome, octets, size, x, y) ==
  LET octet == Pixel(octets, size.width, x, y)
  IN  outcome.value[y * (size.width + 1) + x + 2] = IF octet < 32 THEN Dot ELSE octet

\* Blob.toString2d shows every octet at its column and row.
LEMMA ShownIsRight ==
  ASSUME NEW traps, NEW octets, IsBlob(octets), NEW size, size.width \in Int, size.height \in Int,
         IsWhole(octets, size),
         NEW outcome \in BlobToString2d(traps, size, octets), outcome.how = "returned",
         NEW x \in 0 .. size.width - 1, NEW y \in 0 .. size.height - 1
  PROVE  IsShown(outcome, octets, size, x, y)
  <1> DEFINE W == size.width
             H == size.height
             n == Len(octets)
             area == Int32(H * W)
             octet == Pixel(octets, W, x, y)
             Shown2(o) == IF o < 32 THEN Dot ELSE o
             text == [k \in 1 .. H * (W + 1) + 1 |->
                        LET column == (k - 1) % (W + 1)
                            row == (k - 1) \div (W + 1)
                        IN  IF H = 0 \/ column = 0 THEN NewLine
                            ELSE Shown2(At(octets, row * W + column - 1))]
  <1>1. W \in Nat \ {0} /\ H \in Nat \ {0} /\ n = W * H /\ n \in 0 .. Capacity /\ Capacity < Half /\ n \in Nat
    <2>1. n \in 0 .. Capacity /\ Capacity < Half /\ Capacity \in Nat
      BY BlobIsShort
    <2>2. QED
      BY <2>1 DEF IsWhole
  <1>2. H * W = n /\ area = n
    <2>1. H * W = n
      BY <1>1
    <2> HIDE DEF n, H, W
    <2>2. n \in Int /\ 0 <= n /\ n < Half
      BY <1>1, CapacityAssumption, HalfAssumption
    <2>3. QED
      BY <2>1, <2>2, Int32Is
  <1>3. outcome = Returned(text)
    <2>1. ~(area < 0 \/ area > Count(octets))
      BY <1>1, <1>2 DEF Count
    <2>2. outcome # Stopped("fault")
      BY DEF Stopped
    <2>3. outcome \in Text(traps, text)
      <3> HIDE DEF area
      <3>1. QED
        BY <2>1, <2>2 DEF BlobToString2d, area
    <2> HIDE DEF text
    <2>4. outcome \in {Returned(text)}
      BY <2>3, AllocationReturns DEF Text
    <2>5. QED
      BY <2>4
  <1> DEFINE k == y * (W + 1) + (x + 1)
  <1>4. k \in 0 .. H * (W + 1) - 1 /\ y * (W + 1) \in Nat
    <2>1. W + 1 \in Nat \ {0} /\ x + 1 \in 0 .. (W + 1) - 1 /\ y \in 0 .. H - 1
      BY <1>1
    <2> HIDE DEF W, H
    <2>2. (W + 1) * H = H * (W + 1)
      BY <1>1
    <2>3. QED
      BY <1>1, <2>1, <2>2, RowFits
  <1>5. k \div (W + 1) = y /\ k % (W + 1) = x + 1
    <2>1. W + 1 \in Nat \ {0} /\ x + 1 \in 0 .. (W + 1) - 1 /\ y \in Int
      BY <1>1
    <2> HIDE DEF W, H
    <2>2. QED
      BY <2>1, CellIsOne
  <1>6. y * W + (x + 1) - 1 = y * W + x /\ At(octets, y * W + x) = octet
    <2>1. At(octets, y * W + x) = octet /\ y * W \in Nat
      BY CellInside
    <2>2. QED
      BY <1>1, <2>1
  <1>7. k + 1 \in 1 .. H * (W + 1) + 1 /\ (k + 1) - 1 = k /\ k + 1 = y * (W + 1) + x + 2
    <2>1. H * (W + 1) \in Nat
      BY <1>1
    <2>2. QED
      <3> DEFINE z == y * (W + 1)
      <3>1. z \in Nat /\ k = z + (x + 1) /\ x \in Int
        BY <1>4
      <3>2. k + 1 = z + x + 2
        <4> HIDE DEF z, k
        <4>1. QED
          BY <3>1
      <3>3. k \in 0 .. H * (W + 1) - 1
        BY <1>4
      <3> HIDE DEF k
      <3>4. QED
        BY <2>1, <3>2, <3>3
  <1>8. text[k + 1] = IF octet < 32 THEN Dot ELSE octet
    <2>1. text[k + 1] = LET column == ((k + 1) - 1) % (W + 1)
                            row == ((k + 1) - 1) \div (W + 1)
                        IN  IF H = 0 \/ column = 0 THEN NewLine
                            ELSE Shown2(At(octets, row * W + column - 1))
      <3> HIDE DEF k, W, H, Shown2
      <3>1. QED
        BY <1>7
    <2>2. x + 1 # 0 /\ H # 0
      BY <1>1
    <2> HIDE DEF k, W, H, octet, text
    <2>3. QED
      BY <1>5, <1>6, <1>7, <2>1, <2>2
  <1> HIDE DEF text
  <1>9. QED
    BY <1>3, <1>7, <1>8 DEF Returned, IsShown

\* Blob.member looks for the octet.
LEMMA MemberOfBlob ==
  ASSUME NEW octets, IsBlob(octets), NEW rune
  PROVE  BlobMember(rune, octets).value = (rune % OctetLimit \in Range(octets))
  <1>1. DOMAIN octets = 1 .. Len(octets)
    BY BlobIsShort
  <1>2. (\E k \in 1 .. Count(octets) : octets[k] = rune % OctetLimit) <=> rune % OctetLimit \in Range(octets)
    BY <1>1 DEF Range, Count
  <1>3. QED
    <2> DEFINE has == \E k \in 1 .. Count(octets) : octets[k] = rune % OctetLimit
    <2>1. BlobMember(rune, octets).value = has
      <3> HIDE DEF has
      <3>1. BlobMember(rune, octets) = Returned(has)
        BY DEF BlobMember, has
      <3>2. QED
        BY <3>1 DEF Returned
    <2>2. has = (rune % OctetLimit \in Range(octets))
      <3> DEFINE r == rune % OctetLimit
                 isIn == r \in Range(octets)
      <3>1. has <=> isIn
        BY <1>2
      <3>2. has \in BOOLEAN /\ isIn \in BOOLEAN
        <4> HIDE DEF r
        <4>1. isIn \in BOOLEAN
          OBVIOUS
        <4>2. has \in BOOLEAN
          BY Zenon
        <4>3. QED
          BY <4>1, <4>2
      <3> HIDE DEF has, isIn
      <3>3. has = isIn
        BY <3>1, <3>2
      <3>4. QED
        BY <3>3 DEF isIn
    <2>3. QED
      BY <2>1, <2>2, Zenon

-----------------------------------------------------------------------------
(* Areas that are painted.                                                  *)

\* The area of a part at a position has sides, and a blob of whole rows holds it.
IsPart(position, part, size, octets) ==
  /\ Covers(position, part, size, octets) /\ part.width > 0 /\ part.height > 0

\* An area inside the blob passes the check.
LEMMA PartIsChecked ==
  ASSUME NEW position, NEW part, NEW size, NEW octets, IsPart(position, part, size, octets),
         NEW traps, NEW then
  PROVE  Checked(traps, position, part, size, octets, then) = then
  <1>1. /\ size.width \in Nat \ {0} /\ size.height \in Nat
        /\ Int32(position.x + part.width) = position.x + part.width
        /\ Int32(position.y + part.height) = position.y + part.height
    BY CoversFits DEF IsPart
  <1>2. /\ position.x \in Nat /\ position.y \in Nat /\ part.width \in Nat \ {0} /\ part.height \in Nat \ {0}
        /\ position.x + part.width <= size.width /\ position.y + part.height <= size.height
        /\ IsBlob(octets) /\ IsWhole(octets, size)
    BY DEF IsPart, Covers
  <1>3. position.x \in 0 .. size.width - 1 /\ position.y \in 0 .. size.height - 1
    BY <1>1, <1>2
  <1>4. Inside(octets, {Int32(position.y * size.width + position.x)})
    <2>1. /\ position.y * size.width + position.x \in 0 .. Len(octets) - 1
          /\ Int32(position.y * size.width + position.x) = position.y * size.width + position.x
      BY <1>1, <1>2, <1>3, CellInside
    <2>2. QED
      BY <2>1 DEF Inside, Count
  <1>5. IsPosition(position, size, octets)
    BY <1>1, <1>2, <1>3, <1>4 DEF IsPosition
  <1>6. ~Overhangs(position, part, size)
    BY <1>1, <1>2 DEF Overhangs
  <1>7. QED
    BY <1>5, <1>6 DEF Checked

\* Any other stops the process, or has no result.
LEMMA CheckedEnds ==
  ASSUME NEW position, NEW part, NEW size, NEW octets, NEW traps, NEW then
  PROVE  Checked(traps, position, part, size, octets, then) \in {then, Stopped("trap"), NotSet}
  BY DEF Checked, Panic, AfterError

\* Where errors trap, whatever faults behind the check is about an area inside the blob.
LEMMA FaultIsOfPart ==
  ASSUME NEW position, NEW part, NEW size, NEW octets, NEW then, NEW traps, traps,
         position.x \in Int, position.y \in Int, part.width \in Int, part.height \in Int,
         IsBlob(octets), IsWhole(octets, size), size.width \in Integers32, size.height \in Integers32,
         part.width >= 1, part.height >= 1,
         Fits(position.x + part.width), Fits(position.y + part.height),
         Checked(traps, position, part, size, octets, then).how = "fault"
  PROVE  IsPart(position, part, size, octets)
  <1>1. Stopped("trap").how # "fault"
    BY DEF Stopped
  <1>2. IsPosition(position, size, octets)
    BY <1>1 DEF Checked, Panic, AfterError
  <1>3. ~Overhangs(position, part, size)
    BY <1>1, <1>2 DEF Checked, Panic, AfterError
  <1>4. position.x >= 0 /\ position.y >= 0
    BY <1>2 DEF IsPosition
  <1>5. Int32(position.x + part.width) = position.x + part.width
    <2>1. position.x + part.width \in Int
      OBVIOUS
    <2>2. QED
      BY <2>1, Int32Fits
  <1>6. Int32(position.y + part.height) = position.y + part.height
    <2>1. position.y + part.height \in Int
      OBVIOUS
    <2>2. QED
      BY <2>1, Int32Fits
  <1>7. size.width \in Int /\ size.height \in Int
    BY HalfAssumption DEF Integers32
  <1>8. position.x + part.width <= size.width /\ position.y + part.height <= size.height
    BY <1>3, <1>5, <1>6, <1>7 DEF Overhangs
  <1>9. QED
    BY <1>4, <1>8 DEF IsPart, Covers

\* The indices of the octets in these columns and rows.
Cells(width, columns, rows) == {y * width + x : x \in columns, y \in rows}

\* They are in a blob, one for each column and row.
CellsFit(octets, size, columns, rows) ==
  /\ Cells(size.width, columns, rows) \subseteq 0 .. Len(octets) - 1
  /\ {Int32(y * size.width) + x : x \in columns, y \in rows} = Cells(size.width, columns, rows)
  /\ \A x \in 0 .. size.width - 1, y \in 0 .. size.height - 1 :
       y * size.width + x \in Cells(size.width, columns, rows) <=> (x \in columns /\ y \in rows)

\* The octets of columns and rows of a blob lie in it.
LEMMA CellsAre ==
  ASSUME NEW octets, IsBlob(octets), NEW size, size.width \in Int, size.height \in Int,
         IsWhole(octets, size),
         NEW columns, columns \subseteq 0 .. size.width - 1, NEW rows, rows \subseteq 0 .. size.height - 1
  PROVE  CellsFit(octets, size, columns, rows)
  <1> DEFINE W == size.width
             H == size.height
             index(x, y) == y * W + x
  <1>1. W \in Nat \ {0} /\ H \in Nat
    BY DEF IsWhole
  <1>2. \A x \in columns, y \in rows : index(x, y) \in 0 .. Len(octets) - 1 /\ Int32(y * W) + x = index(x, y)
    <2> TAKE x \in columns, y \in rows
    <2>1. x \in 0 .. W - 1 /\ y \in 0 .. H - 1
      OBVIOUS
    <2>2. QED
      BY <2>1, CellInside
  <1>3. \A x, u \in 0 .. W - 1, y, v \in 0 .. H - 1 : index(x, y) = index(u, v) => x = u /\ y = v
    <2> TAKE x, u \in 0 .. W - 1, y, v \in 0 .. H - 1
    <2>1. y \in Int /\ v \in Int
      OBVIOUS
    <2> HIDE DEF W, H
    <2>2. QED
      BY <1>1, <2>1, CellsDiffer
  <1>4. Cells(W, columns, rows) = {index(x, y) : x \in columns, y \in rows}
    BY DEF Cells
  <1>5. columns \subseteq 0 .. W - 1 /\ rows \subseteq 0 .. H - 1
    OBVIOUS
  <1> HIDE DEF index, W, H
  <1>6. Cells(W, columns, rows) \subseteq 0 .. Len(octets) - 1
    BY <1>2, <1>4
  <1>7. {Int32(y * W) + x : x \in columns, y \in rows} = Cells(W, columns, rows)
    BY <1>2, <1>4
  <1>8. \A x \in 0 .. W - 1, y \in 0 .. H - 1 :
          index(x, y) \in Cells(W, columns, rows) <=> (x \in columns /\ y \in rows)
    BY <1>3, <1>4, <1>5
  <1>9. QED
    BY <1>6, <1>7, <1>8 DEF index, W, H, CellsFit

\* Octets that are written into a blob of whole rows, by their columns and rows.
LEMMA WritesCells ==
  ASSUME NEW octets, IsBlob(octets), NEW size, size.width \in Int, size.height \in Int,
         IsWhole(octets, size), NEW writes,
         DOMAIN writes \subseteq 0 .. Len(octets) - 1, \A k \in DOMAIN writes : writes[k] \in Octets
  PROVE  LET outcome == Written(octets, writes)
         IN  /\ outcome.how = "returned"
             /\ \A x \in 0 .. size.width - 1, y \in 0 .. size.height - 1 :
                  Pixel(outcome.value, size.width, x, y)
                    = IF y * size.width + x \in DOMAIN writes THEN writes[y * size.width + x]
                      ELSE Pixel(octets, size.width, x, y)
  <1> DEFINE outcome == Written(octets, writes)
             W == size.width
             H == size.height
  <1>1. /\ outcome.how = "returned"
        /\ \A k \in 0 .. Len(octets) - 1 :
             outcome.value[k + 1] = IF k \in DOMAIN writes THEN writes[k] ELSE octets[k + 1]
    <2>1. Inside(octets, DOMAIN writes)
      BY DEF Inside, Count
    <2>2. QED
      BY <2>1, WritesOctets
  <1>2. ASSUME NEW x \in 0 .. W - 1, NEW y \in 0 .. H - 1
        PROVE  Pixel(outcome.value, W, x, y)
                 = IF y * W + x \in DOMAIN writes THEN writes[y * W + x] ELSE Pixel(octets, W, x, y)
    <2> DEFINE k == y * W + x
    <2>1. k \in 0 .. Len(octets) - 1
      BY CellInside
    <2> HIDE DEF k, outcome, W
    <2>2. outcome.value[k + 1] = IF k \in DOMAIN writes THEN writes[k] ELSE octets[k + 1]
      BY <1>1, <2>1
    <2>3. QED
      BY <2>2 DEF k, Pixel
  <1> HIDE DEF outcome
  <1>3. QED
    BY <1>1, <1>2 DEF outcome

\* Blob.fill2d! writes the value inside the area and nothing outside.
LEMMA FillIsRight ==
  ASSUME NEW octets, IsBlob(octets), NEW position, NEW size, NEW part, NEW value \in Int, NEW traps
  PROVE  LET outcome == BlobFill2d(traps, position, size, value, part, octets)
         IN  /\ Leaves(outcome, Len(octets))
             /\ IsPart(position, part, size, octets) =>
                  /\ outcome.how = "returned"
                  /\ \A x \in 0 .. size.width - 1, y \in 0 .. size.height - 1 :
                       Pixel(outcome.value, size.width, x, y)
                         = IF InArea(x, y, position, part) THEN value % OctetLimit
                           ELSE Pixel(octets, size.width, x, y)
  <1> DEFINE outcome == BlobFill2d(traps, position, size, value, part, octets)
             W == size.width
             H == size.height
             X == position.x
             Y == position.y
             w == part.width
             h == part.height
             rows == Loop(Y, h)
             First(y) == Int32(Y * W) + (y - Y) * W + X
             indices == {First(y) + i : y \in rows, i \in 0 .. w - 1}
             last1 == First(End(Y, h) - 1) + w - 1
             writes == [k \in indices |-> value % OctetLimit]
             filled == Filled(position, size, value, part, octets)
  <1>1. filled = IF \/ Endless(Y, h)
                    \/ rows # {} /\ w < 0
                    \/ rows # {} /\ w > 0 /\ ~Inside(octets, {last1})
                 THEN Stopped("fault") ELSE Written(octets, writes)
    BY DEF Filled
  <1>2. outcome = Checked(traps, position, part, size, octets, filled)
    BY DEF BlobFill2d
  <1>3. \A k \in DOMAIN writes : writes[k] \in Octets
    BY OctetValues
  <1>4. Leaves(outcome, Len(octets))
    <2> HIDE DEF writes, indices, filled, rows, last1
    <2>1. filled \in {Stopped("fault"), Written(octets, writes)}
      BY <1>1
    <2>2. outcome \in {filled, Stopped("trap"), NotSet}
      BY <1>2, CheckedEnds
    <2>3. Leaves(Written(octets, writes), Len(octets))
      BY <1>3, WritesOctets
    <2>4. \A how : how # "returned" => Leaves(Stopped(how), Len(octets))
      BY DEF Leaves, Stopped
    <2>5. Leaves(NotSet, Len(octets))
      BY DEF Leaves, NotSet
    <2> HIDE DEF outcome
    <2>6. QED
      BY <2>1, <2>2, <2>3, <2>4, <2>5
  <1>5. ASSUME IsPart(position, part, size, octets)
        PROVE  /\ outcome.how = "returned"
               /\ \A x \in 0 .. W - 1, y \in 0 .. H - 1 :
                    Pixel(outcome.value, W, x, y)
                      = IF InArea(x, y, position, part) THEN value % OctetLimit ELSE Pixel(octets, W, x, y)
    <2>1. /\ W \in Nat \ {0} /\ H \in Nat /\ X \in Nat /\ Y \in Nat /\ w \in Nat \ {0} /\ h \in Nat \ {0}
          /\ X + w <= W /\ Y + h <= H /\ IsWhole(octets, size)
          /\ Int32(Y + h) = Y + h
      BY <1>5, CoversFits DEF IsPart, Covers
    <2> DEFINE columns == X .. X + w - 1
               lines == Y .. Y + h - 1
               cells == Cells(W, columns, lines)
    <2>2. End(Y, h) = Y + h /\ ~Endless(Y, h)
      BY <2>1 DEF End, Endless
    <2>3. rows = lines
      BY <2>1, <2>2 DEF Loop
    <2>4. columns \subseteq 0 .. W - 1 /\ lines \subseteq 0 .. H - 1
      BY <2>1
    <2>5. /\ cells \subseteq 0 .. Len(octets) - 1
          /\ \A x \in 0 .. W - 1, y \in 0 .. H - 1 : y * W + x \in cells <=> (x \in columns /\ y \in lines)
      <3> HIDE DEF columns, lines
      <3>1. QED
        <4>1. size.width \in Int /\ size.height \in Int /\ IsWhole(octets, size)
          BY <2>1
        <4>2. columns \subseteq 0 .. size.width - 1 /\ lines \subseteq 0 .. size.height - 1
          BY <2>4
        <4>3. CellsFit(octets, size, columns, lines)
          BY <4>1, <4>2, CellsAre
        <4>4. QED
          BY <4>3 DEF CellsFit
    <2>6. Int32(Y * W) = Y * W /\ Y * W \in Nat
      <3>1. X \in 0 .. W - 1 /\ Y \in 0 .. H - 1
        BY <2>1
      <3>2. QED
        BY <2>1, <3>1, CellInside
    <2>7. \A y \in Nat : First(y) = y * W + X /\ First(y) \in Int
      <3> TAKE y \in Nat
      <3>1. (y - Y) * W = y * W - Y * W /\ y * W \in Int
        BY <2>1
      <3>2. (y - Y) * W \in Int
        BY <2>1
      <3> DEFINE a == y * W
                 b == Y * W
                 c == (y - Y) * W
      <3>3. a \in Int /\ b \in Int /\ c = a - b /\ Int32(b) = b
        BY <2>6, <3>1
      <3> HIDE DEF a, b, c
      <3>4. Int32(b) + c + X = a + X /\ Int32(b) + c + X \in Int
        BY <2>1, <3>3
      <3>5. QED
        BY <3>4 DEF a, b, c
    <2>8. indices = cells
      <3>1. \A y \in lines, i \in 0 .. w - 1 : First(y) + i = y * W + (X + i) /\ X + i \in columns
        <4> TAKE y \in lines, i \in 0 .. w - 1
        <4>1. y \in Nat
          BY <2>1
        <4>2. First(y) = y * W + X /\ y * W \in Int
          BY <2>1, <2>7, <4>1
        <4> HIDE DEF First
        <4>3. QED
          BY <2>1, <4>2
      <3>2. \A y \in lines, x \in columns : First(y) + (x - X) = y * W + x /\ x - X \in 0 .. w - 1
        <4> TAKE y \in lines, x \in columns
        <4>1. y \in Nat
          BY <2>1
        <4>2. First(y) = y * W + X /\ y * W \in Int
          BY <2>1, <2>7, <4>1
        <4> HIDE DEF First
        <4>3. QED
          BY <2>1, <4>2
      <3>3. cells = {y * W + x : x \in columns, y \in lines}
        BY DEF Cells
      <3>4. indices = {First(y) + i : y \in lines, i \in 0 .. w - 1}
        BY <2>3
      <3> HIDE DEF First, columns, lines, indices, cells
      <3>5. QED
        BY <3>1, <3>2, <3>3, <3>4
    <2>9. Inside(octets, {last1})
      <3>1. Y + h - 1 \in lines /\ w - 1 \in 0 .. w - 1 /\ Y + h - 1 \in Nat
        BY <2>1
      <3> DEFINE u == Y + h - 1
      <3>2. End(Y, h) - 1 = u
        BY <2>1, <2>2
      <3>3. First(u) + (w - 1) \in indices /\ First(u) \in Int
        <4>1. u \in rows /\ u \in Nat
          BY <2>3, <3>1
        <4> HIDE DEF First, rows, u
        <4>2. QED
          BY <2>7, <3>1, <4>1
      <3>4. last1 = First(u) + (w - 1)
        <4>1. last1 = First(u) + w - 1
          BY <3>2
        <4> HIDE DEF First, u, last1
        <4>2. QED
          BY <2>1, <3>3, <4>1
      <3> HIDE DEF last1, indices, First
      <3>5. last1 \in 0 .. Len(octets) - 1
        BY <2>5, <2>8, <3>3, <3>4
      <3>6. QED
        BY <3>5 DEF Inside, Count
    <2>10. filled = Written(octets, writes)
      <3>1. ~(w < 0)
        BY <2>1
      <3> HIDE DEF filled, writes, rows, last1
      <3>2. QED
        BY <1>1, <2>2, <2>9, <3>1
    <2>11. outcome = Written(octets, writes)
      <3> HIDE DEF filled, writes
      <3>1. QED
        BY <1>2, <1>5, <2>10, PartIsChecked
    <2>12. DOMAIN writes = cells /\ \A k \in cells : writes[k] = value % OctetLimit
      BY <2>8
    <2> HIDE DEF writes, outcome, cells
    <2>13. /\ outcome.how = "returned"
           /\ \A x \in 0 .. W - 1, y \in 0 .. H - 1 :
                Pixel(outcome.value, W, x, y)
                  = IF y * W + x \in DOMAIN writes THEN writes[y * W + x] ELSE Pixel(octets, W, x, y)
      <3>1. size.width \in Int /\ size.height \in Int /\ IsWhole(octets, size)
        BY <2>1
      <3>2. DOMAIN writes \subseteq 0 .. Len(octets) - 1
        BY <2>5, <2>12
      <3>3. QED
        BY <1>3, <2>11, <3>1, <3>2, WritesCells
    <2>14. \A x \in 0 .. W - 1, y \in 0 .. H - 1 :
             (x \in columns /\ y \in lines) <=> InArea(x, y, position, part)
      BY <2>1 DEF InArea
    <2> HIDE DEF columns, lines
    <2>15. ASSUME NEW x \in 0 .. W - 1, NEW y \in 0 .. H - 1
           PROVE  Pixel(outcome.value, W, x, y)
                    = IF InArea(x, y, position, part) THEN value % OctetLimit ELSE Pixel(octets, W, x, y)
      <3> DEFINE k == y * W + x
      <3>1. k \in cells <=> InArea(x, y, position, part)
        BY <2>5, <2>14
      <3>2. Pixel(outcome.value, W, x, y) = IF k \in cells THEN writes[k] ELSE Pixel(octets, W, x, y)
        BY <2>12, <2>13
      <3> HIDE DEF k
      <3>3. QED
        BY <2>12, <3>1, <3>2
    <2>16. QED
      BY <2>13, <2>15
  <1> HIDE DEF outcome
  <1>6. QED
    BY <1>4, <1>5 DEF outcome

\* A call that stops leaves nothing to be right.
LEMMA StopsLeave ==
  ASSUME NEW n PROVE (\A how : how # "returned" => Leaves(Stopped(how), n)) /\ Leaves(NotSet, n)
  BY DEF Leaves, Stopped, NotSet

\* Blob.drawWindow2d! writes the border of the area and nothing else.
LEMMA FrameIsRight ==
  ASSUME NEW octets, IsBlob(octets), NEW position, NEW size, NEW part, NEW traps
  PROVE  LET outcome == BlobDrawWindow2d(traps, position, size, part, octets)
         IN  /\ Leaves(outcome, Len(octets))
             /\ IsPart(position, part, size, octets) =>
                  /\ outcome.how = "returned"
                  /\ \A x \in 0 .. size.width - 1, y \in 0 .. size.height - 1 :
                       IF OnFrame(x, y, position, part)
                       THEN Pixel(outcome.value, size.width, x, y) \in {Plus, Minus, Bar}
                       ELSE Pixel(outcome.value, size.width, x, y) = Pixel(octets, size.width, x, y)
  <1> DEFINE outcome == BlobDrawWindow2d(traps, position, size, part, octets)
             W == size.width
             H == size.height
             X == position.x
             Y == position.y
             w == part.width
             h == part.height
             xs == {X, X + w - 1}
             ys == {Y, Y + h - 1}
             innerXs == Loop(X + 1, w - 2)
             innerYs == Loop(Y + 1, h - 2)
             Indices(columns, rows) == {Int32(y * W) + x : x \in columns, y \in rows}
             corners == Indices(xs, ys)
             horizontal == Indices(innerXs, ys)
             vertical == Indices(xs, innerYs)
             writes == [k \in corners \cup horizontal \cup vertical |->
                          IF k \in vertical THEN Bar ELSE IF k \in horizontal THEN Minus ELSE Plus]
             framed == Framed(position, size, part, octets)
  <1>1. framed = IF \/ Endless(X + 1, w - 2)
                    \/ Endless(Y + 1, h - 2)
                    \/ ~Inside(octets, corners)
                 THEN Stopped("fault") ELSE Written(octets, writes)
    BY DEF Framed
  <1>2. outcome = Checked(traps, position, part, size, octets, framed)
    BY DEF BlobDrawWindow2d
  <1>3. \A k \in DOMAIN writes : writes[k] \in Octets /\ writes[k] \in {Plus, Minus, Bar}
    <2> HIDE DEF corners, horizontal, vertical
    <2>1. QED
      BY OctetValues
  <1>4. Leaves(outcome, Len(octets))
    <2> HIDE DEF writes, corners, framed
    <2>1. framed \in {Stopped("fault"), Written(octets, writes)}
      BY <1>1
    <2>2. outcome \in {framed, Stopped("trap"), NotSet}
      BY <1>2, CheckedEnds
    <2>3. Leaves(Written(octets, writes), Len(octets))
      BY <1>3, WritesOctets
    <2> HIDE DEF outcome
    <2>4. QED
      BY <2>1, <2>2, <2>3, StopsLeave
  <1>5. ASSUME IsPart(position, part, size, octets)
        PROVE  /\ outcome.how = "returned"
               /\ \A x \in 0 .. W - 1, y \in 0 .. H - 1 :
                    IF OnFrame(x, y, position, part) THEN Pixel(outcome.value, W, x, y) \in {Plus, Minus, Bar}
                    ELSE Pixel(outcome.value, W, x, y) = Pixel(octets, W, x, y)
    <2>1. /\ W \in Nat \ {0} /\ H \in Nat /\ X \in Nat /\ Y \in Nat /\ w \in Nat \ {0} /\ h \in Nat \ {0}
          /\ X + w <= W /\ Y + h <= H /\ W < Half /\ H < Half /\ Half \in Nat
          /\ IsWhole(octets, size) /\ size.width \in Int /\ size.height \in Int
      <3>1. Covers(position, part, size, octets) /\ w > 0 /\ h > 0
        BY <1>5 DEF IsPart
      <3>2. W \in Nat \ {0} /\ H \in Nat
        BY <3>1, CoversFits
      <3>3. /\ X \in Nat /\ Y \in Nat /\ w \in Nat \ {0} /\ h \in Nat \ {0}
            /\ X + w <= W /\ Y + h <= H /\ IsWhole(octets, size)
        BY <3>1 DEF Covers
      <3>4. W < Half /\ H < Half /\ Half \in Nat
        BY <3>1, HalfAssumption DEF Covers, Integers32
      <3>5. QED
        BY <3>2, <3>3, <3>4
    <2>2. /\ End(X + 1, w - 2) = X + w - 1 /\ ~Endless(X + 1, w - 2)
          /\ innerXs = X + 1 .. X + w - 2
      <3> HIDE DEF X, w, W
      <3>1. X + w - 1 \in Int /\ 0 <= X + w - 1 /\ X + w - 1 < Half /\ (X + 1) + (w - 2) = X + w - 1
        BY <2>1
      <3>2. Int32(X + w - 1) = X + w - 1
        BY <3>1, Int32Is
      <3>3. End(X + 1, w - 2) = X + w - 1
        BY <3>1, <3>2 DEF End
      <3>4. ~Endless(X + 1, w - 2)
        BY <3>1, <3>3 DEF Endless
      <3>5. (X + w - 1) - 1 = X + w - 2
        BY <2>1
      <3>6. QED
        BY <3>3, <3>4, <3>5 DEF Loop
    <2>3. /\ End(Y + 1, h - 2) = Y + h - 1 /\ ~Endless(Y + 1, h - 2)
          /\ innerYs = Y + 1 .. Y + h - 2
      <3> HIDE DEF Y, h, H
      <3>1. Y + h - 1 \in Int /\ 0 <= Y + h - 1 /\ Y + h - 1 < Half /\ (Y + 1) + (h - 2) = Y + h - 1
        BY <2>1
      <3>2. Int32(Y + h - 1) = Y + h - 1
        BY <3>1, Int32Is
      <3>3. End(Y + 1, h - 2) = Y + h - 1
        BY <3>1, <3>2 DEF End
      <3>4. ~Endless(Y + 1, h - 2)
        BY <3>1, <3>3 DEF Endless
      <3>5. (Y + h - 1) - 1 = Y + h - 2
        BY <2>1
      <3>6. QED
        BY <3>3, <3>4, <3>5 DEF Loop
    <2>4. xs \subseteq 0 .. W - 1 /\ ys \subseteq 0 .. H - 1 /\ innerXs \subseteq 0 .. W - 1 /\ innerYs \subseteq 0 .. H - 1
      <3>1. xs \subseteq 0 .. W - 1 /\ ys \subseteq 0 .. H - 1
        BY <2>1
      <3>2. X + 1 .. X + w - 2 \subseteq 0 .. W - 1 /\ Y + 1 .. Y + h - 2 \subseteq 0 .. H - 1
        BY <2>1
      <3> HIDE DEF innerXs, innerYs
      <3>3. QED
        BY <2>2, <2>3, <3>1, <3>2
    <2>5. \A x \in 0 .. W - 1, y \in 0 .. H - 1 :
            OnFrame(x, y, position, part)
              <=> \/ x \in xs /\ y \in ys
                  \/ x \in innerXs /\ y \in ys
                  \/ x \in xs /\ y \in innerYs
      <3> TAKE x \in 0 .. W - 1, y \in 0 .. H - 1
      <3> HIDE DEF innerXs, innerYs
      <3>1. x \in innerXs <=> (X + 1 <= x /\ x <= X + w - 2)
        BY <2>1, <2>2
      <3>2. y \in innerYs <=> (Y + 1 <= y /\ y <= Y + h - 2)
        BY <2>1, <2>3
      <3>3. QED
        <4>1. x \in xs <=> (x = X \/ x = X + w - 1)
          OBVIOUS
        <4>2. y \in ys <=> (y = Y \/ y = Y + h - 1)
          OBVIOUS
        <4>3. OnFrame(x, y, position, part)
                <=> /\ X <= x /\ x < X + w /\ Y <= y /\ y < Y + h
                    /\ (x \in xs \/ y \in ys)
          BY DEF OnFrame, InArea
        <4>4. x \in Int /\ y \in Int
          OBVIOUS
        <4> HIDE DEF xs, ys, X, Y, w, h, W, H
        <4>5. QED
          BY <2>1, <3>1, <3>2, <4>1, <4>2, <4>3, <4>4
    <2> HIDE DEF xs, ys, innerXs, innerYs
    <2>6. CellsFit(octets, size, xs, ys) /\ CellsFit(octets, size, innerXs, ys) /\ CellsFit(octets, size, xs, innerYs)
      BY <2>1, <2>4, CellsAre
    <2>7. /\ corners = Cells(W, xs, ys) /\ horizontal = Cells(W, innerXs, ys) /\ vertical = Cells(W, xs, innerYs)
      BY <2>6 DEF CellsFit
    <2>8. /\ corners \subseteq 0 .. Len(octets) - 1 /\ horizontal \subseteq 0 .. Len(octets) - 1
          /\ vertical \subseteq 0 .. Len(octets) - 1
          /\ \A x \in 0 .. W - 1, y \in 0 .. H - 1 :
               /\ y * W + x \in corners <=> (x \in xs /\ y \in ys)
               /\ y * W + x \in horizontal <=> (x \in innerXs /\ y \in ys)
               /\ y * W + x \in vertical <=> (x \in xs /\ y \in innerYs)
      <3> HIDE DEF corners, horizontal, vertical
      <3>1. QED
        BY <2>6, <2>7 DEF CellsFit
    <2> HIDE DEF corners, horizontal, vertical
    <2>9. outcome = Written(octets, writes)
      <3>1. Inside(octets, corners)
        BY <2>8 DEF Inside, Count
      <3> HIDE DEF writes, framed
      <3>2. framed = Written(octets, writes)
        BY <1>1, <2>2, <2>3, <3>1
      <3>3. QED
        BY <1>2, <1>5, <3>2, PartIsChecked
    <2>10. DOMAIN writes = corners \cup horizontal \cup vertical
      OBVIOUS
    <2> HIDE DEF writes, outcome
    <2>11. /\ outcome.how = "returned"
           /\ \A x \in 0 .. W - 1, y \in 0 .. H - 1 :
                Pixel(outcome.value, W, x, y)
                  = IF y * W + x \in DOMAIN writes THEN writes[y * W + x] ELSE Pixel(octets, W, x, y)
      <3>1. DOMAIN writes \subseteq 0 .. Len(octets) - 1
        BY <2>8, <2>10
      <3>2. QED
        <4>1. size.width \in Int /\ size.height \in Int /\ IsWhole(octets, size)
          BY <2>1
        <4>2. \A k \in DOMAIN writes : writes[k] \in Octets
          BY <1>3
        <4>3. QED
          BY <2>9, <3>1, <4>1, <4>2, WritesCells
    <2>12. ASSUME NEW x \in 0 .. W - 1, NEW y \in 0 .. H - 1
           PROVE  IF OnFrame(x, y, position, part) THEN Pixel(outcome.value, W, x, y) \in {Plus, Minus, Bar}
                  ELSE Pixel(outcome.value, W, x, y) = Pixel(octets, W, x, y)
      <3> DEFINE k == y * W + x
      <3>1. k \in DOMAIN writes <=> OnFrame(x, y, position, part)
        BY <2>5, <2>8, <2>10
      <3>2. Pixel(outcome.value, W, x, y) = IF k \in DOMAIN writes THEN writes[k] ELSE Pixel(octets, W, x, y)
        BY <2>11
      <3> HIDE DEF k
      <3>3. QED
        BY <1>3, <3>1, <3>2
    <2>13. QED
      BY <2>11, <2>12
  <1> HIDE DEF outcome
  <1>6. QED
    BY <1>4, <1>5 DEF outcome

-----------------------------------------------------------------------------
(* Copies of areas, row by row.                                             *)

\* The next row of the loop of copy2d.
NextRow(octets, sourceOctets, position, size, sourceSize, same, repeats, y) ==
  CopiedRow(octets, IF same THEN octets ELSE sourceOctets,
            y * sourceSize.width, (y + position.y) * size.width + position.x,
            sourceSize.width, same /\ repeats)

\* Each row of the source, and each that it is copied to, is in its blob.
RowsFit(position, size, sourceSize, sourceOctets, octets) ==
  /\ sourceSize.height \in Nat /\ sourceSize.width \in Int
  /\ position.x \in Int /\ position.y \in Int /\ size.width \in Int
  /\ \A y \in 0 .. sourceSize.height - 1 :
       LET from == y * sourceSize.width
           to == (y + position.y) * size.width + position.x
       IN  /\ sourceSize.width >= 0
           /\ \A i \in 0 .. sourceSize.width - 1 :
                from + i \in 0 .. Len(sourceOctets) - 1 /\ to + i \in 0 .. Len(octets) - 1

\* What the blob holds after each row.
IsCopy(g, position, size, sourceSize, sourceOctets, octets, same, repeats) ==
  /\ g[0] = octets
  /\ \A y \in 0 .. sourceSize.height - 1 :
       g[y + 1] = NextRow(g[y], sourceOctets, position, size, sourceSize, same, repeats, y)

\* A row is written where it belongs, and nothing else.
RowIsRight(v, octets, sourceOctets, position, size, sourceSize, same, repeats, y) ==
  LET row == NextRow(v, sourceOctets, position, size, sourceSize, same, repeats, y)
      to == (y + position.y) * size.width + position.x
      w == sourceSize.width
  IN  /\ row \in [1 .. Len(octets) -> Octets]
      /\ \A k \in 0 .. Len(octets) - 1 : k \notin to .. to + w - 1 => row[k + 1] = v[k + 1]
      /\ ~same => \A i \in 0 .. w - 1 : row[to + i + 1] = sourceOctets[y * w + i + 1]

\* Every row is so, whatever the rows before it wrote.
LEMMA CopiedRuns ==
  ASSUME NEW position, NEW size, NEW sourceSize, NEW sourceOctets, NEW octets, NEW same, NEW repeats,
         IsBlob(octets), IsBlob(sourceOctets), same => sourceOctets = octets,
         RowsFit(position, size, sourceSize, sourceOctets, octets)
  PROVE  \A y \in 0 .. sourceSize.height - 1 :
           \A v \in [1 .. Len(octets) -> Octets] :
             RowIsRight(v, octets, sourceOctets, position, size, sourceSize, same, repeats, y)
  <1> SUFFICES ASSUME NEW y \in 0 .. sourceSize.height - 1, NEW v \in [1 .. Len(octets) -> Octets]
               PROVE  LET row == NextRow(v, sourceOctets, position, size, sourceSize, same, repeats, y)
                          to == (y + position.y) * size.width + position.x
                          w == sourceSize.width
                      IN  /\ row \in [1 .. Len(octets) -> Octets]
                          /\ \A k \in 0 .. Len(octets) - 1 : k \notin to .. to + w - 1 => row[k + 1] = v[k + 1]
                          /\ ~same => \A i \in 0 .. w - 1 : row[to + i + 1] = sourceOctets[y * w + i + 1]
    BY DEF RowIsRight
  <1> DEFINE n == Len(octets)
             w == sourceSize.width
             from == y * w
             to == (y + position.y) * size.width + position.x
             source == IF same THEN v ELSE sourceOctets
             again == same /\ repeats
             distance == to - from
             Octet(i) == IF again /\ 0 < distance THEN At(source, from + (i % distance))
                         ELSE At(source, from + i)
             row == NextRow(v, sourceOctets, position, size, sourceSize, same, repeats, y)
  <1>1. /\ n \in Nat /\ n \in 0 .. Capacity /\ w \in Nat /\ y \in Nat /\ from \in Int /\ to \in Int
        /\ \A i \in 0 .. w - 1 : from + i \in 0 .. Len(sourceOctets) - 1 /\ to + i \in 0 .. n - 1
    <2>1. n \in 0 .. Capacity /\ n \in Nat
      BY BlobIsShort
    <2>2. /\ sourceSize.height \in Nat /\ w \in Int /\ w >= 0
          /\ \A i \in 0 .. w - 1 : from + i \in 0 .. Len(sourceOctets) - 1 /\ to + i \in 0 .. n - 1
      BY DEF RowsFit
    <2>3. y \in Nat
      BY <2>2
    <2>4. from \in Int
      BY <2>2, <2>3
    <2>5. to \in Int
      <3>1. position.x \in Int /\ position.y \in Int /\ size.width \in Int
        BY DEF RowsFit
      <3>2. (y + position.y) * size.width \in Int
        BY <2>3, <3>1
      <3>3. QED
        BY <3>1, <3>2
    <2>6. QED
      BY <2>1, <2>2, <2>3, <2>4, <2>5
  <1>2. Len(v) = n
    <2> HIDE DEF n
    <2>1. QED
      BY <1>1, FunctionIsBlob DEF n
  <1>3. \A i \in 0 .. Len(sourceOctets) - 1 : At(source, i) \in Octets
    <2>1. sourceOctets \in [1 .. Len(sourceOctets) -> Octets] /\ Len(sourceOctets) \in Nat
      BY BlobIsFunction, BlobIsShort
    <2>2. CASE same
      <3>1. Len(sourceOctets) = n /\ source = v
        BY <2>2
      <3>2. \A i \in 0 .. n - 1 : i + 1 \in 1 .. n
        BY <1>1
      <3> HIDE DEF n, source
      <3>3. QED
        BY <3>1, <3>2 DEF At, n
    <2>3. CASE ~same
      <3>1. source = sourceOctets
        BY <2>3
      <3>2. \A i \in 0 .. Len(sourceOctets) - 1 : i + 1 \in 1 .. Len(sourceOctets)
        BY <2>1
      <3> HIDE DEF source
      <3>3. QED
        BY <2>1, <3>1, <3>2 DEF At
    <2>4. QED
      BY <2>2, <2>3
  <1>4. row = [k \in 1 .. n |-> IF k - 1 \in to .. to + w - 1 THEN Octet(k - 1 - to) ELSE v[k]]
    <2>1. row = CopiedRow(v, source, from, to, w, again)
      BY DEF NextRow
    <2> HIDE DEF from, to, w, again, source, n
    <2>2. QED
      BY <1>2, <2>1 DEF CopiedRow, Count
  <1>5. \A i \in 0 .. w - 1 : Octet(i) \in Octets
    <2> TAKE i \in 0 .. w - 1
    <2>1. from + i \in 0 .. Len(sourceOctets) - 1
      BY <1>1
    <2>2. ASSUME 0 < distance PROVE from + (i % distance) \in 0 .. Len(sourceOctets) - 1
      <3> HIDE DEF w, from, to
      <3>1. distance \in Nat \ {0} /\ i \in Nat
        BY <1>1, <2>2
      <3> HIDE DEF distance
      <3>2. i % distance \in 0 .. i
        BY <3>1
      <3>3. i % distance \in 0 .. w - 1
        BY <1>1, <3>2
      <3>4. QED
        BY <1>1, <3>3
    <2> HIDE DEF source, from, to, w, again, distance
    <2>3. QED
      BY <1>3, <2>1, <2>2
  <1> HIDE DEF row, Octet, n, w, from, to, distance, source, again
  <1>6. row \in [1 .. n -> Octets]
    <2>1. \A k \in 1 .. n : k - 1 \in to .. to + w - 1 => k - 1 - to \in 0 .. w - 1
      BY <1>1
    <2>2. \A k \in 1 .. n : v[k] \in Octets
      BY DEF n
    <2>3. \A k \in 1 .. n : (IF k - 1 \in to .. to + w - 1 THEN Octet(k - 1 - to) ELSE v[k]) \in Octets
      BY <1>5, <2>1, <2>2
    <2>4. QED
      BY <1>4, <2>3
  <1>7. \A k \in 0 .. n - 1 : k \notin to .. to + w - 1 => row[k + 1] = v[k + 1]
    <2> TAKE k \in 0 .. n - 1
    <2>1. k + 1 \in 1 .. n /\ (k + 1) - 1 = k
      BY <1>1
    <2>2. QED
      BY <1>4, <2>1
  <1>8. ~same => \A i \in 0 .. w - 1 : row[to + i + 1] = sourceOctets[from + i + 1]
    <2> SUFFICES ASSUME ~same, NEW i \in 0 .. w - 1 PROVE row[to + i + 1] = sourceOctets[from + i + 1]
      OBVIOUS
    <2>1. to + i + 1 \in 1 .. n /\ (to + i + 1) - 1 = to + i /\ to + i - to = i /\ to + i \in to .. to + w - 1
      BY <1>1
    <2>2. row[to + i + 1] = Octet(i)
      <3> DEFINE k == to + i + 1
      <3>1. k \in 1 .. n /\ k - 1 \in to .. to + w - 1 /\ k - 1 - to = i
        BY <1>1, <2>1
      <3> HIDE DEF k
      <3>2. row[k] = Octet(k - 1 - to)
        BY <1>4, <3>1
      <3>3. QED
        BY <3>1, <3>2 DEF k
    <2>3. Octet(i) = At(sourceOctets, from + i)
      BY DEF Octet, again, source
    <2>4. QED
      BY <2>2, <2>3 DEF At
  <1>9. QED
    BY <1>6, <1>7, <1>8 DEF row, n, w, from, to

\* A run of octets is inside a blob if each of them is.
LEMMA InsideInterval ==
  ASSUME NEW blob, NEW a \in Int, NEW w \in Nat
  PROVE  Inside(blob, a .. a + w - 1) <=> \A i \in 0 .. w - 1 : a + i \in 0 .. Len(blob) - 1
  <1>1. ASSUME Inside(blob, a .. a + w - 1), NEW i \in 0 .. w - 1 PROVE a + i \in 0 .. Len(blob) - 1
    <2>1. a + i \in a .. a + w - 1
      OBVIOUS
    <2>2. QED
      BY <1>1, <2>1 DEF Inside, Count
  <1>2. ASSUME \A i \in 0 .. w - 1 : a + i \in 0 .. Len(blob) - 1, NEW k \in a .. a + w - 1
        PROVE  k \in 0 .. Len(blob) - 1
    <2>1. k - a \in 0 .. w - 1 /\ a + (k - a) = k
      OBVIOUS
    <2>2. a + (k - a) \in 0 .. Len(blob) - 1
      BY <1>2, <2>1
    <2>3. QED
      BY <2>1, <2>2
  <1>3. QED
    BY <1>1, <1>2 DEF Inside, Count

\* The loop of copy2d, where it does not fault.
LEMMA CopiedIs ==
  ASSUME NEW position, NEW size, NEW sourceSize, NEW sourceOctets, NEW octets,
         NEW same \in BOOLEAN, NEW repeats \in BOOLEAN,
         position.x \in Int, position.y \in Int, size.width \in Int,
         sourceSize.width \in Int, sourceSize.height \in Int,
         IsBlob(octets), IsBlob(sourceOctets), same => sourceOctets = octets
  PROVE  LET outcome == Copied(position, size, sourceSize, sourceOctets, octets, same, repeats)
             h == sourceSize.height
         IN  IF RowsFit(position, size, sourceSize, sourceOctets, octets)
             THEN \E g : /\ IsCopy(g, position, size, sourceSize, sourceOctets, octets, same, repeats)
                         /\ \A y \in 0 .. h : g[y] \in [1 .. Len(octets) -> Octets]
                         /\ outcome = Returned(g[h])
             ELSE outcome = Stopped("fault")
  <1> DEFINE outcome == Copied(position, size, sourceSize, sourceOctets, octets, same, repeats)
             h == sourceSize.height
             w == sourceSize.width
             From(y) == y * w
             To(y) == (y + position.y) * size.width + position.x
             rows == 0 .. h - 1
             S == [1 .. Len(octets) -> Octets]
             NoSource == \E y \in rows : w > 0 /\ ~Inside(sourceOctets, From(y) .. From(y) + w - 1)
             NoTarget == \E y \in rows : w > 0 /\ ~Inside(octets, To(y) .. To(y) + w - 1)
             stops == \/ h < 0
                      \/ rows # {} /\ w < 0
                      \/ NoSource \/ NoTarget
             Good(g) == g = [y \in 0 .. h |->
                               IF y = 0 THEN octets
                               ELSE CopiedRow(g[y - 1], IF same THEN g[y - 1] ELSE sourceOctets,
                                              From(y - 1), To(y - 1), w, same /\ repeats)]
             after == CHOOSE g : Good(g)
             fits == RowsFit(position, size, sourceSize, sourceOctets, octets)
  <1>1. outcome = IF stops THEN Stopped("fault") ELSE Returned(after[h])
    BY DEF Copied
  <1>2. \A y \in rows : From(y) \in Int /\ To(y) \in Int
    <2> TAKE y \in rows
    <2>1. y \in Int /\ w \in Int /\ position.x \in Int /\ position.y \in Int /\ size.width \in Int
      OBVIOUS
    <2>2. From(y) \in Int
      BY <2>1
    <2>3. (y + position.y) * size.width \in Int
      BY <2>1
    <2>4. QED
      BY <2>1, <2>2, <2>3
  <1>3. fits <=> ~stops
    <2> DEFINE In(y) == \A i \in 0 .. w - 1 : From(y) + i \in 0 .. Len(sourceOctets) - 1 /\ To(y) + i \in 0 .. Len(octets) - 1
    <2>1. fits <=> (h \in Nat /\ \A y \in rows : w >= 0 /\ In(y))
      BY DEF RowsFit
    <2>2. ASSUME w > 0, NEW y \in rows
          PROVE  In(y) <=> (Inside(sourceOctets, From(y) .. From(y) + w - 1) /\ Inside(octets, To(y) .. To(y) + w - 1))
      <3>1. w \in Nat /\ From(y) \in Int /\ To(y) \in Int
        BY <1>2, <2>2
      <3>2. Inside(sourceOctets, From(y) .. From(y) + w - 1) <=> \A i \in 0 .. w - 1 : From(y) + i \in 0 .. Len(sourceOctets) - 1
        <4> HIDE DEF From, w
        <4>1. QED
          BY <3>1, InsideInterval
      <3>3. Inside(octets, To(y) .. To(y) + w - 1) <=> \A i \in 0 .. w - 1 : To(y) + i \in 0 .. Len(octets) - 1
        <4> HIDE DEF To, w
        <4>1. QED
          BY <3>1, InsideInterval
      <3> HIDE DEF From, To, w
      <3>4. QED
        BY <3>2, <3>3
    <2>3. ASSUME w = 0, NEW y \in rows PROVE In(y)
      <3>1. 0 .. w - 1 = {}
        BY <2>3
      <3> HIDE DEF From, To, w
      <3>2. QED
        BY <3>1
    <2>4. h \in Int /\ w \in Int
      OBVIOUS
    <2> HIDE DEF In, From, To, w, h, fits, rows
    <2>5. QED
      BY <2>1, <2>2, <2>3, <2>4
  <1>4. CASE ~fits
    <2> HIDE DEF stops, fits, outcome
    <2>1. outcome = Stopped("fault")
      BY <1>1, <1>3, <1>4
    <2>2. QED
      BY <1>4, <2>1 DEF fits, outcome
  <1>5. CASE fits
    <2> DEFINE Row(v, y) == NextRow(v, sourceOctets, position, size, sourceSize, same, repeats, y)
               step == [i \in 1 .. h |-> [v \in S |-> Row(v, i - 1)]]
    <2>1. h \in Nat
      BY <1>5 DEF RowsFit
    <2>2. \A y \in rows, v \in S : Row(v, y) \in S
      <3>1. \A y \in rows, v \in S : RowIsRight(v, octets, sourceOctets, position, size, sourceSize, same,
           repeats, y)
        BY <1>5, CopiedRuns
      <3>2. QED
        BY <3>1 DEF RowIsRight
    <2>3. octets \in S
      BY BlobIsFunction
    <2>4. step \in [1 .. h -> [S -> S]]
      <3> HIDE DEF Row, S
      <3>1. \A i \in 1 .. h : i - 1 \in rows
        BY <2>1
      <3> HIDE DEF rows, h
      <3>2. \A i \in 1 .. h : [v \in S |-> Row(v, i - 1)] \in [S -> S]
        BY <2>2, <3>1
      <3>3. QED
        BY <3>2
    <2>5. PICK f : IsIteration(f, h, S, octets, step)
      <3> HIDE DEF step, S, h
      <3>1. QED
        BY <2>1, <2>3, <2>4, Iterates
    <2>6. \A v : \A y : Row(v, y) = CopiedRow(v, IF same THEN v ELSE sourceOctets, From(y), To(y), w, same /\ repeats)
      BY DEF NextRow
    <2>7. Good(f)
      <3>1. f \in [0 .. h -> S] /\ f[0] = octets /\ \A i \in 1 .. h : f[i] = step[i][f[i - 1]]
        BY <2>5 DEF IsIteration
      <3>2. \A i \in 1 .. h : i - 1 \in 0 .. h
        BY <2>1
      <3>3. \A i \in 1 .. h, v \in S : step[i][v] = Row(v, i - 1)
        OBVIOUS
      <3> HIDE DEF step, S, Row, From, To, w
      <3>4. \A i \in 1 .. h : f[i] = Row(f[i - 1], i - 1)
        BY <3>1, <3>2, <3>3
      <3>5. \A i \in 0 .. h : i = 0 \/ i \in 1 .. h
        BY <2>1
      <3> HIDE DEF h
      <3>6. \A i \in 0 .. h : f[i] = IF i = 0 THEN octets
                                     ELSE CopiedRow(f[i - 1], IF same THEN f[i - 1] ELSE sourceOctets,
                                                    From(i - 1), To(i - 1), w, same /\ repeats)
        BY <2>6, <3>1, <3>4, <3>5
      <3>7. QED
        BY <3>1, <3>6
    <2>8. Good(after)
      <3> HIDE DEF Good
      <3>1. QED
        BY <2>7
    <2>9. /\ after[0] = octets
          /\ \A y \in rows : after[y + 1] = Row(after[y], y)
      <3>1. 0 \in 0 .. h /\ \A y \in rows : y + 1 \in 0 .. h /\ y + 1 # 0 /\ (y + 1) - 1 = y
        BY <2>1
      <3> HIDE DEF From, To, w, Row, after
      <3>2. after = [y \in 0 .. h |->
                       IF y = 0 THEN octets
                       ELSE CopiedRow(after[y - 1], IF same THEN after[y - 1] ELSE sourceOctets,
                                      From(y - 1), To(y - 1), w, same /\ repeats)]
        BY <2>8
      <3> HIDE DEF Good, h, rows
      <3>3. after[0] = octets
        BY <3>1, <3>2
      <3>4. \A y \in rows : after[y + 1] = CopiedRow(after[y], IF same THEN after[y] ELSE sourceOctets,
                                                     From(y), To(y), w, same /\ repeats)
        BY <3>1, <3>2
      <3>5. QED
        BY <2>6, <3>3, <3>4
    <2>10. \A y \in 0 .. h : after[y] \in S
      <3> DEFINE T == {y \in 0 .. h : after[y] \in S}
      <3> HIDE DEF after, S, Row
      <3>1. 0 \in T
        BY <2>1, <2>3, <2>9
      <3>2. \A i \in 0 .. h - 1 : i \in T => i + 1 \in T
        BY <2>1, <2>2, <2>9
      <3>3. \A i \in 0 .. h : i \in T
        <4> HIDE DEF T, h
        <4>1. QED
          BY <2>1, <3>1, <3>2, SetInduction
      <3>4. QED
        BY <3>3
    <2> HIDE DEF after
    <2>11. IsCopy(after, position, size, sourceSize, sourceOctets, octets, same, repeats)
      BY <2>9 DEF IsCopy
    <2>12. outcome = Returned(after[h])
      <3> HIDE DEF stops, fits, outcome
      <3>1. QED
        BY <1>1, <1>3, <1>5
    <2> HIDE DEF outcome
    <2>13. QED
      BY <1>5, <2>10, <2>11, <2>12 DEF outcome
  <1>6. QED
    BY <1>4, <1>5

\* An area inside the blob takes every row of a source of its size.
LEMMA PartFits ==
  ASSUME NEW position, NEW size, NEW sourceSize, NEW sourceOctets, NEW octets,
         IsPart(position, sourceSize, size, octets),
         IsBlob(sourceOctets), IsWhole(sourceOctets, sourceSize)
  PROVE  RowsFit(position, size, sourceSize, sourceOctets, octets)
  <1> DEFINE W == size.width
             H == size.height
             w == sourceSize.width
             h == sourceSize.height
             X == position.x
             Y == position.y
  <1>1. /\ X \in Nat /\ Y \in Nat /\ w \in Nat \ {0} /\ h \in Nat \ {0}
        /\ X + w <= W /\ Y + h <= H /\ IsWhole(octets, size) /\ IsBlob(octets)
        /\ Covers(position, sourceSize, size, octets)
    BY DEF IsPart, Covers
  <1>2. W \in Nat \ {0} /\ H \in Nat
    BY <1>1, CoversFits
  <1>3. ASSUME NEW y \in 0 .. h - 1, NEW i \in 0 .. w - 1
        PROVE  /\ y * w + i \in 0 .. Len(sourceOctets) - 1
               /\ ((y + Y) * W + X) + i \in 0 .. Len(octets) - 1
    <2>1. y * w + i \in 0 .. Len(sourceOctets) - 1
      <3>1. sourceSize.width \in Int /\ sourceSize.height \in Int
        BY <1>1
      <3>2. QED
        BY <3>1, CellInside
    <2> DEFINE u == y + Y
               x == X + i
    <2>2. u \in 0 .. H - 1 /\ x \in 0 .. W - 1
      BY <1>1, <1>2
    <2>3. u * W + x \in 0 .. Len(octets) - 1 /\ u * W \in Int
      <3>1. size.width \in Int /\ size.height \in Int
        BY <1>2
      <3> HIDE DEF u, x
      <3>2. QED
        BY <1>1, <2>2, <3>1, CellInside
    <2>4. (u * W + X) + i = u * W + x
      <3> DEFINE z == u * W
      <3>1. z \in Int /\ X \in Int /\ i \in Int
        BY <1>1, <2>3
      <3> HIDE DEF z
      <3>2. (z + X) + i = z + x
        BY <3>1
      <3>3. QED
        BY <3>2 DEF z
    <2> HIDE DEF u, x
    <2>5. ((y + Y) * W + X) + i \in 0 .. Len(octets) - 1
      BY <2>3, <2>4 DEF u
    <2>6. QED
      BY <2>1, <2>5
  <1> DEFINE R(y) == LET from == y * w
                         to == (y + Y) * W + X
                     IN  w >= 0 /\ \A i \in 0 .. w - 1 :
                                     from + i \in 0 .. Len(sourceOctets) - 1 /\ to + i \in 0 .. Len(octets) - 1
  <1>4. \A y \in 0 .. h - 1 : R(y)
    BY <1>1, <1>3
  <1>5. /\ sourceSize.height \in Nat /\ sourceSize.width \in Int
        /\ position.x \in Int /\ position.y \in Int /\ size.width \in Int
    BY <1>1, <1>2
  <1>6. QED
    BY <1>4, <1>5 DEF RowsFit

\* After the first rows, their pixels are copied and the others are as before.
AreCopied(blob, rows, position, size, part, source, octets, same) ==
  \A x \in 0 .. size.width - 1, y \in 0 .. size.height - 1 :
    IF InArea(x, y, position, part) /\ y < position.y + rows
    THEN ~same => Pixel(blob, size.width, x, y) = Pixel(source, part.width, x - position.x, y - position.y)
    ELSE Pixel(blob, size.width, x, y) = Pixel(octets, size.width, x, y)

\* The next row adds to the rows that are copied.
LEMMA RowIsCopied ==
  ASSUME NEW position, NEW size, NEW part, NEW source, NEW octets, NEW same, NEW repeats,
         IsPart(position, part, size, octets), IsBlob(source), IsWhole(source, part),
         same => source = octets,
         NEW j \in 0 .. part.height - 1, NEW v \in [1 .. Len(octets) -> Octets],
         AreCopied(v, j, position, size, part, source, octets, same)
  PROVE  AreCopied(NextRow(v, source, position, size, part, same, repeats, j),
                   j + 1, position, size, part, source, octets, same)
  <1> DEFINE W == size.width
             H == size.height
             w == part.width
             h == part.height
             X == position.x
             Y == position.y
             n == Len(octets)
             to == (j + Y) * W + X
             from == j * w
             row == NextRow(v, source, position, size, part, same, repeats, j)
  <1>1. /\ X \in Nat /\ Y \in Nat /\ w \in Nat \ {0} /\ h \in Nat \ {0}
        /\ X + w <= W /\ Y + h <= H /\ IsWhole(octets, size) /\ IsBlob(octets)
        /\ Covers(position, part, size, octets)
    BY DEF IsPart, Covers
  <1>2. W \in Nat \ {0} /\ H \in Nat
    BY <1>1, CoversFits
  <1>3. j \in Nat /\ j < h /\ (j + Y) \in Nat /\ j + Y \in 0 .. H - 1
    BY <1>1, <1>2
  <1>4. /\ \A k \in 0 .. n - 1 : k \notin to .. to + w - 1 => row[k + 1] = v[k + 1]
        /\ ~same => \A i \in 0 .. w - 1 : row[to + i + 1] = source[from + i + 1]
    <2>1. RowsFit(position, size, part, source, octets)
      BY PartFits
    <2>2. RowIsRight(v, octets, source, position, size, part, same, repeats, j)
      BY <1>1, <2>1, CopiedRuns
    <2>3. QED
      BY <2>2 DEF RowIsRight
  <1> SUFFICES ASSUME NEW x \in 0 .. W - 1, NEW y \in 0 .. H - 1
               PROVE  IF InArea(x, y, position, part) /\ y < Y + (j + 1)
                      THEN ~same => Pixel(row, W, x, y) = Pixel(source, w, x - X, y - Y)
                      ELSE Pixel(row, W, x, y) = Pixel(octets, W, x, y)
    BY DEF AreCopied
  <1>5. IF InArea(x, y, position, part) /\ y < Y + j
        THEN ~same => Pixel(v, W, x, y) = Pixel(source, w, x - X, y - Y)
        ELSE Pixel(v, W, x, y) = Pixel(octets, W, x, y)
    BY DEF AreCopied
  <1>6. InArea(x, y, position, part) <=> (X <= x /\ x < X + w /\ Y <= y /\ y < Y + h)
    BY DEF InArea
  <1>7. x \in Nat /\ y \in Nat /\ x < W /\ y < H
    BY <1>2
  <1> DEFINE k == y * W + x
             isRow == y = Y + j /\ X <= x /\ x < X + w
  <1>8. k \in 0 .. n - 1
    <2>1. size.width \in Int /\ size.height \in Int
      BY <1>2
    <2>2. QED
      BY <1>1, <2>1, CellInside
  <1> HIDE DEF W, H, w, h, X, Y
  <1>9. isRow => k = to + (x - X) /\ x - X \in 0 .. w - 1
    <2> SUFFICES ASSUME isRow PROVE k = to + (x - X) /\ x - X \in 0 .. w - 1
      OBVIOUS
    <2> DEFINE z == y * W
    <2>1. z \in Int /\ X \in Int /\ x \in Int
      BY <1>1, <1>2, <1>7
    <2>2. to = z + X
      <3>1. j + Y = y
        BY <1>1, <1>3
      <3>2. QED
        BY <3>1
    <2>3. k = z + x
      OBVIOUS
    <2>4. x - X \in 0 .. w - 1
      BY <1>1, <1>2, <1>7
    <2> HIDE DEF z, to, k
    <2>5. QED
      BY <2>1, <2>2, <2>3, <2>4
  <1>10. k \in to .. to + w - 1 => isRow
    <2> SUFFICES ASSUME k \in to .. to + w - 1 PROVE isRow
      OBVIOUS
    <2> DEFINE t == k - to
               u == X + t
               z == (j + Y) * W
    <2>1. z \in Int /\ X \in Int /\ k \in Int /\ to = z + X
      <3>1. z \in Int
        BY <1>2, <1>3
      <3> HIDE DEF k
      <3>2. QED
        BY <1>1, <1>8, <3>1
    <2>2. t \in 0 .. w - 1 /\ u \in 0 .. W - 1 /\ k = z + u
      <3> HIDE DEF z, to, k
      <3>1. QED
        BY <1>1, <1>2, <2>1
    <2>3. y * W + x = (j + Y) * W + u
      BY <2>2
    <2> HIDE DEF t
    <2>4. x = u /\ y = j + Y
      <3> HIDE DEF u
      <3>1. y \in Int /\ j + Y \in Int
        BY <1>3
      <3>2. QED
        <4>1. x \in 0 .. W - 1 /\ u \in 0 .. W - 1
          BY <1>2, <1>7, <2>2
        <4>2. QED
          BY <1>2, <2>3, <3>1, <4>1, CellsDiffer
    <2>5. QED
      <3>1. u = X + t /\ t \in 0 .. w - 1
        BY <2>2
      <3> HIDE DEF u
      <3>2. QED
        BY <1>1, <1>3, <2>4, <3>1
  <1>11. CASE isRow
    <2>1. InArea(x, y, position, part) /\ y < Y + (j + 1)
      <3>1. y = Y + j /\ X <= x /\ x < X + w /\ j \in Nat /\ Y \in Nat /\ j < h /\ h \in Nat
        BY <1>1, <1>3, <1>11
      <3>2. Y <= y /\ y < Y + h /\ y < Y + (j + 1)
        BY <3>1
      <3>3. QED
        BY <1>6, <3>1, <3>2
    <2>2. ASSUME ~same PROVE Pixel(row, W, x, y) = Pixel(source, w, x - X, y - Y)
      <3> DEFINE i == x - X
      <3>1. i \in 0 .. w - 1 /\ k = to + i /\ y - Y = j
        BY <1>1, <1>3, <1>9, <1>11
      <3> HIDE DEF i
      <3>2. row[to + i + 1] = source[from + i + 1]
        BY <1>4, <2>2, <3>1
      <3>3. Pixel(source, w, i, j) = source[from + i + 1]
        BY DEF Pixel
      <3>4. Pixel(row, W, x, y) = row[to + i + 1]
        BY <3>1 DEF Pixel
      <3>5. QED
        BY <3>1, <3>2, <3>3, <3>4 DEF i
    <2>3. QED
      BY <2>1, <2>2
  <1>12. CASE ~isRow
    <2>1. row[k + 1] = v[k + 1]
      <3> HIDE DEF k, to, row, isRow
      <3>1. QED
        BY <1>4, <1>8, <1>10, <1>12
    <2>2. Pixel(row, W, x, y) = Pixel(v, W, x, y)
      BY <2>1 DEF Pixel
    <2>3. (InArea(x, y, position, part) /\ y < Y + (j + 1)) <=> (InArea(x, y, position, part) /\ y < Y + j)
      BY <1>1, <1>3, <1>12, <1>6, <1>7
    <2> HIDE DEF row
    <2>4. QED
      BY <1>5, <2>2, <2>3
  <1>13. QED
    BY <1>11, <1>12

\* What the outcome of a copy leaves, and where.
CopyIs(outcome, position, size, part, source, octets, same) ==
  /\ Leaves(outcome, Len(octets))
  /\ IsPart(position, part, size, octets) /\ IsWhole(source, part) =>
       /\ outcome.how = "returned"
       /\ \A x \in 0 .. size.width - 1, y \in 0 .. size.height - 1 :
            IF InArea(x, y, position, part)
            THEN ~same => Pixel(outcome.value, size.width, x, y)
                            = Pixel(source, part.width, x - position.x, y - position.y)
            ELSE Pixel(outcome.value, size.width, x, y) = Pixel(octets, size.width, x, y)

\* Blob.copy2d! copies the source into the area and nothing outside.
LEMMA CopyIsRight ==
  ASSUME NEW position, NEW size, NEW sourceSize, NEW sourceOctets, NEW octets, NEW same \in BOOLEAN, NEW traps,
         position.x \in Int, position.y \in Int, size.width \in Int,
         sourceSize.width \in Int, sourceSize.height \in Int,
         IsBlob(octets), IsBlob(sourceOctets), same => sourceOctets = octets,
         NEW outcome \in BlobCopy2d(traps, position, size, sourceSize, sourceOctets, octets, same)
  PROVE  CopyIs(outcome, position, size, sourceSize, sourceOctets, octets, same)
  <1> DEFINE n == Len(octets)
             h == sourceSize.height
             Then(repeats) == Copied(position, size, sourceSize, sourceOctets, octets, same, repeats)
             fits == RowsFit(position, size, sourceSize, sourceOctets, octets)
             IsRun(g, repeats) ==
               /\ IsCopy(g, position, size, sourceSize, sourceOctets, octets, same, repeats)
               /\ \A y \in 0 .. h : g[y] \in [1 .. n -> Octets]
               /\ Then(repeats) = Returned(g[h])
  <1>1. PICK repeats \in BOOLEAN : outcome = Checked(traps, position, sourceSize, size, octets, Then(repeats))
    BY DEF BlobCopy2d
  <1>2. IF fits THEN \E g : IsRun(g, repeats) ELSE Then(repeats) = Stopped("fault")
    <2> HIDE DEF fits
    <2>1. QED
      BY CopiedIs DEF fits
  <1>3. n \in 0 .. Capacity
    BY BlobIsFunction
  <1>4. ASSUME NEW g, IsRun(g, repeats), fits PROVE Leaves(Then(repeats), n)
    <2>1. h \in Nat
      BY <1>4 DEF RowsFit
    <2>2. g[h] \in [1 .. n -> Octets]
      BY <1>4, <2>1
    <2>3. IsBlob(g[h]) /\ Len(g[h]) = n
      <3> HIDE DEF n
      <3>1. QED
        BY <1>3, <2>2, FunctionIsBlob
    <2>4. Then(repeats) = Returned(g[h])
      BY <1>4
    <2> HIDE DEF Then
    <2>5. QED
      BY <2>3, <2>4 DEF Leaves, Returned
  <1>5. Leaves(Then(repeats), n)
    <2> HIDE DEF Then, fits, IsRun
    <2>1. QED
      BY <1>2, <1>4, StopsLeave
  <1>6. Leaves(outcome, n)
    <2> HIDE DEF Then
    <2>1. outcome \in {Then(repeats), Stopped("trap"), NotSet}
      BY <1>1, CheckedEnds
    <2>2. QED
      BY <1>5, <2>1, StopsLeave
  <1>7. ASSUME IsPart(position, sourceSize, size, octets), IsWhole(sourceOctets, sourceSize)
        PROVE  /\ outcome.how = "returned"
               /\ AreCopied(outcome.value, h, position, size, sourceSize, sourceOctets, octets, same)
    <2>1. fits
      BY <1>7, PartFits
    <2>2. PICK g : IsRun(g, repeats)
      <3> HIDE DEF fits, IsRun
      <3>1. QED
        BY <1>2, <2>1
    <2>3. outcome = Returned(g[h])
      <3> HIDE DEF Then
      <3>1. outcome = Then(repeats)
        BY <1>1, <1>7, PartIsChecked
      <3>2. QED
        BY <2>2, <3>1
    <2>4. h \in Nat
      BY <2>1 DEF RowsFit
    <2> DEFINE T == {y \in 0 .. h : AreCopied(g[y], y, position, size, sourceSize, sourceOctets, octets, same)}
    <2>5. 0 \in T
      <3>1. g[0] = octets
        BY <2>2 DEF IsCopy
      <3>2. position.y + 0 = position.y
        OBVIOUS
      <3>3. \A x \in 0 .. size.width - 1, y \in 0 .. size.height - 1 :
              ~(InArea(x, y, position, sourceSize) /\ y < position.y + 0)
        BY <3>2 DEF InArea
      <3>4. AreCopied(g[0], 0, position, size, sourceSize, sourceOctets, octets, same)
        BY <3>1, <3>3 DEF AreCopied
      <3>5. QED
        BY <2>4, <3>4
    <2>6. \A i \in 0 .. h - 1 : i \in T => i + 1 \in T
      <3> TAKE i \in 0 .. h - 1
      <3> HAVE i \in T
      <3>1. i \in 0 .. h /\ i + 1 \in 0 .. h
        BY <2>4
      <3>2. g[i] \in [1 .. n -> Octets] /\ g[i + 1] = NextRow(g[i], sourceOctets, position, size, sourceSize, same, repeats, i)
        BY <2>2, <3>1 DEF IsCopy
      <3>3. AreCopied(g[i], i, position, size, sourceSize, sourceOctets, octets, same)
        OBVIOUS
      <3>4. AreCopied(g[i + 1], i + 1, position, size, sourceSize, sourceOctets, octets, same)
        BY <1>7, <3>2, <3>3, RowIsCopied
      <3>5. QED
        BY <3>1, <3>4
    <2>7. h \in T
      <3> HIDE DEF T, h
      <3>1. \A i \in 0 .. h : i \in T
        BY <2>4, <2>5, <2>6, SetInduction
      <3>2. QED
        BY <2>4, <3>1
    <2>8. QED
      BY <2>3, <2>7 DEF Returned
  <1>8. ASSUME IsPart(position, sourceSize, size, octets), NEW x \in 0 .. size.width - 1,
       NEW y \in 0 .. size.height - 1
        PROVE  InArea(x, y, position, sourceSize) => y < position.y + h
    BY DEF InArea
  <1> HIDE DEF h
  <1>9. QED
    BY <1>6, <1>7, <1>8 DEF AreCopied, CopyIs

-----------------------------------------------------------------------------
(* Blobs of a state.                                                        *)

\* Every blob has octets, no more than there is room for.
Blobs == {octets \in Seq(Octets) : Len(octets) <= Capacity}
BlobsAreOctets == blobs \in Seq(Blobs)

\* What the inputs of the functions of blobs are.
LEMMA BlobInputs ==
  /\ \A position \in Positions : position.x \in Int /\ position.y \in Int
  /\ \A size \in Dimensions \cup Sizes :
       /\ size.width \in Integers32 /\ size.height \in Integers32
       /\ size.width \in Int /\ size.height \in Int
  /\ FillValues \subseteq Int /\ Ints \subseteq Int
  <1>1. Integers32 \subseteq Int
    BY HalfAssumption DEF Integers32
  <1>2. QED
    BY <1>1, InputsAssumption

\* Blobs are blobs.
LEMMA BlobsAre ==
  ASSUME BlobsAreOctets
  PROVE  /\ Len(blobs) \in Nat /\ DOMAIN blobs = 1 .. Len(blobs)
         /\ \A b \in DOMAIN blobs : IsBlob(blobs[b])
  BY DEF BlobsAreOctets, Blobs, IsBlob

\* A function that makes a blob adds one.
LEMMA MakesKeeps ==
  ASSUME BlobsAreOctets, NEW name, NEW args, NEW outcomes, Makes(name, args, outcomes),
         \A outcome \in outcomes : outcome.how = "returned" => IsBlob(outcome.value)
  PROVE  BlobsAreOctets'
  <1>1. PICK outcome \in outcomes : blobs' = IF IsReturned(outcome) THEN Append(blobs, outcome.value) ELSE blobs
    BY DEF Makes
  <1>2. CASE IsReturned(outcome)
    <2>1. outcome.value \in Blobs
      BY <1>2 DEF IsReturned, IsBlob, Blobs
    <2> DEFINE v == outcome.value
    <2> HIDE DEF v
    <2>2. blobs \in Seq(Blobs) /\ v \in Blobs
      BY <2>1 DEF v, BlobsAreOctets
    <2>3. Append(blobs, v) \in Seq(Blobs)
      BY <2>2, AppendProperties
    <2>4. QED
      BY <1>1, <1>2, <2>3 DEF v, BlobsAreOctets
  <1>3. CASE ~IsReturned(outcome)
    BY <1>1, <1>3 DEF BlobsAreOctets
  <1>4. QED
    BY <1>2, <1>3

\* A function that does not touch the blobs keeps them.
LEMMA SameBlobsKeep ==
  ASSUME BlobsAreOctets, UNCHANGED blobs PROVE BlobsAreOctets'
  BY DEF BlobsAreOctets

\* What PaintsTheArea says of an outcome.
IsPainted(name, args, outcome) ==
  LET was == args.was[args.target]
      Was(x, y) == Pixel(was, args.size.width, x, y)
      Now(x, y) == Pixel(outcome.value, args.size.width, x, y)
      Source(x, y) == Pixel(args.was[args.source], args.part.width, x - args.position.x, y - args.position.y)
      sourceIsWhole == name = "Blob.copy2d!" => IsWhole(args.was[args.source], args.part)
  IN  /\ Leaves(outcome, Len(was))
      /\ IsWhole(was, args.size) /\ LiesIn(args.position, args.part, args.size) /\ sourceIsWhole =>
           /\ outcome.how = "returned"
           /\ \A x \in 0 .. args.size.width - 1, y \in 0 .. args.size.height - 1 :
                IF ~InArea(x, y, args.position, args.part) THEN Now(x, y) = Was(x, y)
                ELSE CASE name = "Blob.fill2d!" -> Now(x, y) = args.value % OctetLimit
                       [] name = "Blob.drawWindow2d!" ->
                            IF OnFrame(x, y, args.position, args.part) THEN Now(x, y) \in {Plus, Minus, Bar}
                            ELSE Now(x, y) = Was(x, y)
                       [] OTHER -> args.source # args.target => Now(x, y) = Source(x, y)
      /\ errorTraps /\ outcome.how = "fault" =>
           \/ ~IsWhole(was, args.size) \/ ~sourceIsWhole
           \/ args.part.width < 1 \/ args.part.height < 1
           \/ ~Fits(args.position.x + args.part.width) \/ ~Fits(args.position.y + args.part.height)

\* A function that paints one keeps the others.
LEMMA PaintsKeep ==
  ASSUME BlobsAreOctets, NEW name, NEW args, NEW outcomes, Paints(name, args, outcomes),
         args.was = blobs, args.target \in DOMAIN blobs,
         \A outcome \in outcomes : IsPainted(name, args, outcome)
  PROVE  PaintsTheArea' /\ BlobsAreOctets'
  <1> DEFINE b == args.target
             was == blobs[b]
  <1>1. PICK outcome \in outcomes :
          /\ last' = [name |-> name, args |-> args, outcome |-> outcome]
          /\ errorTraps' = errorTraps
          /\ blobs' = IF IsReturned(outcome) THEN [blobs EXCEPT ![b] = outcome.value] ELSE blobs
    BY DEF Paints, Ends
  <1>2. IsPainted(name, args, outcome)
    OBVIOUS
  <1>3. /\ Len(blobs) \in Nat /\ DOMAIN blobs = 1 .. Len(blobs) /\ IsBlob(was) /\ blobs \in Seq(Blobs)
    BY BlobsAre DEF BlobsAreOctets
  <1>4. outcome.how = "returned" => IsBlob(outcome.value) /\ Len(outcome.value) = Len(was)
    BY <1>2 DEF IsPainted, Leaves
  <1> DEFINE now == blobs'[b]
  <1>5. /\ blobs' \in Seq(Blobs) /\ Len(blobs') = Len(blobs) /\ DOMAIN blobs' = DOMAIN blobs
        /\ \A c \in DOMAIN blobs \ {b} : blobs'[c] = blobs[c]
        /\ now = IF outcome.how = "returned" THEN outcome.value ELSE was
    <2>1. CASE outcome.how = "returned"
      <3> DEFINE v == outcome.value
      <3>1. v \in Blobs
        BY <1>4, <2>1 DEF IsBlob, Blobs
      <3>2. blobs' = [blobs EXCEPT ![b] = v]
        BY <1>1, <2>1 DEF IsReturned
      <3> HIDE DEF v
      <3>3. blobs' \in Seq(Blobs) /\ Len(blobs') = Len(blobs)
        BY <1>3, <3>1, <3>2
      <3>4. QED
        BY <2>1, <3>2, <3>3 DEF v
    <2>2. CASE outcome.how # "returned"
      BY <1>1, <1>3, <2>2 DEF IsReturned
    <2>3. QED
      BY <2>1, <2>2
  <1>6. IsBlob(now) /\ Len(now) = Len(was)
    BY <1>3, <1>4, <1>5
  <1>7. Range(now) \subseteq 0 .. OctetLimit - 1
    <2> HIDE DEF now
    <2>1. DOMAIN now = 1 .. Len(now) /\ \A k \in 1 .. Len(now) : now[k] \in Octets
      BY <1>6, BlobIsShort
    <2>2. QED
      BY <2>1 DEF Range, Octets
  <1>8. last'.name = name /\ Args' = args /\ How' = outcome.how
    BY <1>1 DEF Args, How
  <1> HIDE DEF now
  <1>9. PaintsTheArea'
    <2>1. SUFFICES ASSUME Called(Painting)'
                   PROVE  /\ Len(blobs') = Len(args.was) /\ Len(now) = Len(was) /\ Range(now) \subseteq 0 .. OctetLimit - 1
                          /\ \A c \in DOMAIN blobs' \ {b} : blobs'[c] = args.was[c]
                          /\ outcome.how # "returned" => now = was
      BY <1>1, <1>2, <1>5, <1>8 DEF PaintsTheArea, IsPainted, now
    <2>2. QED
      BY <1>3, <1>5, <1>6, <1>7
  <1>10. BlobsAreOctets'
    BY <1>5 DEF BlobsAreOctets
  <1>11. QED
    BY <1>9, <1>10

-----------------------------------------------------------------------------
(* The calls.                                                               *)

\* What PaintsTheArea takes for inside passes the check of the code.
LEMMA LiesInIsPart ==
  ASSUME NEW position, NEW part, NEW size, NEW octets, IsBlob(octets), IsWhole(octets, size),
         position.x \in Int, position.y \in Int, part.width \in Int, part.height \in Int,
         size.width \in Integers32, size.height \in Integers32, LiesIn(position, part, size)
  PROVE  IsPart(position, part, size, octets)
  <1>1. position.x >= 0 /\ position.y >= 0 /\ part.width > 0 /\ part.height > 0
    BY DEF LiesIn
  <1>2. QED
    BY <1>1 DEF LiesIn, IsPart, Covers

\* Blob.fill2d!.
LEMMA FillSteps ==
  ASSUME BlobsAreOctets, CallFill2d PROVE PaintsTheArea' /\ BlobsAreOctets'
  <1>1. PICK b \in DOMAIN blobs, position \in Positions, size \in Dimensions, part \in Sizes,
       value \in FillValues :
          Paints("Blob.fill2d!",
                 [target |-> b, was |-> blobs, position |-> position, size |-> size, part |-> part,
                      value |-> value],
                 {BlobFill2d(errorTraps, position, size, value, part, blobs[b])})
    BY DEF CallFill2d
  <1> DEFINE args == [target |-> b, was |-> blobs, position |-> position, size |-> size, part |-> part,
       value |-> value]
             was == blobs[b]
             outcome == BlobFill2d(errorTraps, position, size, value, part, was)
  <1>2. /\ position.x \in Int /\ position.y \in Int /\ size.width \in Integers32 /\ size.height \in Integers32
        /\ part.width \in Int /\ part.height \in Int /\ value \in Int /\ IsBlob(was)
    BY BlobInputs, BlobsAre
  <1>3. /\ Leaves(outcome, Len(was))
        /\ IsPart(position, part, size, was) =>
             /\ outcome.how = "returned"
             /\ \A x \in 0 .. size.width - 1, y \in 0 .. size.height - 1 :
                  Pixel(outcome.value, size.width, x, y)
                    = IF InArea(x, y, position, part) THEN value % OctetLimit
                      ELSE Pixel(was, size.width, x, y)
    <2> HIDE DEF was
    <2>1. QED
      BY <1>2, FillIsRight
  <1>4. IsWhole(was, size) /\ LiesIn(position, part, size) => IsPart(position, part, size, was)
    <2> HIDE DEF was
    <2>1. QED
      BY <1>2, LiesInIsPart
  <1>5. errorTraps /\ outcome.how = "fault" =>
           \/ ~IsWhole(was, size)
           \/ part.width < 1 \/ part.height < 1
           \/ ~Fits(position.x + part.width) \/ ~Fits(position.y + part.height)
    <2> HIDE DEF was
    <2> SUFFICES ASSUME errorTraps, outcome.how = "fault", IsWhole(was, size), ~(part.width < 1),
         ~(part.height < 1),
                        Fits(position.x + part.width), Fits(position.y + part.height)
                 PROVE  FALSE
      OBVIOUS
    <2>1. Checked(errorTraps, position, part, size, was, Filled(position, size, value, part, was)).how = "fault"
      BY DEF BlobFill2d
    <2>2. part.width >= 1 /\ part.height >= 1
      BY <1>2
    <2>3. IsPart(position, part, size, was)
      BY <1>2, <2>1, <2>2, FaultIsOfPart
    <2> HIDE DEF outcome
    <2>4. QED
      BY <1>3, <2>3
  <1> HIDE DEF outcome
  <1>6. IsPainted("Blob.fill2d!", args, outcome)
    BY <1>3, <1>4, <1>5 DEF IsPainted
  <1>7. QED
    <2>1. args.was = blobs /\ args.target \in DOMAIN blobs
      OBVIOUS
    <2>2. Paints("Blob.fill2d!", args, {outcome})
      BY <1>1 DEF outcome
    <2> HIDE DEF args
    <2>3. QED
      BY <1>6, <2>1, <2>2, PaintsKeep

\* Blob.drawWindow2d!.
LEMMA DrawSteps ==
  ASSUME BlobsAreOctets, CallDrawWindow2d PROVE PaintsTheArea' /\ BlobsAreOctets'
  <1>1. PICK b \in DOMAIN blobs, position \in Positions, size \in Dimensions, part \in Sizes :
          Paints("Blob.drawWindow2d!",
                 [target |-> b, was |-> blobs, position |-> position, size |-> size, part |-> part],
                 {BlobDrawWindow2d(errorTraps, position, size, part, blobs[b])})
    BY DEF CallDrawWindow2d
  <1> DEFINE args == [target |-> b, was |-> blobs, position |-> position, size |-> size, part |-> part]
             was == blobs[b]
             outcome == BlobDrawWindow2d(errorTraps, position, size, part, was)
  <1>2. /\ position.x \in Int /\ position.y \in Int /\ size.width \in Integers32 /\ size.height \in Integers32
        /\ part.width \in Int /\ part.height \in Int /\ IsBlob(was)
    BY BlobInputs, BlobsAre
  <1>3. /\ Leaves(outcome, Len(was))
        /\ IsPart(position, part, size, was) =>
             /\ outcome.how = "returned"
             /\ \A x \in 0 .. size.width - 1, y \in 0 .. size.height - 1 :
                  IF OnFrame(x, y, position, part)
                  THEN Pixel(outcome.value, size.width, x, y) \in {Plus, Minus, Bar}
                  ELSE Pixel(outcome.value, size.width, x, y) = Pixel(was, size.width, x, y)
    <2> HIDE DEF was
    <2>1. QED
      BY <1>2, FrameIsRight
  <1>4. IsWhole(was, size) /\ LiesIn(position, part, size) => IsPart(position, part, size, was)
    <2> HIDE DEF was
    <2>1. QED
      BY <1>2, LiesInIsPart
  <1>5. errorTraps /\ outcome.how = "fault" =>
           \/ ~IsWhole(was, size)
           \/ part.width < 1 \/ part.height < 1
           \/ ~Fits(position.x + part.width) \/ ~Fits(position.y + part.height)
    <2> HIDE DEF was
    <2> SUFFICES ASSUME errorTraps, outcome.how = "fault", IsWhole(was, size), ~(part.width < 1),
         ~(part.height < 1),
                        Fits(position.x + part.width), Fits(position.y + part.height)
                 PROVE  FALSE
      OBVIOUS
    <2>1. Checked(errorTraps, position, part, size, was, Framed(position, size, part, was)).how = "fault"
      BY DEF BlobDrawWindow2d
    <2>2. part.width >= 1 /\ part.height >= 1
      BY <1>2
    <2>3. IsPart(position, part, size, was)
      BY <1>2, <2>1, <2>2, FaultIsOfPart
    <2> HIDE DEF outcome
    <2>4. QED
      BY <1>3, <2>3
  <1>6. \A x, y : OnFrame(x, y, position, part) => InArea(x, y, position, part)
    BY DEF OnFrame
  <1> HIDE DEF outcome
  <1>7. IsPainted("Blob.drawWindow2d!", args, outcome)
    BY <1>3, <1>4, <1>5, <1>6 DEF IsPainted
  <1>8. QED
    <2>1. args.was = blobs /\ args.target \in DOMAIN blobs
      OBVIOUS
    <2>2. Paints("Blob.drawWindow2d!", args, {outcome})
      BY <1>1 DEF outcome
    <2> HIDE DEF args
    <2>3. QED
      BY <1>7, <2>1, <2>2, PaintsKeep

\* Blob.copy2d!.
LEMMA CopySteps ==
  ASSUME BlobsAreOctets, CallCopy2d PROVE PaintsTheArea' /\ BlobsAreOctets'
  <1>1. PICK b \in DOMAIN blobs, source \in DOMAIN blobs, position \in Positions, size \in Dimensions,
       part \in Sizes :
          Paints("Blob.copy2d!",
                 [target |-> b, was |-> blobs, position |-> position, size |-> size, part |-> part,
                      source |-> source],
                 BlobCopy2d(errorTraps, position, size, part, blobs[source], blobs[b], source = b))
    BY DEF CallCopy2d
  <1> DEFINE args == [target |-> b, was |-> blobs, position |-> position, size |-> size, part |-> part,
       source |-> source]
             was == blobs[b]
             from == blobs[source]
             same == source = b
             outcomes == BlobCopy2d(errorTraps, position, size, part, from, was, same)
  <1>2. /\ position.x \in Int /\ position.y \in Int /\ size.width \in Integers32 /\ size.height \in Integers32
        /\ size.width \in Int /\ part.width \in Int /\ part.height \in Int /\ IsBlob(was) /\ IsBlob(from)
        /\ same \in BOOLEAN /\ (same => from = was)
    BY BlobInputs, BlobsAre
  <1> SUFFICES ASSUME NEW outcome \in outcomes PROVE IsPainted("Blob.copy2d!", args, outcome)
    <2>1. args.was = blobs /\ args.target \in DOMAIN blobs
      OBVIOUS
    <2>2. Paints("Blob.copy2d!", args, outcomes)
      BY <1>1
    <2>3. (\A outcome \in outcomes : IsPainted("Blob.copy2d!", args, outcome)) => PaintsTheArea' /\ BlobsAreOctets'
      <3> HIDE DEF args, outcomes
      <3>1. QED
        BY <2>1, <2>2, PaintsKeep
    <2>4. QED
      BY <2>3
  <1>3. /\ Leaves(outcome, Len(was))
        /\ IsPart(position, part, size, was) /\ IsWhole(from, part) =>
             /\ outcome.how = "returned"
             /\ \A x \in 0 .. size.width - 1, y \in 0 .. size.height - 1 :
                  IF InArea(x, y, position, part)
                  THEN ~same => Pixel(outcome.value, size.width, x, y)
                                  = Pixel(from, part.width, x - position.x, y - position.y)
                  ELSE Pixel(outcome.value, size.width, x, y) = Pixel(was, size.width, x, y)
    <2>1. outcome \in BlobCopy2d(errorTraps, position, size, part, from, was, same)
      OBVIOUS
    <2> HIDE DEF was, from, same, outcomes
    <2>2. CopyIs(outcome, position, size, part, from, was, same)
      BY <1>2, <2>1, CopyIsRight
    <2>3. QED
      BY <2>2 DEF CopyIs
  <1>4. IsWhole(was, size) /\ LiesIn(position, part, size) => IsPart(position, part, size, was)
    <2> HIDE DEF was
    <2>1. QED
      BY <1>2, LiesInIsPart
  <1>5. errorTraps /\ outcome.how = "fault" =>
           \/ ~IsWhole(was, size) \/ ~IsWhole(from, part)
           \/ part.width < 1 \/ part.height < 1
           \/ ~Fits(position.x + part.width) \/ ~Fits(position.y + part.height)
    <2>1. PICK then : outcome = Checked(errorTraps, position, part, size, was, then)
      BY DEF BlobCopy2d
    <2> HIDE DEF was, from, same, outcomes
    <2> SUFFICES ASSUME errorTraps, outcome.how = "fault", IsWhole(was, size), IsWhole(from, part),
                        ~(part.width < 1), ~(part.height < 1),
                        Fits(position.x + part.width), Fits(position.y + part.height)
                 PROVE  FALSE
      OBVIOUS
    <2>2. part.width >= 1 /\ part.height >= 1
      BY <1>2
    <2>3. IsPart(position, part, size, was)
      BY <1>2, <2>1, <2>2, FaultIsOfPart
    <2>4. QED
      BY <1>3, <2>3
  <1> HIDE DEF outcomes
  <1>6. QED
    BY <1>3, <1>4, <1>5 DEF IsPainted

\* Blob.make.
LEMMA MakeSteps ==
  ASSUME BlobsAreOctets, CallMake PROVE BlobsAreOctets' /\ last'.name = "Blob.make"
  <1>1. PICK count \in Ints : Makes("Blob.make", [count |-> count], BlobMake(errorTraps, count))
    BY DEF CallMake
  <1>2. count \in Int
    BY BlobInputs
  <1>3. last'.name = "Blob.make"
    BY <1>1 DEF Makes, Ends
  <1>4. \A outcome \in BlobMake(errorTraps, count) : outcome.how = "returned" => IsBlob(outcome.value)
    BY <1>2, MakeIsBlob
  <1>5. QED
    BY <1>1, <1>3, <1>4, MakesKeeps

\* Blob.fromArray and Blob.fromList.
LEMMA FromSteps ==
  ASSUME BlobsAreOctets, CallBlobFrom
  PROVE  BlobsReadBack' /\ BlobsAreOctets' /\ last'.name \in {"Blob.fromArray", "Blob.fromList"}
  <1>1. PICK name \in {"Blob.fromArray", "Blob.fromList"}, list \in Lists, sized \in BOOLEAN :
          Makes(name, [list |-> list, sized |-> sized], BlobFrom(errorTraps, list, sized))
    BY DEF CallBlobFrom
  <1>2. list \in Seq(Int)
    <2>1. list \in Seq(Words) /\ Words \subseteq Int
      BY InputsAssumption
    <2>2. Len(list) \in Nat /\ DOMAIN list = 1 .. Len(list) /\ \A i \in 1 .. Len(list) : list[i] \in Int
      <3>1. Len(list) \in Nat /\ DOMAIN list = 1 .. Len(list)
        BY <2>1
      <3>2. \A i \in 1 .. Len(list) : list[i] \in Words
        BY <2>1
      <3>3. QED
        BY <2>1, <3>1, <3>2
    <2>3. list = [i \in 1 .. Len(list) |-> list[i]]
      BY <2>1
    <2> DEFINE n == Len(list)
    <2> HIDE DEF n
    <2>4. [i \in 1 .. n |-> list[i]] \in Seq(Int)
      BY <2>2 DEF n
    <2>5. QED
      BY <2>3, <2>4 DEF n
  <1>3. \A outcome \in BlobFrom(errorTraps, list, sized) :
          outcome.how = "returned" =>
            /\ IsBlob(outcome.value) /\ Len(outcome.value) = Len(list)
            /\ \A i \in DOMAIN outcome.value : (outcome.value[i] - list[i]) % OctetLimit = 0
    BY <1>2, FromIsRight
  <1>4. BlobsAreOctets'
    BY <1>1, <1>3, MakesKeeps
  <1>5. PICK outcome \in BlobFrom(errorTraps, list, sized) :
          last' = [name |-> name, args |-> [list |-> list, sized |-> sized], outcome |-> outcome]
    BY <1>1 DEF Makes, Ends
  <1>6. last'.name = name /\ Args'.list = list /\ How' = outcome.how /\ Value' = outcome.value
    BY <1>5 DEF Args, How, Value
  <1>7. BlobsReadBack'
    BY <1>3, <1>6 DEF BlobsReadBack, Returns, Called
  <1>8. QED
    BY <1>4, <1>6, <1>7

\* Blob.slice2d.
LEMMA SliceSteps ==
  ASSUME BlobsAreOctets, CallSlice2d PROVE BlobsReadBack' /\ BlobsAreOctets' /\ last'.name = "Blob.slice2d"
  <1>1. PICK b \in DOMAIN blobs, pos \in Positions, blobSize \in Dimensions, size \in Sizes :
          Makes("Blob.slice2d", [blob |-> blobs[b], pos |-> pos, blobSize |-> blobSize, size |-> size],
                BlobSlice2d(errorTraps, pos, blobSize, size, blobs[b]))
    BY DEF CallSlice2d
  <1> DEFINE octets == blobs[b]
             outcomes == BlobSlice2d(errorTraps, pos, blobSize, size, octets)
  <1>2. /\ pos.x \in Int /\ pos.y \in Int /\ blobSize.width \in Integers32 /\ blobSize.height \in Integers32
        /\ blobSize.width \in Int /\ blobSize.height \in Int
        /\ size.width \in Int /\ size.height \in Int /\ IsBlob(octets)
    BY BlobInputs, BlobsAre
  <1>3. \A outcome \in outcomes : outcome.how = "returned" => IsBlob(outcome.value)
    <2> HIDE DEF octets
    <2>1. QED
      BY <1>2, SliceIsBlob
  <1>4. BlobsAreOctets'
    <2> HIDE DEF outcomes
    <2>1. QED
      BY <1>1, <1>3, MakesKeeps DEF outcomes
  <1>5. PICK outcome \in outcomes :
          /\ last' = [name |-> "Blob.slice2d",
                      args |-> [blob |-> octets, pos |-> pos, blobSize |-> blobSize, size |-> size],
                           outcome |-> outcome]
          /\ errorTraps' = errorTraps
    BY <1>1 DEF Makes, Ends
  <1>6. /\ last'.name = "Blob.slice2d" /\ How' = outcome.how /\ Value' = outcome.value
        /\ Args'.blob = octets /\ Args'.pos = pos /\ Args'.blobSize = blobSize /\ Args'.size = size
    BY <1>5 DEF Args, How, Value
  <1> HIDE DEF octets
  <1>7. ASSUME IsWhole(octets, blobSize), LiesIn(pos, size, blobSize)
        PROVE  /\ outcome.how = "returned" /\ IsWhole(outcome.value, size)
               /\ \A x \in 0 .. size.width - 1, y \in 0 .. size.height - 1 :
                    Pixel(outcome.value, size.width, x, y) = Pixel(octets, blobSize.width, pos.x + x, pos.y + y)
    <2>1. Covers(pos, size, blobSize, octets) /\ size.width > 0 /\ size.height >= 0
      BY <1>2, <1>7, LiesInIsPart DEF IsPart
    <2>2. /\ outcome.how = "returned" /\ Len(outcome.value) = size.width * size.height
          /\ \A x \in 0 .. size.width - 1, y \in 0 .. size.height - 1 :
               Pixel(outcome.value, size.width, x, y) = Pixel(octets, blobSize.width, pos.x + x, pos.y + y)
      BY <2>1, SliceIsRight
    <2>3. QED
      BY <2>1, <2>2 DEF IsWhole
  <1>8. ASSUME IsWhole(octets, blobSize), errorTraps, outcome.how = "fault",
               size.width >= 0, size.height >= 0, Fits(pos.x + size.width), Fits(pos.y + size.height)
        PROVE  FALSE
    <2>1. blobSize.width \in Nat \ {0} /\ blobSize.height \in Nat
          /\ Len(octets) = blobSize.width * blobSize.height
      BY <1>2, <1>8 DEF IsWhole
    <2>2. ~SliceIsWrong(pos, size, blobSize, octets)
      <3>1. outcome # Stopped("trap")
        BY <1>8 DEF Stopped
      <3> SUFFICES ASSUME SliceIsWrong(pos, size, blobSize, octets) PROVE FALSE
        OBVIOUS
      <3>2. outcomes = {Stopped("trap")}
        BY <1>8, <2>1 DEF BlobSlice2d
      <3>3. QED
        BY <3>1, <3>2
    <2>3. /\ pos.x >= 0 /\ pos.y >= 0 /\ ~(Int32(pos.x + size.width) > blobSize.width)
      BY <1>2, <2>2 DEF SliceIsWrong
    <2>4. Int32(pos.x + size.width) = pos.x + size.width /\ Int32(pos.y + size.height) = pos.y + size.height
      <3>1. pos.x + size.width \in Int /\ pos.y + size.height \in Int
        BY <1>2
      <3>2. QED
        BY <1>8, <3>1, Int32Fits
    <2>5. ~(Int32(pos.y + size.height) > blobSize.height)
      <3> DEFINE height == IF blobSize.width < 0 THEN 0 ELSE Count(octets) \div blobSize.width
      <3>1. ~(height # blobSize.height) /\ ~(Int32(pos.y + size.height) > height)
        BY <2>2 DEF SliceIsWrong
      <3> HIDE DEF height
      <3>2. QED
        BY <3>1
    <2>6. Covers(pos, size, blobSize, octets)
      BY <1>2, <1>8, <2>1, <2>3, <2>4, <2>5 DEF Covers
    <2>7. outcome.how = "returned"
      BY <2>6, SliceIsRight
    <2>8. QED
      BY <1>8, <2>7
  <1>9. BlobsReadBack'
    <2> HIDE DEF outcomes
    <2>1. IsWhole(octets, blobSize) /\ errorTraps /\ outcome.how = "fault" =>
            \/ size.width < 0 \/ size.height < 0
            \/ ~Fits(pos.x + size.width) \/ ~Fits(pos.y + size.height)
      BY <1>2, <1>8
    <2>2. QED
      BY <1>5, <1>6, <1>7, <2>1 DEF BlobsReadBack, Returns, Called
  <1>10. QED
    BY <1>4, <1>6, <1>9

\* A function that reads a blob.
LEMMA ReadsKeep ==
  ASSUME BlobsAreOctets, NEW name, NEW args, NEW outcomes, Reads(name, args, outcomes)
  PROVE  /\ BlobsAreOctets' /\ last'.name = name
         /\ \E outcome \in outcomes : last' = [name |-> name, args |-> args, outcome |-> outcome]
  BY SameBlobsKeep DEF Reads, Ends

\* Blob.get2d.
LEMMA Get2dSteps ==
  ASSUME BlobsAreOctets, CallGet2d PROVE BlobsReadBack' /\ BlobsAreOctets' /\ last'.name = "Blob.get2d"
  <1>1. PICK b \in DOMAIN blobs, position \in Positions, size \in Dimensions :
          Reads("Blob.get2d", [blob |-> blobs[b], position |-> position, size |-> size],
                {BlobGet2d(position, size, blobs[b])})
    BY DEF CallGet2d
  <1> DEFINE octets == blobs[b]
  <1>2. /\ position.x \in Int /\ position.y \in Int /\ size.width \in Int /\ size.height \in Int /\ IsBlob(octets)
    BY BlobInputs, BlobsAre
  <1>3. /\ BlobsAreOctets'
        /\ last' = [name |-> "Blob.get2d", args |-> [blob |-> octets, position |-> position, size |-> size],
                    outcome |-> BlobGet2d(position, size, octets)]
    BY <1>1, ReadsKeep
  <1> HIDE DEF octets
  <1>4. /\ last'.name = "Blob.get2d" /\ Value' = BlobGet2d(position, size, octets).value
        /\ Args'.blob = octets /\ Args'.position = position /\ Args'.size = size
    BY <1>3 DEF Args, Value
  <1>5. IsWhole(octets, size) =>
          Value' = IF LiesIn(position, [width |-> 1, height |-> 1], size)
                   THEN Just(Pixel(octets, size.width, position.x, position.y)) ELSE Nothing
    BY <1>2, <1>4, Get2dIsRight DEF Returned
  <1>6. BlobsReadBack'
    BY <1>4, <1>5 DEF BlobsReadBack, Returns, Called
  <1>7. QED
    BY <1>3, <1>4, <1>6

\* Blob.member.
LEMMA BlobMemberSteps ==
  ASSUME BlobsAreOctets, CallBlobMember PROVE BlobsReadBack' /\ BlobsAreOctets' /\ last'.name = "Blob.member"
  <1>1. PICK b \in DOMAIN blobs, rune \in Ints :
          Reads("Blob.member", [blob |-> blobs[b], rune |-> rune], {BlobMember(rune, blobs[b])})
    BY DEF CallBlobMember
  <1> DEFINE octets == blobs[b]
  <1>2. IsBlob(octets)
    BY BlobsAre
  <1>3. /\ BlobsAreOctets'
        /\ last' = [name |-> "Blob.member", args |-> [blob |-> octets, rune |-> rune], outcome |-> BlobMember(rune, octets)]
    BY <1>1, ReadsKeep
  <1> HIDE DEF octets
  <1>4. /\ last'.name = "Blob.member" /\ Value' = BlobMember(rune, octets).value
        /\ Args'.blob = octets /\ Args'.rune = rune
    BY <1>3 DEF Args, Value
  <1>5. Value' = (Args'.rune % OctetLimit \in Range(Args'.blob))
    BY <1>2, <1>4, MemberOfBlob
  <1>6. BlobsReadBack'
    BY <1>4, <1>5 DEF BlobsReadBack, Returns, Called
  <1>7. QED
    BY <1>3, <1>4, <1>6

\* Blob.toString2d.
LEMMA ToString2dSteps ==
  ASSUME BlobsAreOctets, CallToString2d
  PROVE  BlobsReadBack' /\ BlobsAreOctets' /\ last'.name = "Blob.toString2d"
  <1>1. PICK b \in DOMAIN blobs, size \in Sizes :
          Reads("Blob.toString2d", [blob |-> blobs[b], size |-> size], BlobToString2d(errorTraps, size,
               blobs[b]))
    BY DEF CallToString2d
  <1> DEFINE octets == blobs[b]
  <1>2. IsBlob(octets) /\ size.width \in Int /\ size.height \in Int
    BY BlobInputs, BlobsAre
  <1>3. BlobsAreOctets'
    BY <1>1, ReadsKeep
  <1>4. PICK outcome \in BlobToString2d(errorTraps, size, octets) :
          last' = [name |-> "Blob.toString2d", args |-> [blob |-> octets, size |-> size], outcome |-> outcome]
    BY <1>1, ReadsKeep
  <1> HIDE DEF octets
  <1>5. /\ last'.name = "Blob.toString2d" /\ How' = outcome.how /\ Value' = outcome.value
        /\ Args'.blob = octets /\ Args'.size = size
    BY <1>4 DEF Args, How, Value
  <1>6. outcome.how = "returned" /\ IsWhole(octets, size) =>
          \A x \in 0 .. size.width - 1, y \in 0 .. size.height - 1 : IsShown(outcome, octets, size, x, y)
    <2> SUFFICES ASSUME outcome.how = "returned", IsWhole(octets, size),
                        NEW x \in 0 .. size.width - 1, NEW y \in 0 .. size.height - 1
                 PROVE  IsShown(outcome, octets, size, x, y)
      OBVIOUS
    <2>1. QED
      BY <1>2, ShownIsRight
  <1>7. BlobsReadBack'
    BY <1>5, <1>6 DEF BlobsReadBack, Returns, Called, IsShown
  <1>8. QED
    BY <1>3, <1>5, <1>7

-----------------------------------------------------------------------------
(* The property.                                                            *)

\* The first blobs are octets.
LEMMA FirstBlobsAreOctets ==
  ASSUME Init PROVE BlobsAreOctets
  <1>1. /\ blobs \in Seq(Seq(Octets)) /\ \A b \in DOMAIN blobs : Len(blobs[b]) <= Capacity
    BY InputsAssumption DEF Init
  <1> DEFINE n == Len(blobs)
             S == Seq(Octets)
  <1>2. n \in Nat /\ DOMAIN blobs = 1 .. n /\ \A b \in 1 .. n : blobs[b] \in S
    <2> HIDE DEF S
    <2>1. blobs \in Seq(S)
      BY <1>1 DEF S
    <2>2. QED
      BY <2>1
  <1>3. \A b \in 1 .. n : blobs[b] \in Blobs
    BY <1>1, <1>2 DEF Blobs
  <1>4. blobs = [b \in 1 .. n |-> blobs[b]]
    BY <1>1
  <1>5. [b \in 1 .. n |-> blobs[b]] \in Seq(Blobs)
    <2> HIDE DEF n
    <2>1. QED
      BY <1>2, <1>3
  <1>6. QED
    BY <1>4, <1>5 DEF BlobsAreOctets

\* Each part is about a few calls; after any other it holds.
LEMMA PaintsElsewhere ==
  ASSUME last'.name \notin Painting PROVE PaintsTheArea'
  BY DEF PaintsTheArea, Called

LEMMA ReadBackElsewhere ==
  ASSUME last'.name \notin {"Blob.get2d", "Blob.slice2d", "Blob.toString2d", "Blob.member", "Blob.fromList",
       "Blob.fromArray"}
  PROVE  BlobsReadBack'
  BY DEF BlobsReadBack, Called, Returns

\* A step that changes nothing.
LEMMA BlobsStay ==
  ASSUME UNCHANGED vars, BlobsMatch, BlobsAreOctets PROVE BlobsMatch' /\ BlobsAreOctets'
  <1>1. last' = last /\ blobs' = blobs /\ calls' = calls /\ errorTraps' = errorTraps
    BY DEF vars
  <1>2. PaintsTheArea'
    BY <1>1 DEF BlobsMatch, PaintsTheArea, Called, Args, How
  <1>3. BlobsReadBack'
    BY <1>1 DEF BlobsMatch, BlobsReadBack, Called, Returns, Args, How, Value
  <1>4. QED
    BY <1>1, <1>2, <1>3, SameBlobsKeep DEF BlobsMatch

\* The functions of blobs.
LEMMA BlobsBlob ==
  ASSUME BlobsAreOctets, CallBlob PROVE BlobsMatch' /\ BlobsAreOctets'
  <1>1. CASE CallMake
    BY <1>1, MakeSteps, PaintsElsewhere, ReadBackElsewhere DEF Painting, BlobsMatch
  <1>2. CASE CallBlobFrom
    BY <1>2, FromSteps, PaintsElsewhere DEF Painting, BlobsMatch
  <1>3. CASE CallSlice2d
    BY <1>3, SliceSteps, PaintsElsewhere DEF Painting, BlobsMatch
  <1>4. CASE CallGet2d
    BY <1>4, Get2dSteps, PaintsElsewhere DEF Painting, BlobsMatch
  <1>5. CASE CallBlobMember
    BY <1>5, BlobMemberSteps, PaintsElsewhere DEF Painting, BlobsMatch
  <1>6. CASE CallToString2d
    BY <1>6, ToString2dSteps, PaintsElsewhere DEF Painting, BlobsMatch
  <1>7. CASE CallFill2d
    <2>1. last'.name = "Blob.fill2d!"
      BY <1>7 DEF CallFill2d, Paints, Ends
    <2>2. QED
      BY <1>7, <2>1, FillSteps, ReadBackElsewhere DEF BlobsMatch
  <1>8. CASE CallDrawWindow2d
    <2>1. last'.name = "Blob.drawWindow2d!"
      BY <1>8 DEF CallDrawWindow2d, Paints, Ends
    <2>2. QED
      BY <1>8, <2>1, DrawSteps, ReadBackElsewhere DEF BlobsMatch
  <1>9. CASE CallCopy2d
    <2>1. last'.name = "Blob.copy2d!"
      BY <1>9 DEF CallCopy2d, Paints, Ends
    <2>2. QED
      BY <1>9, <2>1, CopySteps, ReadBackElsewhere DEF BlobsMatch
  <1>10. QED
    BY <1>1, <1>2, <1>3, <1>4, <1>5, <1>6, <1>7, <1>8, <1>9 DEF CallBlob

\* The others do not touch them.
LEMMA OthersKeepBlobs ==
  ASSUME BlobsAreOctets, CallScalar \/ CallCollection \/ CallLookup \/ CallOpcode \/ CallLaysOut
  PROVE  BlobsAreOctets'
  <1>1. UNCHANGED blobs
    <2>1. CASE CallScalar
      BY <2>1 DEF CallScalar, CallRemainderBy, CallMod, CallAbs, CallSign, CallMid, CallClamp, CallLerp,
           CallMetronome, CallDrunk, CallRnd, CallSin, CallCos, CallATan, CallRound, CallToFixed,
                CallCharCode, Calls
    <2>2. CASE CallCollection
      BY <2>2 DEF CallCollection, CallHead, CallTail, CallIsEmpty, CallLength, CallMember, CallRange,
         CallRange0,
           CallFilterMap, CallSame, CallGet, CallGrab, CallSet, CallWithDefault, CallMaybe, Calls
    <2>3. CASE CallLookup
      BY <2>3 DEF CallLookup, CallSingleLine, CallBacktrace, CallVariables, CallLog, CallPanic, Calls
    <2>4. CASE CallOpcode
      BY <2>4 DEF CallOpcode, CallInt, CallNot, CallNegate, CallListCreate, CallListConj, CallListAppend,
           CallStringAppend, CallStringEqual, CallSetEnum, CallMemCopy, CallEnumCase, CallIntCase, Calls
    <2>5. CASE CallLaysOut
      BY <2>5 DEF CallLaysOut, Calls
    <2>6. QED
      BY <2>1, <2>2, <2>3, <2>4, <2>5
  <1>2. QED
    BY <1>1, SameBlobsKeep

\* Whatever is painted in a blob is painted inside the area, and what is read of it is what it holds,
\* for blobs and areas of every size: BlobsMatch, of blob.c.
THEOREM BlobsAreRight == Spec => []BlobsMatch
  <1> DEFINE IInv == BlobsMatch /\ BlobsAreOctets
  <1>1. Init => IInv
    <2> SUFFICES ASSUME Init PROVE IInv
      OBVIOUS
    <2>1. PaintsTheArea
      BY NoneAtFirst, Zenon DEF PaintsTheArea
    <2>2. BlobsReadBack
      BY NoneAtFirst, Zenon DEF BlobsReadBack, Returns
    <2>3. QED
      BY <2>1, <2>2, FirstBlobsAreOctets DEF BlobsMatch
  <1>2. IInv /\ [Next]_vars => IInv'
    <2> SUFFICES ASSUME IInv, [Next]_vars PROVE IInv'
      OBVIOUS
    <2>1. CASE CallScalar
      BY <2>1, ScalarCalled, PaintsElsewhere, ReadBackElsewhere, OthersKeepBlobs
         DEF ScalarNames, Painting, BlobsMatch
    <2>2. CASE CallCollection
      BY <2>2, CollectionCalled, PaintsElsewhere, ReadBackElsewhere, OthersKeepBlobs
         DEF CollectionNames, Painting, BlobsMatch
    <2>3. CASE CallOpcode
      BY <2>3, OpcodeCalled, PaintsElsewhere, ReadBackElsewhere, OthersKeepBlobs
         DEF OpcodeNames, Painting, BlobsMatch, IntOpcodes, Products, Comparisons
    <2>4. CASE CallLookup
      BY <2>4, LookupCalled, PaintsElsewhere, ReadBackElsewhere, OthersKeepBlobs
         DEF LookupNames, Painting, BlobsMatch
    <2>5. CASE CallLaysOut
      BY <2>5, LaysOutCalled, PaintsElsewhere, ReadBackElsewhere, OthersKeepBlobs
         DEF LaysOutNames, Painting, BlobsMatch
    <2>6. CASE CallBlob
      BY <2>6, BlobsBlob
    <2>7. CASE UNCHANGED vars
      BY <2>7, BlobsStay
    <2>8. QED
      BY <2>1, <2>2, <2>3, <2>4, <2>5, <2>6, <2>7 DEF Next
  <1>3. IInv => BlobsMatch
    OBVIOUS
  <1>4. QED
    BY <1>1, <1>2, <1>3, PTL DEF Spec
=============================================================================
