------------------------------ MODULE CoreBlob ------------------------------
(***************************************************************************)
(* The functions of lib/core/blob.c that run no function argument.  A blob *)
(* is a sequence of octets; those that work in two dimensions take the     *)
(* dimensions it has as an argument, row after row.  An octet's index      *)
(* counts from 0, and x and y count columns and rows from 0.               *)
(*                                                                         *)
(* Those with a "!" in their name write the blob they are given.  An       *)
(* access outside a blob is undefined: the process stops with a fault.     *)
(***************************************************************************)
EXTENDS Integers, Sequences, FiniteSets, Outcomes, Functions

OctetLimit == 256
FreshOctet == 253        \* what swampDynamicMemoryAlloc fills a block with
Plus == 43
Minus == 45
Bar == 124
Dot == 46
NewLine == 10

Count(octets) == Len(octets)
At(octets, index) == octets[index + 1]
Inside(octets, indices) == indices \subseteq 0 .. Count(octets) - 1

\* The octets after writes, a function from indices to octets.
Written(octets, writes) ==
  IF Inside(octets, DOMAIN writes)
  THEN Returned([k \in 1 .. Count(octets) |->
                   IF k - 1 \in DOMAIN writes THEN writes[k - 1] ELSE octets[k]])
  ELSE Stopped("fault")

\* A loop in size_t from first up to, not with, an int that wraps: it does not
\* end before it left every blob when the int is negative.
End(first, count) == Int32(first + count)
Endless(first, count) == End(first, count) < 0
Loop(first, count) == first .. End(first, count) - 1

(***************************************************************************)
(* Functions that make a blob or read one.                                 *)
(***************************************************************************)
BlobMake(traps, octetCount) ==
  Allocated(traps, octetCount, {Returned([k \in 1 .. octetCount |-> 0])})

\* Blob.fromArray and Blob.fromList.  An empty list may have items of size 0.
BlobFrom(traps, items, sized) ==
  IF ~sized /\ traps THEN {Stopped("trap")}
  ELSE Allocated(traps, Len(items), {Returned([i \in 1 .. Len(items) |-> items[i] % OctetLimit])})

BlobMember(rune, octets) ==
  Returned(\E k \in 1 .. Count(octets) : octets[k] = rune % OctetLimit)

\* Mutant of BlobGet2d: rows and columns are swapped.
BlobGet2dColumns(position, size, octets) ==
  LET index == Int32(position.x * size.height + position.y)
  IN  Returned(IF /\ 0 <= position.x /\ position.x < size.width
                  /\ 0 <= position.y /\ position.y < size.height
                  /\ Inside(octets, {index})
               THEN Just(At(octets, index)) ELSE Nothing)
BlobGet2d(position, size, octets) ==
  LET index == Int32(position.y * size.width + position.x)
  IN  Returned(IF /\ 0 <= position.x /\ position.x < size.width
                  /\ 0 <= position.y /\ position.y < size.height
                  /\ Inside(octets, {index})
               THEN Just(At(octets, index)) ELSE Nothing)

\* What slice2d checks, each with a CLOG_ERROR.  The divisions are unsigned: a
\* negative width is larger than any count.
SliceIsWrong(pos, size, blobSize, octets) ==
  LET width == blobSize.width
      height == IF width < 0 THEN 0 ELSE Count(octets) \div width
  IN  \/ Int32(pos.x + size.width) > width
      \/ IF width < 0 THEN Count(octets) # 0 ELSE Count(octets) % width # 0
      \/ height # blobSize.height
      \/ Int32(pos.y + size.height) > height
      \/ pos.x < 0
      \/ pos.y < 0

\* The rows of the slice.  From a negative y, converted to size_t, the loop goes
\* on only up to a side that is negative as well.
SliceRows(pos, size) ==
  IF pos.y < 0 /\ ~Endless(pos.y, size.height) THEN {} ELSE Loop(pos.y, size.height)

\* The rows, one behind the other.
Sliced(pos, size, width, octets) ==
  LET rows == SliceRows(pos, size)
      area == Int32(size.width * size.height)
      source == [k \in 0 .. (Cardinality(rows) * size.width) - 1 |->
                   (pos.y + (k \div size.width)) * width + pos.x + (k % size.width)]
  IN  IF ~Inside(octets, Range(source)) THEN Stopped("fault")
      ELSE Written([k \in 1 .. area |-> FreshOctet],
                   [k \in DOMAIN source |-> At(octets, source[k])])

\* The loop is endless, or copies rows of a negative size.
SliceIsWild(pos, size) ==
  \/ pos.y >= 0 /\ Endless(pos.y, size.height)
  \/ SliceRows(pos, size) # {} /\ size.width < 0

\* A width of 0 is divided by, after the check of the right side.
BlobSlice2d(traps, pos, blobSize, size, octets) ==
  IF blobSize.width = 0
  THEN {IF traps /\ Int32(pos.x + size.width) > 0 THEN Stopped("trap") ELSE Stopped("fault")}
  ELSE IF traps /\ SliceIsWrong(pos, size, blobSize, octets) THEN {Stopped("trap")}
  ELSE Allocated(traps, Int32(size.width * size.height),
                 {IF SliceIsWild(pos, size) THEN Stopped("fault")
                  ELSE Sliced(pos, size, blobSize.width, octets)})

\* Blob.toString2d.  The area may wrap, and two negative sides have a positive
\* one; a negative height is an endless loop, a negative width in it another.  The
\* size of the text is an int as well.
BlobToString2d(traps, size, octets) ==
  LET area == Int32(size.height * size.width)
      Shown(octet) == IF octet < 32 THEN Dot ELSE octet
  IN  CASE area < 0 \/ area > Count(octets) -> Text(traps, << >>)
        [] /\ area \in 0 .. Count(octets)
           /\ \/ size.height < 0 \/ size.height * size.width # area
              \/ size.height * (size.width + 1) + 2 >= Half -> {Stopped("fault")}
        [] OTHER ->
             Text(traps, [k \in 1 .. size.height * (size.width + 1) + 1 |->
                            LET column == (k - 1) % (size.width + 1)
                                row == (k - 1) \div (size.width + 1)
                            IN  IF size.height = 0 \/ column = 0 THEN NewLine
                                ELSE Shown(At(octets, row * size.width + column - 1))])

(***************************************************************************)
(* Functions that write the blob.                                          *)
(***************************************************************************)
IsPosition(position, size, octets) ==
  /\ 0 <= position.x /\ position.x < size.width
  /\ 0 <= position.y /\ position.y < size.height
  /\ Inside(octets, {Int32(position.y * size.width + position.x)})

\* A panic that does not return from the function.
Overhangs(position, part, size) ==
  \/ Int32(position.x + part.width) > size.width
  \/ Int32(position.y + part.height) > size.height

\* The two panics in front of every function that writes.
Checked(traps, position, part, size, octets, then) ==
  IF ~IsPosition(position, size, octets) THEN Panic(traps)
  ELSE IF Overhangs(position, part, size) THEN AfterError(traps, then)
  ELSE then

\* A memset of a negative size is one of almost everything.
Filled(position, size, fillValue, fillSize, octets) ==
  LET rows == Loop(position.y, fillSize.height)
      First(y) == Int32(position.y * size.width) + (y - position.y) * size.width + position.x
      indices == {First(y) + i : y \in rows, i \in 0 .. fillSize.width - 1}
      last == First(End(position.y, fillSize.height) - 1) + fillSize.width - 1
  IN  IF \/ Endless(position.y, fillSize.height)
         \/ rows # {} /\ fillSize.width < 0
         \/ rows # {} /\ fillSize.width > 0 /\ ~Inside(octets, {last})
      THEN Stopped("fault")
      ELSE Written(octets, [k \in indices |-> fillValue % OctetLimit])

BlobFill2d(traps, position, size, fillValue, fillSize, octets) ==
  Checked(traps, position, fillSize, size, octets,
          Filled(position, size, fillValue, fillSize, octets))

\* Corners, then the upper and lower and the left and right edge.
Framed(position, size, fillSize, octets) ==
  LET xs == {position.x, position.x + fillSize.width - 1}
      ys == {position.y, position.y + fillSize.height - 1}
      innerXs == Loop(position.x + 1, fillSize.width - 2)
      innerYs == Loop(position.y + 1, fillSize.height - 2)
      Indices(columns, rows) == {Int32(y * size.width) + x : x \in columns, y \in rows}
      corners == Indices(xs, ys)
      horizontal == Indices(innerXs, ys)
      vertical == Indices(xs, innerYs)
  IN  IF \/ Endless(position.x + 1, fillSize.width - 2)
         \/ Endless(position.y + 1, fillSize.height - 2)
         \/ ~Inside(octets, corners)
      THEN Stopped("fault")
      ELSE Written(octets, [k \in corners \cup horizontal \cup vertical |->
                              IF k \in vertical THEN Bar
                              ELSE IF k \in horizontal THEN Minus ELSE Plus])

BlobDrawWindow2d(traps, position, size, fillSize, octets) ==
  Checked(traps, position, fillSize, size, octets, Framed(position, size, fillSize, octets))

\* A row of a blob copied onto itself may overlap: what memcpy does then is
\* undefined, and it either moves the row or repeats the octets it overwrote.
CopiedRow(octets, source, from, to, width, repeats) ==
  LET distance == to - from
      Octet(i) == IF repeats /\ 0 < distance THEN At(source, from + (i % distance))
                  ELSE At(source, from + i)
  IN  [k \in 1 .. Count(octets) |->
         IF k - 1 \in to .. to + width - 1 THEN Octet(k - 1 - to) ELSE octets[k]]

\* One row after the other, onto `octets`.  If the two blobs are one, the rows
\* are read from what the rows before left.
Copied(position, size, sourceSize, sourceOctets, octets, same, repeats) ==
  LET width == sourceSize.width
      From(y) == y * width
      To(y) == (y + position.y) * size.width + position.x
      rows == 0 .. sourceSize.height - 1
      Outside(blob, First(_)) ==
        \E y \in rows : width > 0 /\ ~Inside(blob, First(y) .. First(y) + width - 1)
      after[y \in 0 .. sourceSize.height] ==
        IF y = 0 THEN octets
        ELSE CopiedRow(after[y - 1], IF same THEN after[y - 1] ELSE sourceOctets,
                       From(y - 1), To(y - 1), width, same /\ repeats)
  IN  IF \/ sourceSize.height < 0
         \/ rows # {} /\ width < 0
         \/ Outside(sourceOctets, From) \/ Outside(octets, To)
      THEN Stopped("fault")
      ELSE Returned(after[sourceSize.height])

BlobCopy2d(traps, position, size, sourceSize, sourceOctets, octets, same) ==
  {Checked(traps, position, sourceSize, size, octets,
           Copied(position, size, sourceSize, sourceOctets, octets, same, repeats))
     : repeats \in BOOLEAN}
=============================================================================
