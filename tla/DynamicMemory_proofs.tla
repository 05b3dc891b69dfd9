------------------------ MODULE DynamicMemory_proofs ------------------------
(* Proofs about the bump allocator, for an arena of any size, any requests   *)
(* and both kinds of build.  BumpInv is the inductive invariant: the blocks  *)
(* lie in the order they were handed out, all of them below the bump pointer,*)
(* and every later block starts at or behind that.                           *)
EXTENDS DynamicMemory, TLAPS

Bump ==
  /\ status = "running" => p <= MaxAllocatedSize
  /\ \A i \in 1 .. Len(blocks) : End(blocks[i]) <= p

BumpInv ==
  /\ TypeOK
  /\ Bump
  /\ BlocksDisjoint
  /\ BlocksAligned
  /\ ChecksPreventFault

-----------------------------------------------------------------------------
(* The padding never moves the bump pointer back, adds less than the align,  *)
(* and ends on a multiple of it (for the aligns the code allows).            *)
LEMMA AlignUpBounds ==
  ASSUME NEW pos \in Nat, NEW a \in Nat, a # 0
  PROVE  /\ AlignUp(pos, a) \in Nat
         /\ AlignUp(pos, a) >= pos
         /\ AlignUp(pos, a) < pos + a
  <1>1. pos % a \in 0 .. (a - 1)
    OBVIOUS
  <1>2. QED
    BY <1>1 DEF AlignUp

LEMMA AlignUpAligns ==
  ASSUME NEW pos \in Nat, NEW a \in Nat, LegalAlign(a)
  PROVE  (AlignUp(pos, a) % a) = 0
  <1>1. a \in {1, 2, 3, 4, 5, 6, 7, 8}
    BY DEF LegalAlign, MaxAlign
  <1>2. CASE a = 1 BY <1>2 DEF AlignUp
  <1>3. CASE a = 2 BY <1>3 DEF AlignUp
  <1>4. CASE a = 3 BY <1>4 DEF AlignUp
  <1>5. CASE a = 4 BY <1>5 DEF AlignUp
  <1>6. CASE a = 5 BY <1>6 DEF AlignUp
  <1>7. CASE a = 6 BY <1>7 DEF AlignUp
  <1>8. CASE a = 7 BY <1>8 DEF AlignUp
  <1>9. CASE a = 8 BY <1>9 DEF AlignUp
  <1>10. QED
    BY <1>1, <1>2, <1>3, <1>4, <1>5, <1>6, <1>7, <1>8, <1>9

(* A request is a natural number of octets, smaller than Word. *)
LEMMA TotalType ==
  ASSUME NEW r \in Requests
  PROVE  /\ Total(r) \in Nat
         /\ r.align \in Nat
  <1>1. /\ r.itemCount \in Nat
        /\ r.itemSize \in Nat
        /\ r.align \in Nat
    BY RequestsAssumption
  <1>2. Word \in Nat /\ Word > 0
    BY SizesAssumption DEF MaxAlign
  <1>3. \A c \in Nat : c % Word \in Nat
    BY <1>2
  <1>4. r.itemCount * r.itemSize \in Nat
    BY <1>1
  <1>5. QED
    BY <1>1, <1>3, <1>4 DEF Total

(* Below Word the sum of the overrun check is the sum of the numbers. *)
LEMMA SmallSumsDoNotWrap ==
  ASSUME NEW n \in Nat, n < Word
  PROVE  n % Word = n
  BY SizesAssumption

(* A request that passes the checks of a build where CLOG_ERROR stops the    *)
(* process is refused by the overrun check whenever it does not fit.         *)
LEMMA OverrunCheckIsExact ==
  ASSUME NEW r \in Requests, NEW pos \in Nat, pos <= MaxAllocatedSize,
         LegalAlign(r.align), Total(r) <= TooLarge,
         AlignUp(pos, r.align) + Total(r) > MaxAllocatedSize
  PROVE  Overruns(AlignUp(pos, r.align), Total(r))
  <1> DEFINE start == AlignUp(pos, r.align)
             sum   == start + Total(r)
  <1>1. /\ r.align \in Nat
        /\ r.align # 0
        /\ r.align <= 8
    BY TotalType DEF LegalAlign, MaxAlign
  <1>2. /\ start \in Nat
        /\ start < pos + r.align
    BY <1>1, AlignUpBounds
  <1>3. Total(r) \in Nat
    BY TotalType
  <1>4. /\ sum \in Nat
        /\ sum < Word
    BY <1>1, <1>2, <1>3, SizesAssumption DEF MaxAlign
  <1>5. sum % Word = sum
    BY <1>4, SmallSumsDoNotWrap
  <1>6. QED
    BY <1>5 DEF Overruns

-----------------------------------------------------------------------------
LEMMA InitBumpInv == Init => BumpInv
  BY SizesAssumption
  DEF Init, BumpInv, TypeOK, Bump, BlocksDisjoint, BlocksAligned, ChecksPreventFault, Block

(* What one allocation does to everything but the ledger: each outcome of    *)
(* the call keeps the blocks apart, and a block is only ever added at the    *)
(* end.                                                                      *)
BlocksInv ==
  /\ p \in Nat
  /\ blocks \in Seq(Block)
  /\ errorTraps \in BOOLEAN /\ ledgerDebug \in BOOLEAN
  /\ status \in {"running", "trap", "abort", "fault"}
  /\ Bump
  /\ BlocksDisjoint
  /\ BlocksAligned
  /\ ChecksPreventFault

LEMMA BlockTypes ==
  ASSUME BlocksInv
  PROVE  \A i \in 1 .. Len(blocks) :
           /\ blocks[i] \in Block
           /\ blocks[i].start \in Nat
           /\ End(blocks[i]) \in Nat
  <1>1. ASSUME NEW i \in 1 .. Len(blocks)
        PROVE  blocks[i] \in Block
    BY <1>1 DEF BlocksInv
  <1>2. \A b \in Block : b.start \in Nat /\ End(b) \in Nat
    BY DEF Block, End
  <1>3. QED
    BY <1>1, <1>2

(* A call that stops the process leaves the blocks as they are. *)
LEMMA HaltKeepsBlocks ==
  ASSUME BlocksInv, p' \in Nat, p' >= p, blocks' = blocks, UNCHANGED build,
         status' \in {"trap", "abort", "fault"},
         errorTraps => status' # "fault"
  PROVE  BlocksInv'
  <1>1. Bump'
    <2>1. ASSUME NEW i \in 1 .. Len(blocks)
          PROVE  End(blocks[i]) <= p'
      <3>1. End(blocks[i]) \in Nat /\ End(blocks[i]) <= p /\ p \in Nat
        BY <2>1, BlockTypes DEF BlocksInv, Bump
      <3>2. QED
        BY <3>1
    <2>2. QED
      BY <2>1 DEF Bump, End
  <1>2. BlocksDisjoint' /\ BlocksAligned'
    BY DEF BlocksInv, BlocksDisjoint, BlocksAligned, End
  <1>3. QED
    BY <1>1, <1>2 DEF BlocksInv, ChecksPreventFault, build

LEMMA AllocKeepsBlocks ==
  ASSUME BlocksInv, status = "running", NEW r \in Requests, AllocOctets(r), UNCHANGED build
  PROVE  BlocksInv'
  <1> USE DEF BlocksInv
  <1>1. /\ r.align \in Nat
        /\ Total(r) \in Nat
        /\ p <= MaxAllocatedSize
    BY TotalType DEF Bump
  <1>2. CASE AllocTraps(r)
    <2>1. p' \in Nat /\ p' >= p
      <3>1. CASE ~LegalAlign(r.align) /\ p' = p
        BY <3>1
      <3>2. CASE LegalAlign(r.align) /\ p' = AlignUp(p, r.align)
        <4>1. r.align # 0
          BY <3>2 DEF LegalAlign
        <4>2. QED
          BY <1>1, <3>2, <4>1, AlignUpBounds
      <3>3. QED
        BY <1>2, <3>1, <3>2 DEF AllocTraps
    <2>2. blocks' = blocks /\ status' = "trap"
      BY <1>2 DEF AllocTraps, Halt
    <2>3. QED
      BY <2>1, <2>2, HaltKeepsBlocks
  <1>3. CASE AllocDividesByZero(r)
    BY <1>3, HaltKeepsBlocks DEF AllocDividesByZero, Halt
  <1>4. ASSUME Accepted(r)
        PROVE  /\ AlignUp(p, r.align) \in Nat
               /\ AlignUp(p, r.align) >= p
    <2>1. r.align # 0
      BY <1>4 DEF Accepted, LegalAlign
    <2>2. QED
      BY <1>1, <2>1, AlignUpBounds
  <1>5. CASE AllocOverruns(r)
    <2>1. p' \in Nat /\ p' >= p /\ blocks' = blocks /\ status' = "abort"
      BY <1>4, <1>5 DEF AllocOverruns, Halt
    <2>2. QED
      BY <2>1, HaltKeepsBlocks
  <1>6. CASE AllocReturns(r)
    <2> DEFINE start == AlignUp(p, r.align)
               new   == [start |-> start, size |-> Total(r), align |-> r.align]
    <2>1. /\ Accepted(r)
          /\ ~Overruns(start, Total(r))
          /\ start \in Nat
          /\ start >= p
      BY <1>4, <1>6 DEF AllocReturns
    <2>2. CASE start + Total(r) > MaxAllocatedSize
      <3>1. p' = start /\ blocks' = blocks /\ status' = "fault"
        BY <1>6, <2>2 DEF AllocReturns, Halt
      <3>2. ~errorTraps
        BY <1>1, <2>1, <2>2, OverrunCheckIsExact DEF Accepted
      <3>3. QED
        BY <2>1, <3>1, <3>2, HaltKeepsBlocks
    <2>3. CASE ~(start + Total(r) > MaxAllocatedSize)
      <3> HIDE DEF start, new
      <3>1. /\ p' = start + Total(r)
            /\ blocks' = Append(blocks, new)
            /\ status' = status
        BY <1>6, <2>3 DEF AllocReturns, start, new
      <3>2. /\ new \in Block
            /\ new.start = start
            /\ new.size = Total(r)
            /\ new.align = r.align
            /\ End(new) = p'
        BY <1>1, <2>1, <3>1 DEF Block, End, new
      <3>3. /\ blocks' \in Seq(Block)
            /\ Len(blocks') = Len(blocks) + 1
            /\ \A i \in 1 .. Len(blocks) : blocks'[i] = blocks[i]
            /\ blocks'[Len(blocks')] = new
        BY <3>1, <3>2
      <3>4. /\ p' \in Nat
            /\ p' >= start
            /\ p' <= MaxAllocatedSize
        BY <1>1, <2>1, <2>3, <3>1, SizesAssumption
      <3>5. \A i \in 1 .. Len(blocks) : blocks[i] \in Block /\ End(blocks[i]) \in Nat
        BY BlockTypes
      <3>6. Bump'
        BY <2>1, <3>1, <3>2, <3>3, <3>4, <3>5 DEF Bump, End
      <3>7. BlocksDisjoint'
        <4>1. ASSUME NEW i \in 1 .. Len(blocks')
              PROVE  End(blocks'[i]) <= MaxAllocatedSize
          BY <3>2, <3>3, <3>4, <4>1 DEF BlocksDisjoint
        <4>2. ASSUME NEW i \in 1 .. Len(blocks'), NEW j \in 1 .. Len(blocks'), i < j
              PROVE  End(blocks'[i]) <= blocks'[j].start
          <5>1. CASE j = Len(blocks')
            <6>1. i \in 1 .. Len(blocks) /\ blocks'[i] = blocks[i]
              BY <3>3, <4>2, <5>1
            <6>2. End(blocks[i]) <= p /\ End(blocks[i]) \in Nat
              BY <3>5, <6>1 DEF Bump
            <6>3. blocks'[j].start = start
              BY <3>2, <3>3, <5>1
            <6>4. QED
              BY <2>1, <6>1, <6>2, <6>3
          <5>2. CASE j # Len(blocks')
            BY <3>3, <4>2, <5>2 DEF BlocksDisjoint
          <5>3. QED
            BY <5>1, <5>2
        <4>3. QED
          BY <4>1, <4>2 DEF BlocksDisjoint, End
      <3>8. BlocksAligned'
        <4>1. LegalAlign(r.align) => (new.start % new.align) = 0
          BY <1>1, <3>2, AlignUpAligns DEF start
        <4>2. QED
          BY <3>2, <3>3, <4>1 DEF BlocksAligned
      <3>9. QED
        BY <3>1, <3>3, <3>4, <3>6, <3>7, <3>8 DEF ChecksPreventFault, build
    <2>4. QED
      BY <2>2, <2>3
  <1>7. QED
    BY <1>2, <1>3, <1>5, <1>6 DEF AllocOctets

LEMMA NextBumpInv == BumpInv /\ [Next]_vars => BumpInv'
  <1> SUFFICES ASSUME BumpInv, [Next]_vars PROVE BumpInv'
    OBVIOUS
  <1>1. BlocksInv /\ ledgerCount \in Nat
    BY DEF BumpInv, BlocksInv, TypeOK
  <1>2. ASSUME BlocksInv', ledgerCount' \in Nat PROVE BumpInv'
    BY <1>2 DEF BumpInv, BlocksInv, TypeOK
  <1>3. CASE Alloc
    <2>1. PICK r \in Requests : AllocOctets(r)
      BY <1>3 DEF Alloc
    <2>2. QED
      BY <1>1, <1>2, <1>3, <2>1, AllocKeepsBlocks DEF Alloc
  <1>4. CASE AllocDebug
    <2>1. CASE LedgerFull
      BY <1>1, <1>2, <1>4, <2>1
      DEF AllocDebug, LedgerFull, Halt, build, BlocksInv, Bump, BlocksDisjoint, BlocksAligned, ChecksPreventFault
    <2>2. CASE LedgerThenAlloc
      <3>1. PICK r \in Requests : AllocOctets(r)
        BY <2>2 DEF LedgerThenAlloc
      <3>2. ledgerCount' \in Nat
        BY <1>1, <2>2 DEF LedgerThenAlloc
      <3>3. QED
        BY <1>1, <1>2, <1>4, <3>1, <3>2, AllocKeepsBlocks DEF AllocDebug
    <2>3. QED
      BY <1>4, <2>1, <2>2 DEF AllocDebug
  <1>5. CASE Reset
    BY <1>1, <1>2, <1>5, SizesAssumption
    DEF Reset, build, BlocksInv, Bump, BlocksDisjoint, BlocksAligned, ChecksPreventFault, Block
  <1>6. CASE UNCHANGED vars
    BY <1>1, <1>2, <1>6
    DEF vars, build, BlocksInv, Bump, BlocksDisjoint, BlocksAligned, ChecksPreventFault
  <1>7. QED
    BY <1>3, <1>4, <1>5, <1>6 DEF Next

(* The inductive invariant holds in every reachable state. *)
THEOREM BumpInvariant == Spec => []BumpInv
  BY InitBumpInv, NextBumpInv, PTL DEF Spec

(* The allocator's state has its types: swampDynamicMemoryAlloc never leaves *)
(* a negative offset, whatever it was asked for.                             *)
THEOREM TypeCorrect == Spec => []TypeOK
  <1>1. BumpInv => TypeOK
    BY DEF BumpInv
  <1>2. QED
    BY <1>1, BumpInvariant, PTL

(* No two blocks swampDynamicMemoryAlloc hands out between two resets share  *)
(* an octet, and all lie in the arena.                                       *)
THEOREM BlocksNeverShareOctets == Spec => []BlocksDisjoint
  <1>1. BumpInv => BlocksDisjoint
    BY DEF BumpInv
  <1>2. QED
    BY <1>1, BumpInvariant, PTL

(* Every block asked for with an align of 1 to 8 starts at a multiple of it. *)
THEOREM BlocksAreAligned == Spec => []BlocksAligned
  <1>1. BumpInv => BlocksAligned
    BY DEF BumpInv
  <1>2. QED
    BY <1>1, BumpInvariant, PTL

(* Where CLOG_ERROR stops the process, the allocator's checks come before    *)
(* every division by zero and every write outside its memory.                *)
THEOREM ChecksAreEnough == Spec => []ChecksPreventFault
  <1>1. BumpInv => ChecksPreventFault
    BY DEF BumpInv
  <1>2. QED
    BY <1>1, BumpInvariant, PTL

(* An allocation, whatever becomes of it, neither moves the bump pointer    *)
(* back nor takes a block off the record.                                   *)
LEMMA AllocOnlyGrows ==
  ASSUME BumpInv, NEW r \in Requests, AllocOctets(r)
  PROVE  p' >= p /\ Len(blocks') >= Len(blocks)
  <1>1. p \in Nat /\ blocks \in Seq(Block) /\ Len(blocks) \in Nat
    BY DEF BumpInv, TypeOK
  <1>2. Total(r) \in Nat /\ r.align \in Nat
    BY TotalType
  <1>3. r.align # 0 => AlignUp(p, r.align) \in Nat /\ AlignUp(p, r.align) >= p
    BY <1>1, <1>2, AlignUpBounds
  <1>4. LegalAlign(r.align) => r.align # 0
    BY DEF LegalAlign
  <1>5. CASE AllocTraps(r)
    BY <1>1, <1>3, <1>4, <1>5 DEF AllocTraps
  <1>6. CASE AllocDividesByZero(r)
    BY <1>1, <1>6 DEF AllocDividesByZero
  <1>7. CASE AllocOverruns(r)
    BY <1>1, <1>3, <1>4, <1>7 DEF AllocOverruns, Accepted
  <1>8. CASE AllocReturns(r)
    <2>1. AlignUp(p, r.align) \in Nat /\ AlignUp(p, r.align) >= p
      BY <1>3, <1>4, <1>8 DEF AllocReturns, Accepted
    <2>2. p' >= p
      BY <1>1, <1>2, <1>8, <2>1 DEF AllocReturns
    <2>3. blocks' = blocks \/ \E b : blocks' = Append(blocks, b)
      BY <1>8 DEF AllocReturns
    <2>4. Len(blocks') >= Len(blocks)
      BY <1>1, <2>3
    <2>5. QED
      BY <2>2, <2>4
  <1>9. QED
    BY <1>5, <1>6, <1>7, <1>8 DEF AllocOctets

(* Octets become free only in a reset, which frees them all: no allocation, *)
(* accepted or refused, gives a block back.                                 *)
THEOREM OnlyAResetFrees == Spec => OnlyResetFrees
  <1> DEFINE Freeing == p' < p \/ Len(blocks') < Len(blocks)
             Empty == p' = 0 /\ ledgerCount' = 0 /\ blocks' = << >>
  <1>1. ASSUME BumpInv, [Next]_vars, Freeing PROVE Empty
    <2>1. p \in Nat /\ Len(blocks) \in Nat
      BY <1>1 DEF BumpInv, TypeOK
    <2>2. ASSUME NEW r \in Requests, AllocOctets(r) PROVE FALSE
      <3>1. p' >= p /\ Len(blocks') >= Len(blocks)
        BY <1>1, <2>2, AllocOnlyGrows
      <3>2. p' \in Nat /\ Len(blocks') \in Nat
        BY <1>1, NextBumpInv DEF BumpInv, TypeOK
      <3>3. QED
        BY <1>1, <2>1, <3>1, <3>2
    <2>3. ~ (p' = p /\ blocks' = blocks)
      BY <1>1, <2>1
    <2>4. CASE Alloc \/ AllocDebug
      BY <2>2, <2>3, <2>4 DEF Alloc, AllocDebug, LedgerFull, LedgerThenAlloc
    <2>5. CASE Reset
      BY <2>5 DEF Reset
    <2>6. CASE UNCHANGED vars
      BY <2>3, <2>6 DEF vars
    <2>7. QED
      BY <1>1, <2>4, <2>5, <2>6 DEF Next
  <1>2. BumpInv /\ [Next]_vars => [Freeing => Empty]_vars
    BY <1>1
  <1>3. QED
    BY <1>2, BumpInvariant, PTL DEF Spec, OnlyResetFrees

=============================================================================
