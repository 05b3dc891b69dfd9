---------------------------- MODULE DynamicMemory ----------------------------
(***************************************************************************)
(* The bump allocator of lib/dynamic_memory.c.  One arena of               *)
(* MaxAllocatedSize octets; swampDynamicMemoryAlloc aligns the bump        *)
(* pointer, checks the request and hands out the octets behind it, and     *)
(* swampDynamicMemoryReset makes the whole arena free again.  Nothing else *)
(* gives octets back, so what the callers rely on is that two blocks       *)
(* handed out since the last reset never share an octet.                   *)
(*                                                                         *)
(* Addresses are offsets from `memory`.  size_t is Word values wide: the   *)
(* products and sums of the code wrap, which a negative count (Blob.make   *)
(* passes an Int on unchecked) can reach.                                  *)
(*                                                                         *)
(* status says how far the process has come:                               *)
(*   "running"  it runs;                                                   *)
(*   "trap"     CLOG_ERROR stopped it (builds where clog breaks);          *)
(*   "abort"    SWAMP_LOG_ERROR stopped it (every build);                  *)
(*   "fault"    it divided by zero, or wrote outside its memory.           *)
(***************************************************************************)
EXTENDS Naturals, Sequences

CONSTANTS
  MaxAllocatedSize,  \* octets in the arena
  TooLarge,          \* the largest single allocation, 2 * 1024 * 1024 in the code
  Word,              \* number of values of a size_t
  LedgerCapacity,    \* 512 in the code
  Requests           \* the [itemCount, itemSize, align] the callers ask for

MaxAlign == 8

\* The arena, the padding in front of a block and the largest request allowed
\* together fit in a size_t (128 KiB and 2 MiB against 2^32 at the least).
ASSUME SizesAssumption ==
  /\ MaxAllocatedSize \in Nat /\ TooLarge \in Nat /\ Word \in Nat
  /\ MaxAllocatedSize + MaxAlign + TooLarge < Word
ASSUME LedgerAssumption == LedgerCapacity \in Nat
ASSUME RequestsAssumption ==
  Requests \subseteq [itemCount : Nat, itemSize : Nat, align : Nat]

VARIABLES
  p,            \* self->p, as an offset from self->memory
  ledgerCount,  \* self->ledgerCount
  blocks,       \* the blocks handed out since the last reset, in order
  errorTraps,   \* does CLOG_ERROR stop the process in this build?
  ledgerDebug,  \* SWAMP_DYNAMIC_MEMORY_DEBUG of this build
  status        \* see above

build == <<errorTraps, ledgerDebug>>

vars == <<p, ledgerCount, blocks, build, status>>

Block == [start : Nat, size : Nat, align : Nat]

TypeOK ==
  /\ p \in Nat
  /\ ledgerCount \in Nat
  /\ blocks \in Seq(Block)
  /\ errorTraps \in BOOLEAN /\ ledgerDebug \in BOOLEAN
  /\ status \in {"running", "trap", "abort", "fault"}

-----------------------------------------------------------------------------
(* What one call computes. *)

LegalAlign(a) == a \in 1 .. MaxAlign

\* Mutants of AlignUp: no padding, the padding taken off, and p rounded down.
AlignUpForgotten(pos, a) == pos
AlignUpNegative(pos, a) == IF (pos % a) = 0 THEN pos ELSE pos - (a - (pos % a))
AlignUpDown(pos, a) == pos - (pos % a)

\* The bump pointer after the padding; a is not zero.
AlignUp(pos, a) == IF (pos % a) = 0 THEN pos ELSE pos + (a - (pos % a))

\* itemCount * itemSize, in a size_t.
Total(r) == (r.itemCount * r.itemSize) % Word

\* usedSize + total > maxAllocatedSize, in a size_t.
Overruns(start, total) == (start + total) % Word > MaxAllocatedSize

-----------------------------------------------------------------------------
Init ==
  /\ p = 0
  /\ ledgerCount = 0
  /\ blocks = << >>
  /\ errorTraps \in BOOLEAN /\ ledgerDebug \in BOOLEAN
  /\ status = "running"

Halt(how) == status' = how

\* CLOG_ERROR at one of the two checks of the request: the align, which comes
\* before the padding, and the size, which comes after it.
AllocTraps(r) ==
  /\ errorTraps
  /\ \/ ~LegalAlign(r.align) /\ p' = p
     \/ LegalAlign(r.align) /\ Total(r) > TooLarge /\ p' = AlignUp(p, r.align)
  /\ Halt("trap")
  /\ UNCHANGED blocks

\* pos % align with align = 0, in a build where the check only logs.
AllocDividesByZero(r) ==
  /\ ~errorTraps
  /\ r.align = 0
  /\ Halt("fault")
  /\ UNCHANGED <<p, blocks>>

\* Mutant of Accepted: no size check.
AcceptedWhateverSize(r) == LegalAlign(r.align) \/ (~errorTraps /\ r.align # 0)

\* The request passes the two checks, or they do not stop it.
Accepted(r) ==
  \/ LegalAlign(r.align) /\ Total(r) <= TooLarge
  \/ ~errorTraps /\ r.align # 0

\* "overrrun dynamic memory": the padding has already been added.
AllocOverruns(r) ==
  /\ Accepted(r)
  /\ Overruns(AlignUp(p, r.align), Total(r))
  /\ p' = AlignUp(p, r.align)
  /\ Halt("abort")
  /\ UNCHANGED blocks

\* The block is filled with 0xfd and handed out.  The fill leaves the arena
\* when the sum of the overrun check wrapped.
AllocReturns(r) ==
  LET start == AlignUp(p, r.align)
      end   == start + Total(r)
  IN /\ Accepted(r)
     /\ ~Overruns(start, Total(r))
     /\ IF end > MaxAllocatedSize
        THEN Halt("fault") /\ p' = start /\ UNCHANGED blocks
        ELSE /\ p' = end
             /\ blocks' = Append(blocks, [start |-> start, size |-> Total(r), align |-> r.align])
             /\ UNCHANGED status

AllocOctets(r) ==
  \/ AllocTraps(r)
  \/ AllocDividesByZero(r)
  \/ AllocOverruns(r)
  \/ AllocReturns(r)

\* swampDynamicMemoryAlloc.
Alloc ==
  /\ status = "running"
  /\ \E r \in Requests : AllocOctets(r)
  /\ UNCHANGED <<ledgerCount, build>>

\* "out of ledger space": where that only logs, the entry is written behind the
\* last one.
LedgerFull ==
  /\ ledgerCount = LedgerCapacity
  /\ \/ errorTraps /\ Halt("trap")
     \/ ~errorTraps /\ ledgerDebug /\ Halt("fault")
  /\ UNCHANGED <<p, ledgerCount, blocks>>

\* One ledger entry, in a build that keeps them, then the allocation.
LedgerThenAlloc ==
  /\ ledgerCount # LedgerCapacity \/ (~errorTraps /\ ~ledgerDebug)
  /\ ledgerCount' = IF ledgerDebug THEN ledgerCount + 1 ELSE ledgerCount
  /\ \E r \in Requests : AllocOctets(r)

\* swampDynamicMemoryAllocDebug.
AllocDebug ==
  /\ status = "running"
  /\ LedgerFull \/ LedgerThenAlloc
  /\ UNCHANGED build

\* Mutant of Reset: the ledger is kept.
ResetKeepsLedger ==
  /\ status = "running"
  /\ p' = 0 /\ blocks' = << >>
  /\ UNCHANGED <<ledgerCount, build, status>>

\* swampDynamicMemoryReset.
Reset ==
  /\ status = "running"
  /\ p' = 0
  /\ ledgerCount' = 0
  /\ blocks' = << >>
  /\ UNCHANGED <<build, status>>

Next == Alloc \/ AllocDebug \/ Reset

Spec == Init /\ [][Next]_vars

-----------------------------------------------------------------------------
End(b) == b.start + b.size

(* Every block handed out lies in the arena, and no two of them share an    *)
(* octet: the padding, the size check and the bump leave no request that    *)
(* reaches into an earlier block, whatever was asked for in between.        *)
BlocksDisjoint ==
  /\ \A i \in 1 .. Len(blocks) : End(blocks[i]) <= MaxAllocatedSize
  /\ \A i, j \in 1 .. Len(blocks) : i < j => End(blocks[i]) <= blocks[j].start

(* A block starts at a multiple of the align it was asked for, so that the  *)
(* structs and the items the callers put there can be read in place.        *)
BlocksAligned ==
  \A i \in 1 .. Len(blocks) :
    LegalAlign(blocks[i].align) => (blocks[i].start % blocks[i].align) = 0

(* In a build where CLOG_ERROR stops the process, the checks of the align,  *)
(* the size and the ledger leave no request that makes the allocator write  *)
(* outside its memory or divide by zero: the size check is what keeps the   *)
(* sum of the overrun check from wrapping.                                  *)
ChecksPreventFault == errorTraps => status # "fault"

(* Octets become free only in a reset: a step that moves the bump pointer   *)
(* back, or takes a block off the record, leaves the arena empty.           *)
OnlyResetFrees ==
  [][(p' < p \/ Len(blocks') < Len(blocks)) => (p' = 0 /\ ledgerCount' = 0 /\ blocks' = << >>)]_vars

=============================================================================
