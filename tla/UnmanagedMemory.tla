--------------------------- MODULE UnmanagedMemory ---------------------------
(***************************************************************************)
(* The registries of lib/context.c that own the host's unmanaged objects   *)
(* (an Ecs.World, say).  A SwampUnmanagedMemory is an array of Capacity    *)
(* slots and a count; an object is registered when it is allocated, moves  *)
(* to another registry when a state that refers to it is compacted, and is *)
(* destroyed by the reset of the registry that owns it.  The objects are   *)
(* the host's: a destroy call too many frees one twice, one too few leaks  *)
(* it.                                                                     *)
(*                                                                         *)
(* The host's part is external: which objects it allocates and moves, and  *)
(* whether it installed a destroy function.  status is as in DynamicMemory.*)
(***************************************************************************)
EXTENDS Naturals, FiniteSets, FiniteSetsExt

CONSTANTS
  Registries,  \* the SwampUnmanagedMemory structs of the process
  Objects,     \* the SwampUnmanaged structs malloc can return
  NoObject,    \* the null pointer
  Capacity     \* SWAMP_MACHINE_CONTEXT_UNMANAGED_CONTAINER_COUNT, 32 in the code

ASSUME CapacityAssumption == Capacity \in Nat
ASSUME NoObjectAssumption == NoObject \notin Objects

Slots == 1 .. Capacity

VARIABLES
  slots,           \* unmanaged[], of every registry
  count,           \* count, of every registry
  allocated,       \* the objects ever allocated
  noDestroy,       \* those the host installed no destroy function in
  destroyed,       \* the objects destroyed
  destroyedAgain,  \* the objects destroyed more than once
  errorTraps,      \* does CLOG_ERROR stop the process in this build?
  status

vars == <<slots, count, allocated, noDestroy, destroyed, destroyedAgain, errorTraps, status>>

TypeOK ==
  /\ slots \in [Registries -> [Slots -> Objects \cup {NoObject}]]
  /\ count \in [Registries -> Nat]
  /\ allocated \subseteq Objects
  /\ noDestroy \subseteq allocated
  /\ destroyed \subseteq allocated
  /\ destroyedAgain \subseteq destroyed
  /\ errorTraps \in BOOLEAN
  /\ status \in {"running", "trap", "abort", "fault"}

-----------------------------------------------------------------------------
Occupied(row) == {i \in Slots : row[i] # NoObject}

Holding(row, o) == {i \in Slots : row[i] = o}

\* The scan for an object ends at the first slot holding it, the scan for an
\* empty slot at the first null pointer.
FirstHolding(row, o) == Min(Holding(row, o))

RowWith(row, o) == [row EXCEPT ![FirstHolding(row, NoObject)] = o]
RowWithout(row, o) == [row EXCEPT ![FirstHolding(row, o)] = NoObject]

\* swampUnmanagedMemoryOwns.
Owns(r, o) == Holding(slots[r], o) # {}

Live == allocated \ destroyed

-----------------------------------------------------------------------------
\* swampUnmanagedMemoryInit, of every registry, in either build.
Init ==
  /\ slots = [r \in Registries |-> [i \in Slots |-> NoObject]]
  /\ count = [r \in Registries |-> 0]
  /\ allocated = {} /\ noDestroy = {}
  /\ destroyed = {} /\ destroyedAgain = {}
  /\ errorTraps \in BOOLEAN
  /\ status = "running"

\* CLOG_ERROR.
Trap == status' = IF errorTraps THEN "trap" ELSE status

\* swampUnmanagedMemoryAllocate in a full registry: a null pointer.
AllocateFull(r) ==
  /\ status = "running"
  /\ count[r] = Capacity
  /\ Trap
  /\ UNCHANGED <<slots, count, allocated, noDestroy, destroyed, destroyedAgain>>
  /\ errorTraps' = errorTraps

\* swampUnmanagedMemoryAllocate, and the host that fills the new struct in.
\* There is an empty slot whenever the count is below the capacity: see
\* CountIsOccupied.
Allocate(r, o) ==
  /\ status = "running"
  /\ count[r] # Capacity
  /\ o \notin allocated
  /\ slots' = [slots EXCEPT ![r] = RowWith(@, o)]
  /\ count' = [count EXCEPT ![r] = @ + 1]
  /\ allocated' = allocated \cup {o}
  /\ noDestroy' \in {noDestroy, noDestroy \cup {o}}
  /\ UNCHANGED <<destroyed, destroyedAgain, status>>
  /\ errorTraps' = errorTraps

\* Mutants of MoveOwned: the source does not forget the object, its count is
\* not taken down, or it is taken down twice.
MoveWithoutForget(target, source, o) ==
  /\ Owns(source, o)
  /\ count[target] # Capacity
  /\ slots' = [slots EXCEPT ![target] = RowWith(@, o)]
  /\ count' = [count EXCEPT ![target] = @ + 1]
  /\ UNCHANGED status
MoveWithoutCount(target, source, o) ==
  /\ Owns(source, o)
  /\ count[target] # Capacity
  /\ slots' = [slots EXCEPT ![source] = RowWithout(@, o), ![target] = RowWith(@, o)]
  /\ count' = [count EXCEPT ![target] = @ + 1]
  /\ UNCHANGED status
MoveCountedTwice(target, source, o) ==
  /\ Owns(source, o)
  /\ count[target] # Capacity
  /\ slots' = [slots EXCEPT ![source] = RowWithout(@, o), ![target] = RowWith(@, o)]
  /\ count' = [count EXCEPT ![source] = @ - 2, ![target] = @ + 1]
  /\ UNCHANGED status

\* swampUnmanagedMemoryMove of an object the source owns into a target with
\* room: Forget, then Add.
MoveOwned(target, source, o) ==
  /\ Owns(source, o)
  /\ count[target] # Capacity
  /\ slots' = [slots EXCEPT ![source] = RowWithout(@, o), ![target] = RowWith(@, o)]
  /\ count' = [count EXCEPT ![source] = @ - 1, ![target] = @ + 1]
  /\ UNCHANGED status

\* Mutant of MoveToFull: the full target is no error.
MoveToFullSilently(target, source, o) ==
  /\ Owns(source, o)
  /\ count[target] = Capacity
  /\ slots' = [slots EXCEPT ![source] = RowWithout(@, o)]
  /\ count' = [count EXCEPT ![source] = @ - 1]
  /\ UNCHANGED status

\* The target is full: `out of space', after the source forgot the object.
\* swampUnmanagedMemoryAdd returns 0 here as it does when it succeeds.
MoveToFull(target, source, o) ==
  /\ Owns(source, o)
  /\ count[target] = Capacity
  /\ slots' = [slots EXCEPT ![source] = RowWithout(@, o)]
  /\ count' = [count EXCEPT ![source] = @ - 1]
  /\ Trap

\* `did not own that pointer': where that only logs, the target still adds it.
MoveNotOwned(target, source, o) ==
  /\ ~Owns(source, o)
  /\ Trap
  /\ IF errorTraps \/ count[target] = Capacity
     THEN UNCHANGED <<slots, count>>
     ELSE /\ slots' = [slots EXCEPT ![target] = RowWith(@, o)]
          /\ count' = [count EXCEPT ![target] = @ + 1]

\* swampUnmanagedMemoryMove, of an object some state refers to: only its address
\* is looked at.
Move(target, source, o) ==
  /\ status = "running"
  /\ target # source
  /\ o \in allocated
  /\ \/ MoveOwned(target, source, o)
     \/ MoveToFull(target, source, o)
     \/ MoveNotOwned(target, source, o)
  /\ UNCHANGED <<allocated, noDestroy, destroyed, destroyedAgain>>
  /\ errorTraps' = errorTraps

\* Mutant of DestroySlots: the slots keep the freed objects.
DestroyButKeep(r, from, emptied) ==
  LET gone == {slots[r][i] : i \in from} \ {NoObject}
  IN /\ destroyed' = destroyed \cup gone
     /\ destroyedAgain' = destroyedAgain \cup (gone \cap destroyed)
     /\ slots' = slots

\* The objects in a set of slots are destroyed and freed, and those of the slots
\* that the loop is done with are emptied.
DestroySlots(r, from, emptied) ==
  LET gone == {slots[r][i] : i \in from} \ {NoObject}
  IN /\ destroyed' = destroyed \cup gone
     /\ destroyedAgain' = destroyedAgain \cup
          {o \in gone : o \in destroyed \/ Cardinality(Holding(slots[r], o) \cap from) > 1}
     /\ slots' = [slots EXCEPT ![r] = [i \in Slots |-> IF i \in emptied THEN NoObject ELSE @[i]]]

\* swampUnmanagedMemoryReset; swampUnmanagedMemoryDestroy is the same.
Reset(r) ==
  /\ status = "running"
  /\ \A i \in Occupied(slots[r]) : slots[r][i] \notin noDestroy
  /\ DestroySlots(r, Slots, Slots)
  /\ count' = [count EXCEPT ![r] = 0]
  /\ UNCHANGED <<allocated, noDestroy, status>>
  /\ errorTraps' = errorTraps

\* It stops at slot i: there is no destroy function to call (a null pointer is
\* called where CLOG_ERROR only logs), or the destroy function failed: then the
\* object is freed, and its slot still holds it.  The objects in the slots
\* before it are gone, the count is the old one.
ResetStops(r, i) ==
  /\ status = "running"
  /\ slots[r][i] # NoObject
  /\ \A j \in Slots : j < i => slots[r][j] \notin noDestroy
  /\ \/ /\ slots[r][i] \in noDestroy
        /\ DestroySlots(r, 1 .. (i - 1), 1 .. (i - 1))
        /\ status' = IF errorTraps THEN "trap" ELSE "fault"
     \/ /\ slots[r][i] \notin noDestroy
        /\ errorTraps
        /\ DestroySlots(r, 1 .. i, 1 .. (i - 1))
        /\ status' = "trap"
  /\ UNCHANGED <<count, allocated, noDestroy>>
  /\ errorTraps' = errorTraps

\* Some other part of the process stops it.
Halt ==
  /\ status = "running"
  /\ status' \in {"trap", "abort", "fault"}
  /\ UNCHANGED <<slots, count, allocated, noDestroy, destroyed, destroyedAgain>>
  /\ errorTraps' = errorTraps

Next ==
  \/ \E r \in Registries :
       \/ AllocateFull(r)
       \/ \E o \in Objects : Allocate(r, o)
       \/ \E source \in Registries, o \in Objects : Move(r, source, o)
       \/ Reset(r)
       \/ \E i \in Slots : ResetStops(r, i)
  \/ Halt

Spec == Init /\ [][Next]_vars

-----------------------------------------------------------------------------
(* The last four hold where CLOG_ERROR stops the process; the first in every *)
(* build.                                                                    *)

(* The count of a registry is the number of its occupied slots: so the scan *)
(* of Allocate and Add, which trusts the count, always finds an empty slot. *)
CountIsOccupied ==
  status = "running" =>
    \A r \in Registries : count[r] = Cardinality(Occupied(slots[r]))

(* No object is in two slots, of one registry or of two: whichever registry *)
(* is reset first would leave the other a freed object.                     *)
InOneSlot ==
  \A r, s \in Registries : \A i, j \in Slots :
    (slots[r][i] = slots[s][j] /\ slots[r][i] # NoObject) => (r = s /\ i = j)

OneOwner == errorTraps => InOneSlot

(* An object that was allocated and not yet destroyed is in a slot, so some *)
(* later reset destroys it, whichever registries it was moved between.      *)
LiveAreHeld ==
  status = "running" => \A o \in Live : \E r \in Registries : Owns(r, o)

NoneLost == errorTraps => LiveAreHeld

(* No object is destroyed and freed a second time.                          *)
NoneDestroyedAgain == destroyedAgain = {}

DestroyedAtMostOnce == errorTraps => NoneDestroyedAgain

(* A registry never holds an object that is already freed: the next scan    *)
(* or reset would read it.                                                  *)
NoFreedObjectHeld ==
  (errorTraps /\ status = "running") =>
    \A r \in Registries : \A o \in destroyed : ~Owns(r, o)

=============================================================================
