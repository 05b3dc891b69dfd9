----------------------- MODULE UnmanagedMemory_proofs -----------------------
(* Proofs about the registries of unmanaged objects, for any number of them, *)
(* of any capacity.  The ones about ownership are for builds where           *)
(* CLOG_ERROR stops the process.                                             *)
EXTENDS UnmanagedMemory, FiniteSetTheorems, WellFoundedInduction, TLAPS

Row == [Slots -> Objects \cup {NoObject}]

-----------------------------------------------------------------------------
(* Rows of slots. *)

LEMMA FirstHoldingIsSlot ==
  ASSUME NEW row, NEW o, Holding(row, o) # {}
  PROVE  /\ FirstHolding(row, o) \in Slots
         /\ row[FirstHolding(row, o)] = o
  <1>1. Holding(row, o) \subseteq Nat
    BY DEF Holding, Slots
  <1>2. \E x \in Holding(row, o) : \A y \in Holding(row, o) : x =< y
    <2> DEFINE R == OpToRel(<, Nat)
    <2>1. \A x, y \in Nat : <<y, x>> \in R <=> y < x
      BY DEF OpToRel
    <2> HIDE DEF R
    <2>2. IsWellFoundedOn(R, Nat)
      BY NatLessThanWellFounded DEF R
    <2>3. PICK x \in Holding(row, o) : \A y \in Holding(row, o) : ~(<<y, x>> \in R)
      BY <1>1, <2>2, WFMin
    <2>4. ASSUME NEW y \in Holding(row, o) PROVE x =< y
      <3>1. x \in Nat /\ y \in Nat /\ ~(y < x)
        BY <1>1, <2>1, <2>3
      <3>2. QED
        BY <3>1
    <2>5. QED
      BY <2>4
  <1>3. FirstHolding(row, o) \in Holding(row, o)
    BY <1>2 DEF FirstHolding, Min
  <1>4. QED
    BY <1>3 DEF Holding

LEMMA OccupiedFinite ==
  ASSUME NEW row
  PROVE  /\ IsFiniteSet(Occupied(row))
         /\ Cardinality(Occupied(row)) \in Nat
         /\ Cardinality(Occupied(row)) <= Capacity
         /\ Cardinality(Occupied(row)) = Capacity => Occupied(row) = Slots
  <1>1. /\ IsFiniteSet(Slots)
        /\ Cardinality(Slots) = Capacity
    <2>1. 1 \in Int /\ Capacity \in Int
      BY CapacityAssumption
    <2>2. QED
      BY <2>1, FS_Interval, CapacityAssumption DEF Slots
  <1>2. Occupied(row) \in SUBSET Slots
    BY DEF Occupied
  <1>3. QED
    BY <1>1, <1>2, FS_Subset, FS_CardinalityType

(* A registry whose count is below the capacity has an empty slot.           *)
LEMMA EmptySlotExists ==
  ASSUME NEW row, Cardinality(Occupied(row)) # Capacity
  PROVE  Holding(row, NoObject) # {}
  <1>1. SUFFICES ASSUME Holding(row, NoObject) = {} PROVE FALSE
    OBVIOUS
  <1>2. Occupied(row) = Slots
    BY <1>1 DEF Holding, Occupied
  <1>3. Cardinality(Slots) = Capacity
    <2>1. 1 \in Int /\ Capacity \in Int
      BY CapacityAssumption
    <2>2. QED
      BY <2>1, FS_Interval, CapacityAssumption DEF Slots
  <1>4. QED
    BY <1>2, <1>3

LEMMA RowWithFillsOneSlot ==
  ASSUME NEW row \in Row, NEW o \in Objects, Cardinality(Occupied(row)) # Capacity
  PROVE  /\ RowWith(row, o) \in Row
         /\ \E k \in Slots : /\ row[k] = NoObject
                             /\ RowWith(row, o) = [row EXCEPT ![k] = o]
         /\ Cardinality(Occupied(RowWith(row, o))) = Cardinality(Occupied(row)) + 1
  <1> DEFINE k == FirstHolding(row, NoObject)
  <1>1. k \in Slots /\ row[k] = NoObject
    BY EmptySlotExists, FirstHoldingIsSlot
  <1> HIDE DEF k
  <1>2. RowWith(row, o) = [row EXCEPT ![k] = o]
    BY DEF RowWith, k
  <1>3. RowWith(row, o) \in Row
    BY <1>1, <1>2 DEF Row
  <1>4. /\ Occupied(RowWith(row, o)) = Occupied(row) \cup {k}
        /\ k \notin Occupied(row)
    BY <1>1, <1>2, NoObjectAssumption DEF Occupied, Row
  <1>5. QED
    BY <1>1, <1>2, <1>3, <1>4, OccupiedFinite, FS_AddElement

LEMMA RowWithoutEmptiesOneSlot ==
  ASSUME NEW row \in Row, NEW o \in Objects, Holding(row, o) # {}
  PROVE  /\ RowWithout(row, o) \in Row
         /\ \E k \in Slots : /\ row[k] = o
                             /\ RowWithout(row, o) = [row EXCEPT ![k] = NoObject]
         /\ Cardinality(Occupied(RowWithout(row, o))) = Cardinality(Occupied(row)) - 1
         /\ Cardinality(Occupied(row)) > 0
  <1> DEFINE k == FirstHolding(row, o)
  <1>1. k \in Slots /\ row[k] = o
    BY FirstHoldingIsSlot
  <1> HIDE DEF k
  <1>2. RowWithout(row, o) = [row EXCEPT ![k] = NoObject]
    BY DEF RowWithout, k
  <1>3. RowWithout(row, o) \in Row
    BY <1>1, <1>2 DEF Row
  <1>4. /\ Occupied(RowWithout(row, o)) = Occupied(row) \ {k}
        /\ k \in Occupied(row)
    BY <1>1, <1>2, NoObjectAssumption DEF Occupied, Row
  <1>5. Cardinality(Occupied(row)) # 0
    BY <1>4, OccupiedFinite, FS_EmptySet
  <1>6. Cardinality(Occupied(row) \ {k}) = Cardinality(Occupied(row)) - 1
    BY <1>4, OccupiedFinite, FS_RemoveElement
  <1>7. Cardinality(Occupied(row)) \in Nat
    BY OccupiedFinite
  <1>8. Cardinality(Occupied(row)) > 0
    BY <1>5, <1>7
  <1>9. Cardinality(Occupied(RowWithout(row, o))) = Cardinality(Occupied(row)) - 1
    BY <1>4, <1>6
  <1>10. QED
    BY <1>1, <1>2, <1>3, <1>8, <1>9

LEMMA EmptyRow ==
  ASSUME NEW row, \A i \in Slots : row[i] = NoObject
  PROVE  Cardinality(Occupied(row)) = 0
  <1>1. Occupied(row) = {}
    BY DEF Occupied
  <1>2. QED
    BY <1>1, FS_EmptySet

-----------------------------------------------------------------------------
(* What holds in every build: the counts, and that a registry only holds     *)
(* what was allocated.                                                       *)
HeldAreAllocated ==
  \A r \in Registries : \A i \in Slots : slots[r][i] \in allocated \cup {NoObject}

CountInv == TypeOK /\ CountIsOccupied /\ HeldAreAllocated

LEMMA InitCountInv == Init => CountInv
  <1> SUFFICES ASSUME Init PROVE CountInv
    OBVIOUS
  <1>1. TypeOK /\ HeldAreAllocated
    BY DEF Init, TypeOK, HeldAreAllocated
  <1>2. ASSUME NEW r \in Registries PROVE Cardinality(Occupied(slots[r])) = 0
    <2>1. \A i \in Slots : slots[r][i] = NoObject
      BY DEF Init
    <2>2. QED
      BY <2>1, EmptyRow
  <1>3. QED
    BY <1>1, <1>2 DEF Init, CountInv, CountIsOccupied

LEMMA RowType ==
  ASSUME TypeOK, NEW r \in Registries
  PROVE  /\ slots[r] \in Row
         /\ count[r] \in Nat
  BY DEF TypeOK, Row

(* Destroying keeps rows rows and empties no other slot.                     *)
LEMMA DestroySlotsRows ==
  ASSUME CountInv, NEW r \in Registries, NEW from \in SUBSET Slots, NEW emptied, DestroySlots(r, from, emptied)
  PROVE  /\ slots' \in [Registries -> Row]
         /\ \A s \in Registries : \A i \in Slots :
              slots'[s][i] = IF s = r /\ i \in emptied THEN NoObject ELSE slots[s][i]
         /\ destroyed' = destroyed \cup ({slots[r][i] : i \in from} \ {NoObject})
         /\ destroyed' \subseteq allocated
         /\ destroyedAgain' \subseteq destroyed'
  <1>1. slots \in [Registries -> Row]
    BY DEF CountInv, TypeOK, Row
  <1> DEFINE row == [i \in Slots |-> IF i \in emptied THEN NoObject ELSE slots[r][i]]
  <1>2. slots' = [slots EXCEPT ![r] = row]
    BY DEF DestroySlots
  <1>3. row \in Row
    BY <1>1 DEF Row
  <1>4. slots' \in [Registries -> Row]
    BY <1>1, <1>2, <1>3
  <1>5. \A s \in Registries : \A i \in Slots :
          slots'[s][i] = IF s = r /\ i \in emptied THEN NoObject ELSE slots[s][i]
    BY <1>1, <1>2
  <1>6. destroyed' = destroyed \cup ({slots[r][i] : i \in from} \ {NoObject})
    BY DEF DestroySlots
  <1>7. {slots[r][i] : i \in from} \ {NoObject} \subseteq allocated
    BY DEF CountInv, HeldAreAllocated
  <1>8. destroyedAgain' \subseteq destroyed'
    BY DEF DestroySlots, CountInv, TypeOK
  <1>9. QED
    BY <1>4, <1>5, <1>6, <1>7, <1>8 DEF CountInv, TypeOK

(* One slot of one registry is filled, and its count follows.                *)
LEMMA FilledRow ==
  ASSUME CountInv, status = "running", NEW r \in Registries, NEW o \in Objects, count[r] # Capacity
  PROVE  /\ RowWith(slots[r], o) \in Row
         /\ \E k \in Slots : /\ slots[r][k] = NoObject
                             /\ RowWith(slots[r], o) = [slots[r] EXCEPT ![k] = o]
         /\ count[r] + 1 \in Nat
         /\ count[r] + 1 = Cardinality(Occupied(RowWith(slots[r], o)))
  <1>1. /\ slots[r] \in Row
        /\ count[r] \in Nat
        /\ count[r] = Cardinality(Occupied(slots[r]))
    BY RowType DEF CountInv, CountIsOccupied
  <1>2. QED
    BY <1>1, RowWithFillsOneSlot

LEMMA EmptiedRow ==
  ASSUME CountInv, status = "running", NEW r \in Registries, NEW o \in Objects, Owns(r, o)
  PROVE  /\ RowWithout(slots[r], o) \in Row
         /\ \E k \in Slots : /\ slots[r][k] = o
                             /\ RowWithout(slots[r], o) = [slots[r] EXCEPT ![k] = NoObject]
         /\ count[r] - 1 \in Nat
         /\ count[r] - 1 = Cardinality(Occupied(RowWithout(slots[r], o)))
  <1>1. /\ slots[r] \in Row
        /\ count[r] \in Nat
        /\ count[r] = Cardinality(Occupied(slots[r]))
    BY RowType DEF CountInv, CountIsOccupied
  <1>2. Holding(slots[r], o) # {}
    BY DEF Owns
  <1>3. QED
    BY <1>1, <1>2, RowWithoutEmptiesOneSlot

LEMMA AllocateKeepsCount ==
  ASSUME CountInv, NEW r \in Registries, NEW o \in Objects, Allocate(r, o)
  PROVE  CountInv'
  <1>1. /\ status = "running"
        /\ status' = status
        /\ count[r] # Capacity
        /\ slots' = [slots EXCEPT ![r] = RowWith(slots[r], o)]
        /\ count' = [count EXCEPT ![r] = count[r] + 1]
        /\ allocated' = allocated \cup {o}
        /\ noDestroy' \subseteq noDestroy \cup {o}
        /\ destroyed' = destroyed
        /\ destroyedAgain' = destroyedAgain
        /\ errorTraps' = errorTraps
    BY DEF Allocate
  <1>2. PICK k \in Slots : RowWith(slots[r], o) = [slots[r] EXCEPT ![k] = o]
    BY <1>1, FilledRow
  <1>3. /\ RowWith(slots[r], o) \in Row
        /\ count[r] + 1 \in Nat
        /\ count[r] + 1 = Cardinality(Occupied(RowWith(slots[r], o)))
    BY <1>1, FilledRow
  <1>4. TypeOK'
    BY <1>1, <1>3 DEF CountInv, TypeOK, Row
  <1>5. CountIsOccupied'
    BY <1>1, <1>3 DEF CountInv, TypeOK, CountIsOccupied
  <1>6. HeldAreAllocated'
    BY <1>1, <1>2 DEF CountInv, TypeOK, HeldAreAllocated
  <1>7. QED
    BY <1>4, <1>5, <1>6 DEF CountInv

LEMMA MoveKeepsCount ==
  ASSUME CountInv, NEW target \in Registries, NEW source \in Registries, NEW o \in Objects,
         Move(target, source, o)
  PROVE  CountInv'
  <1>1. /\ status = "running"
        /\ target # source
        /\ o \in allocated
        /\ allocated' = allocated
        /\ noDestroy' = noDestroy
        /\ destroyed' = destroyed
        /\ destroyedAgain' = destroyedAgain
        /\ errorTraps' = errorTraps
    BY DEF Move
  <1>2. status' \in {"running", "trap", "fault"}
    BY <1>1 DEF Move, MoveOwned, MoveToFull, MoveNotOwned, Trap
  <1>3. CASE MoveOwned(target, source, o)
    <2>1. /\ slots' = [slots EXCEPT ![source] = RowWithout(slots[source], o), ![target] = RowWith(slots[target], o)]
          /\ count' = [count EXCEPT ![source] = count[source] - 1, ![target] = count[target] + 1]
          /\ status' = status
          /\ Owns(source, o)
          /\ count[target] # Capacity
      BY <1>1, <1>3 DEF MoveOwned, CountInv, TypeOK
    <2>2. /\ RowWith(slots[target], o) \in Row
          /\ count[target] + 1 \in Nat
          /\ count[target] + 1 = Cardinality(Occupied(RowWith(slots[target], o)))
      BY <1>1, <2>1, FilledRow
    <2>3. /\ RowWithout(slots[source], o) \in Row
          /\ count[source] - 1 \in Nat
          /\ count[source] - 1 = Cardinality(Occupied(RowWithout(slots[source], o)))
      BY <1>1, <2>1, EmptiedRow
    <2>4. PICK k \in Slots : RowWith(slots[target], o) = [slots[target] EXCEPT ![k] = o]
      BY <1>1, <2>1, FilledRow
    <2>5. PICK l \in Slots : /\ slots[source][l] = o
                             /\ RowWithout(slots[source], o) = [slots[source] EXCEPT ![l] = NoObject]
      <3>1. status = "running" /\ Owns(source, o)
        BY <1>1, <2>1
      <3>2. QED
        BY <3>1, EmptiedRow
    <2>6. TypeOK'
      BY <1>1, <1>2, <2>1, <2>2, <2>3 DEF CountInv, TypeOK, Row
    <2>7. CountIsOccupied'
      BY <1>1, <2>1, <2>2, <2>3 DEF CountInv, TypeOK, CountIsOccupied
    <2>8. HeldAreAllocated'
      BY <1>1, <2>1, <2>4, <2>5 DEF CountInv, TypeOK, HeldAreAllocated
    <2>9. QED
      BY <2>6, <2>7, <2>8 DEF CountInv
  <1>4. CASE MoveToFull(target, source, o)
    <2>1. /\ slots' = [slots EXCEPT ![source] = RowWithout(slots[source], o)]
          /\ count' = [count EXCEPT ![source] = count[source] - 1]
          /\ Owns(source, o)
      BY <1>4 DEF MoveToFull
    <2>2. /\ RowWithout(slots[source], o) \in Row
          /\ count[source] - 1 \in Nat
          /\ count[source] - 1 = Cardinality(Occupied(RowWithout(slots[source], o)))
      BY <1>1, <2>1, EmptiedRow
    <2>3. PICK l \in Slots : RowWithout(slots[source], o) = [slots[source] EXCEPT ![l] = NoObject]
      BY <1>1, <2>1, EmptiedRow
    <2>4. TypeOK'
      BY <1>1, <1>2, <2>1, <2>2 DEF CountInv, TypeOK, Row
    <2>5. CountIsOccupied'
      BY <1>1, <2>1, <2>2 DEF CountInv, TypeOK, CountIsOccupied
    <2>6. HeldAreAllocated'
      BY <1>1, <2>1, <2>3 DEF CountInv, TypeOK, HeldAreAllocated
    <2>7. QED
      BY <2>4, <2>5, <2>6 DEF CountInv
  <1>5. CASE MoveNotOwned(target, source, o)
    <2>1. CASE errorTraps \/ count[target] = Capacity
      BY <1>1, <1>2, <1>5, <2>1 DEF MoveNotOwned, CountInv, TypeOK, CountIsOccupied, HeldAreAllocated
    <2>2. CASE ~(errorTraps \/ count[target] = Capacity)
      <3>1. /\ slots' = [slots EXCEPT ![target] = RowWith(slots[target], o)]
            /\ count' = [count EXCEPT ![target] = count[target] + 1]
            /\ count[target] # Capacity
        BY <1>5, <2>2 DEF MoveNotOwned
      <3>2. /\ RowWith(slots[target], o) \in Row
            /\ count[target] + 1 \in Nat
            /\ count[target] + 1 = Cardinality(Occupied(RowWith(slots[target], o)))
        BY <1>1, <3>1, FilledRow
      <3>3. PICK k \in Slots : RowWith(slots[target], o) = [slots[target] EXCEPT ![k] = o]
        BY <1>1, <3>1, FilledRow
      <3>4. TypeOK'
        BY <1>1, <1>2, <3>1, <3>2 DEF CountInv, TypeOK, Row
      <3>5. CountIsOccupied'
        BY <1>1, <3>1, <3>2 DEF CountInv, TypeOK, CountIsOccupied
      <3>6. HeldAreAllocated'
        BY <1>1, <3>1, <3>3 DEF CountInv, TypeOK, HeldAreAllocated
      <3>7. QED
        BY <3>4, <3>5, <3>6 DEF CountInv
    <2>3. QED
      BY <2>1, <2>2
  <1>6. QED
    BY <1>3, <1>4, <1>5 DEF Move

LEMMA ResetKeepsCount ==
  ASSUME CountInv, NEW r \in Registries, Reset(r)
  PROVE  CountInv'
  <1>1. /\ status = "running"
        /\ status' = status
        /\ DestroySlots(r, Slots, Slots)
        /\ count' = [count EXCEPT ![r] = 0]
        /\ allocated' = allocated
        /\ noDestroy' = noDestroy
        /\ errorTraps' = errorTraps
    BY DEF Reset
  <1>2. /\ slots' \in [Registries -> Row]
        /\ \A s \in Registries : \A i \in Slots :
             slots'[s][i] = IF s = r /\ i \in Slots THEN NoObject ELSE slots[s][i]
        /\ destroyed' \subseteq allocated
        /\ destroyedAgain' \subseteq destroyed'
    BY <1>1, DestroySlotsRows
  <1>3. TypeOK'
    BY <1>1, <1>2 DEF CountInv, TypeOK, Row
  <1>4. ASSUME NEW s \in Registries
        PROVE  count'[s] = Cardinality(Occupied(slots'[s]))
    <2>1. CASE s = r
      <3>1. Cardinality(Occupied(slots'[s])) = 0
        BY <1>2, <2>1, EmptyRow
      <3>2. QED
        BY <1>1, <2>1, <3>1 DEF CountInv, TypeOK
    <2>2. CASE s # r
      <3>1. slots'[s] = slots[s] /\ count'[s] = count[s]
        BY <1>1, <2>2 DEF DestroySlots, CountInv, TypeOK
      <3>2. QED
        BY <1>1, <3>1 DEF CountInv, CountIsOccupied
    <2>3. QED
      BY <2>1, <2>2
  <1>5. HeldAreAllocated'
    BY <1>1, <1>2 DEF CountInv, HeldAreAllocated
  <1>6. QED
    BY <1>3, <1>4, <1>5 DEF CountInv, CountIsOccupied

LEMMA ResetStopsKeepsCount ==
  ASSUME CountInv, NEW r \in Registries, NEW i \in Slots, ResetStops(r, i)
  PROVE  CountInv'
  <1>1. /\ status' \in {"trap", "fault"}
        /\ count' = count
        /\ allocated' = allocated
        /\ noDestroy' = noDestroy
        /\ errorTraps' = errorTraps
    BY DEF ResetStops
  <1>2. PICK from \in SUBSET Slots : \E emptied : DestroySlots(r, from, emptied)
    <2>1. 1 .. (i - 1) \in SUBSET Slots /\ 1 .. i \in SUBSET Slots
      BY CapacityAssumption DEF Slots
    <2>2. QED
      BY <2>1 DEF ResetStops
  <1>3. /\ slots' \in [Registries -> Row]
        /\ \A s \in Registries : \A j \in Slots : slots'[s][j] \in {NoObject, slots[s][j]}
        /\ destroyed' \subseteq allocated
        /\ destroyedAgain' \subseteq destroyed'
    BY <1>2, DestroySlotsRows
  <1>4. QED
    BY <1>1, <1>3 DEF CountInv, TypeOK, CountIsOccupied, HeldAreAllocated, Row

LEMMA NextCountInv == CountInv /\ [Next]_vars => CountInv'
  <1> SUFFICES ASSUME CountInv, [Next]_vars PROVE CountInv'
    OBVIOUS
  <1>1. ASSUME NEW r \in Registries, AllocateFull(r) PROVE CountInv'
    BY <1>1 DEF AllocateFull, Trap, CountInv, TypeOK, CountIsOccupied, HeldAreAllocated
  <1>2. CASE UNCHANGED vars
    BY <1>2 DEF vars, CountInv, TypeOK, CountIsOccupied, HeldAreAllocated
  <1>3. CASE Halt
    BY <1>3 DEF Halt, CountInv, TypeOK, CountIsOccupied, HeldAreAllocated
  <1>4. QED
    BY <1>1, <1>2, <1>3, AllocateKeepsCount, MoveKeepsCount, ResetKeepsCount, ResetStopsKeepsCount DEF Next

-----------------------------------------------------------------------------
(* Who owns what, in the builds where CLOG_ERROR stops the process.          *)

(* A registry only holds objects that nobody destroyed.                      *)
HeldAreLive ==
  status = "running" => \A r \in Registries : \A i \in Slots : slots[r][i] \notin destroyed

(* The inductive invariant. *)
OwnInv ==
  /\ CountInv
  /\ InOneSlot
  /\ HeldAreLive
  /\ LiveAreHeld
  /\ NoneDestroyedAgain

LEMMA InitOwnInv == Init => OwnInv
  BY InitCountInv, NoObjectAssumption
  DEF Init, OwnInv, InOneSlot, HeldAreLive, LiveAreHeld, NoneDestroyedAgain, Live

(* LiveAreHeld, slot by slot. *)
LEMMA LiveBySlot ==
  LiveAreHeld <=> (status = "running" => \A o \in Live : \E r \in Registries : \E i \in Slots : slots[r][i] = o)
  BY DEF LiveAreHeld, Owns, Holding

LEMMA AllocateKeepsOwners ==
  ASSUME OwnInv, NEW r \in Registries, NEW o \in Objects, Allocate(r, o)
  PROVE  OwnInv'
  <1>1. CountInv'
    BY AllocateKeepsCount DEF OwnInv
  <1>2. /\ status = "running"
        /\ status' = status
        /\ o \notin allocated
        /\ count[r] # Capacity
        /\ slots' = [slots EXCEPT ![r] = RowWith(slots[r], o)]
        /\ allocated' = allocated \cup {o}
        /\ destroyed' = destroyed
        /\ destroyedAgain' = destroyedAgain
    BY DEF Allocate
  <1>3. PICK k \in Slots : /\ slots[r][k] = NoObject
                           /\ RowWith(slots[r], o) = [slots[r] EXCEPT ![k] = o]
    BY <1>2, FilledRow DEF OwnInv
  <1>4. \A s \in Registries : \A i \in Slots :
          slots'[s][i] = IF s = r /\ i = k THEN o ELSE slots[s][i]
    BY <1>2, <1>3 DEF OwnInv, CountInv, TypeOK
  <1>5. \A s \in Registries : \A i \in Slots : slots[s][i] # o
    BY <1>2, NoObjectAssumption DEF OwnInv, CountInv, HeldAreAllocated
  <1>6. InOneSlot'
    BY <1>4, <1>5 DEF OwnInv, InOneSlot
  <1>7. HeldAreLive'
    BY <1>2, <1>4 DEF OwnInv, HeldAreLive, CountInv, TypeOK
  <1>8. LiveAreHeld'
    <2>1. ASSUME NEW x \in Live' PROVE \E s \in Registries : \E i \in Slots : slots'[s][i] = x
      <3>1. CASE x = o
        BY <1>4, <3>1
      <3>2. CASE x # o
        <4>1. x \in Live
          BY <1>2, <3>2 DEF Live
        <4>2. PICK s \in Registries, i \in Slots : slots[s][i] = x
          BY <1>2, <4>1, LiveBySlot DEF OwnInv
        <4>3. x # NoObject
          BY <2>1, <1>1, NoObjectAssumption DEF Live, CountInv, TypeOK
        <4>4. slots'[s][i] = x
          BY <1>3, <1>4, <4>2, <4>3
        <4>5. QED
          BY <4>4
      <3>3. QED
        BY <3>1, <3>2
    <2>2. QED
      BY <2>1 DEF LiveAreHeld, Owns, Holding
  <1>9. QED
    BY <1>1, <1>2, <1>6, <1>7, <1>8 DEF OwnInv, NoneDestroyedAgain

LEMMA MoveKeepsOwners ==
  ASSUME errorTraps, OwnInv, NEW target \in Registries, NEW source \in Registries, NEW o \in Objects,
         Move(target, source, o)
  PROVE  OwnInv'
  <1>1. CountInv'
    BY MoveKeepsCount DEF OwnInv
  <1>2. /\ status = "running"
        /\ target # source
        /\ o \in allocated
        /\ allocated' = allocated
        /\ destroyed' = destroyed
        /\ destroyedAgain' = destroyedAgain
    BY DEF Move
  <1>3. NoneDestroyedAgain'
    BY <1>2 DEF OwnInv, NoneDestroyedAgain
  <1>4. CASE MoveOwned(target, source, o)
    <2>1. /\ slots' = [slots EXCEPT ![source] = RowWithout(slots[source], o), ![target] = RowWith(slots[target], o)]
          /\ status' = status
          /\ Owns(source, o)
          /\ count[target] # Capacity
      BY <1>2, <1>4 DEF MoveOwned, OwnInv, CountInv, TypeOK
    <2>2. PICK k \in Slots : /\ slots[target][k] = NoObject
                             /\ RowWith(slots[target], o) = [slots[target] EXCEPT ![k] = o]
      BY <1>2, <2>1, FilledRow DEF OwnInv
    <2>3. PICK l \in Slots : /\ slots[source][l] = o
                             /\ RowWithout(slots[source], o) = [slots[source] EXCEPT ![l] = NoObject]
      <3>1. CountInv /\ status = "running" /\ Owns(source, o)
        BY <1>2, <2>1 DEF OwnInv
      <3>2. QED
        BY <3>1, EmptiedRow
    <2>4. \A s \in Registries : \A i \in Slots :
            slots'[s][i] = IF s = source /\ i = l THEN NoObject
                           ELSE IF s = target /\ i = k THEN o ELSE slots[s][i]
      BY <1>2, <2>1, <2>2, <2>3 DEF OwnInv, CountInv, TypeOK
    <2>5. o # NoObject
      BY NoObjectAssumption
    <2>6. \A s \in Registries : \A i \in Slots : slots[s][i] = o => s = source /\ i = l
      BY <2>3, <2>5 DEF OwnInv, InOneSlot
    <2>7. InOneSlot'
      BY <2>4, <2>6 DEF OwnInv, InOneSlot
    <2>8. HeldAreLive'
      <3>1. o \notin destroyed /\ NoObject \notin destroyed
        BY <1>2, <2>3, NoObjectAssumption DEF OwnInv, HeldAreLive, CountInv, TypeOK
      <3>2. ASSUME NEW s \in Registries, NEW i \in Slots PROVE slots'[s][i] \notin destroyed
        <4>1. slots[s][i] \notin destroyed
          BY <1>2 DEF OwnInv, HeldAreLive
        <4>2. QED
          BY <2>4, <3>1, <4>1
      <3>3. QED
        BY <1>2, <3>2 DEF HeldAreLive
    <2>9. LiveAreHeld'
      <3>1. ASSUME NEW x \in Live PROVE \E s \in Registries : \E i \in Slots : slots'[s][i] = x
        <4>1. CASE x = o
          BY <1>2, <2>4, <4>1
        <4>2. CASE x # o
          <5>1. PICK s \in Registries, i \in Slots : slots[s][i] = x
            BY <1>2, LiveBySlot DEF OwnInv
          <5>2. x # NoObject
            BY NoObjectAssumption DEF Live, OwnInv, CountInv, TypeOK
          <5>3. slots'[s][i] = x
            BY <2>2, <2>3, <2>4, <4>2, <5>1, <5>2
          <5>4. QED
            BY <5>3
        <4>3. QED
          BY <4>1, <4>2
      <3>2. Live' = Live
        BY <1>2 DEF Live
      <3>3. QED
        BY <3>1, <3>2 DEF LiveAreHeld, Owns, Holding
    <2>10. QED
      BY <1>1, <1>3, <2>7, <2>8, <2>9 DEF OwnInv
  <1>5. CASE MoveToFull(target, source, o)
    <2>1. /\ slots' = [slots EXCEPT ![source] = RowWithout(slots[source], o)]
          /\ status' = "trap"
          /\ Owns(source, o)
      BY <1>5 DEF MoveToFull, Trap
    <2>2. PICK l \in Slots : /\ slots[source][l] = o
                             /\ RowWithout(slots[source], o) = [slots[source] EXCEPT ![l] = NoObject]
      <3>1. CountInv /\ status = "running" /\ Owns(source, o)
        BY <1>2, <2>1 DEF OwnInv
      <3>2. QED
        BY <3>1, EmptiedRow
    <2>3. \A s \in Registries : \A i \in Slots :
            slots'[s][i] = IF s = source /\ i = l THEN NoObject ELSE slots[s][i]
      BY <2>1, <2>2 DEF OwnInv, CountInv, TypeOK
    <2>4. InOneSlot'
      BY <2>3 DEF OwnInv, InOneSlot
    <2>5. QED
      BY <1>1, <1>3, <2>1, <2>4 DEF OwnInv, HeldAreLive, LiveAreHeld
  <1>6. CASE MoveNotOwned(target, source, o)
    BY <1>1, <1>2, <1>3, <1>6 DEF MoveNotOwned, Trap, OwnInv, InOneSlot, HeldAreLive, LiveAreHeld
  <1>7. QED
    BY <1>4, <1>5, <1>6 DEF Move

(* Each object in slots of one registry is destroyed once, because it was in *)
(* no other slot and had not been destroyed before; none is held any more if *)
(* all of the slots are emptied.                                             *)
LEMMA DestroySlotsOnce ==
  ASSUME OwnInv, status = "running", NEW r \in Registries, NEW from \in SUBSET Slots,
         NEW emptied, DestroySlots(r, from, emptied)
  PROVE  /\ InOneSlot'
         /\ NoneDestroyedAgain'
         /\ emptied = from =>
              \A s \in Registries : \A i \in Slots : slots'[s][i] \notin destroyed'
  <1>1. /\ \A s \in Registries : \A i \in Slots :
             slots'[s][i] = IF s = r /\ i \in emptied THEN NoObject ELSE slots[s][i]
        /\ destroyed' = destroyed \cup ({slots[r][i] : i \in from} \ {NoObject})
        /\ destroyed' \subseteq allocated
    BY DestroySlotsRows DEF OwnInv
  <1>2. InOneSlot'
    BY <1>1 DEF OwnInv, InOneSlot
  <1>3. ASSUME NEW o \in {slots[r][i] : i \in from} \ {NoObject}
        PROVE  o \notin destroyed /\ ~(Cardinality(Holding(slots[r], o) \cap from) > 1)
    <2>1. PICK k \in from : slots[r][k] = o
      BY <1>3
    <2>2. Holding(slots[r], o) \cap from = {k}
      BY <1>3, <2>1 DEF OwnInv, InOneSlot, Holding
    <2>3. Cardinality({k}) = 1
      BY FS_Singleton
    <2>4. o \notin destroyed
      BY <2>1 DEF OwnInv, HeldAreLive
    <2>5. QED
      BY <2>2, <2>3, <2>4
  <1>4. NoneDestroyedAgain'
    BY <1>3 DEF DestroySlots, OwnInv, NoneDestroyedAgain
  <1>5. ASSUME emptied = from, NEW s \in Registries, NEW i \in Slots
        PROVE  slots'[s][i] \notin destroyed'
    <2>1. CASE s = r /\ i \in from
      <3>1. NoObject \notin destroyed'
        BY <1>1, NoObjectAssumption DEF OwnInv, CountInv, TypeOK
      <3>2. QED
        BY <1>1, <1>5, <2>1, <3>1
    <2>2. CASE ~(s = r /\ i \in from)
      <3>1. slots'[s][i] = slots[s][i] /\ slots[s][i] \notin destroyed
        BY <1>1, <1>5, <2>2 DEF OwnInv, HeldAreLive
      <3>2. slots[s][i] \notin {slots[r][j] : j \in from} \ {NoObject}
        BY <2>2 DEF OwnInv, InOneSlot
      <3>3. QED
        BY <1>1, <3>1, <3>2
    <2>3. QED
      BY <2>1, <2>2
  <1>6. QED
    BY <1>2, <1>4, <1>5

LEMMA ResetKeepsOwners ==
  ASSUME OwnInv, NEW r \in Registries, Reset(r)
  PROVE  OwnInv'
  <1>1. CountInv'
    BY ResetKeepsCount DEF OwnInv
  <1>2. /\ status = "running"
        /\ status' = status
        /\ allocated' = allocated
        /\ DestroySlots(r, Slots, Slots)
    BY DEF Reset
  <1>3. /\ InOneSlot'
        /\ NoneDestroyedAgain'
        /\ \A s \in Registries : \A i \in Slots : slots'[s][i] \notin destroyed'
    BY <1>2, DestroySlotsOnce
  <1>4. /\ \A s \in Registries : \A i \in Slots :
             slots'[s][i] = IF s = r /\ i \in Slots THEN NoObject ELSE slots[s][i]
        /\ destroyed' = destroyed \cup ({slots[r][i] : i \in Slots} \ {NoObject})
    BY <1>2, DestroySlotsRows DEF OwnInv
  <1>5. LiveAreHeld'
    <2>1. ASSUME NEW x \in Live' PROVE \E s \in Registries : \E i \in Slots : slots'[s][i] = x
      <3>1. x \in Live /\ x # NoObject /\ x \notin {slots[r][i] : i \in Slots}
        BY <1>2, <1>4, NoObjectAssumption DEF Live, OwnInv, CountInv, TypeOK
      <3>2. PICK s \in Registries, i \in Slots : slots[s][i] = x
        BY <1>2, <3>1, LiveBySlot DEF OwnInv
      <3>3. slots'[s][i] = x
        BY <1>4, <3>1, <3>2
      <3>4. QED
        BY <3>3
    <2>2. QED
      BY <2>1 DEF LiveAreHeld, Owns, Holding
  <1>6. QED
    BY <1>1, <1>3, <1>5 DEF OwnInv, HeldAreLive

LEMMA ResetStopsKeepsOwners ==
  ASSUME OwnInv, NEW r \in Registries, NEW i \in Slots, ResetStops(r, i)
  PROVE  OwnInv'
  <1>1. CountInv'
    BY ResetStopsKeepsCount DEF OwnInv
  <1>2. /\ status = "running"
        /\ status' \in {"trap", "fault"}
    BY DEF ResetStops
  <1>3. PICK from \in SUBSET Slots : \E emptied : DestroySlots(r, from, emptied)
    <2>1. 1 .. (i - 1) \in SUBSET Slots /\ 1 .. i \in SUBSET Slots
      BY CapacityAssumption DEF Slots
    <2>2. QED
      BY <2>1 DEF ResetStops
  <1>4. InOneSlot' /\ NoneDestroyedAgain'
    BY <1>2, <1>3, DestroySlotsOnce
  <1>5. QED
    BY <1>1, <1>2, <1>4 DEF OwnInv, HeldAreLive, LiveAreHeld

LEMMA NextOwnInv == errorTraps /\ OwnInv /\ [Next]_vars => OwnInv'
  <1> SUFFICES ASSUME errorTraps, OwnInv, [Next]_vars PROVE OwnInv'
    OBVIOUS
  <1>1. CountInv'
    BY NextCountInv DEF OwnInv
  <1>2. ASSUME NEW r \in Registries, AllocateFull(r) PROVE OwnInv'
    BY <1>1, <1>2 DEF AllocateFull, Trap, OwnInv, InOneSlot, HeldAreLive, LiveAreHeld, NoneDestroyedAgain
  <1>3. CASE UNCHANGED vars
    <2>1. Live' = Live /\ \A r \in Registries : \A o : Owns(r, o)' = Owns(r, o)
      BY <1>3 DEF vars, Live, Owns
    <2>2. QED
      BY <1>1, <1>3, <2>1 DEF vars, OwnInv, InOneSlot, HeldAreLive, LiveAreHeld, NoneDestroyedAgain
  <1>4. CASE Halt
    BY <1>1, <1>4 DEF Halt, OwnInv, InOneSlot, HeldAreLive, LiveAreHeld, NoneDestroyedAgain
  <1>5. QED
    BY <1>2, <1>3, <1>4, AllocateKeepsOwners, MoveKeepsOwners, ResetKeepsOwners, ResetStopsKeepsOwners DEF Next

-----------------------------------------------------------------------------
(* The count of a registry is the number of its occupied slots, in every     *)
(* build and whatever the host moves where: the scans of Allocate and Add    *)
(* that trust it never run off the end of the array.                         *)
THEOREM CountsAreRight == Spec => []CountIsOccupied
  <1>1. CountInv => CountIsOccupied
    BY DEF CountInv
  <1>2. QED
    BY <1>1, InitCountInv, NextCountInv, PTL DEF Spec

(* The type invariant, in every build.                                       *)
THEOREM TypeCorrect == Spec => []TypeOK
  <1>1. CountInv => TypeOK
    BY DEF CountInv
  <1>2. QED
    BY <1>1, InitCountInv, NextCountInv, PTL DEF Spec

LEMMA BuildIsFixed == [Next]_vars => UNCHANGED errorTraps
  BY DEF Next, vars, AllocateFull, Allocate, Move, Reset, ResetStops, Halt

(* The inductive invariant of ownership: CLOG_ERROR that only logs lets an   *)
(* object be lost or added a second time.                                    *)
LEMMA OwnInvariant == Spec => [](errorTraps => OwnInv)
  <1>1. Init => (errorTraps => OwnInv)
    BY InitOwnInv
  <1>2. (errorTraps => OwnInv) /\ [Next]_vars => (errorTraps => OwnInv)'
    BY NextOwnInv, BuildIsFixed
  <1>3. QED
    BY <1>1, <1>2, PTL DEF Spec

(* Where CLOG_ERROR stops the process, no object is ever in two slots.       *)
THEOREM ObjectsHaveOneOwner == Spec => []OneOwner
  <1>1. (errorTraps => OwnInv) => OneOwner
    BY DEF OwnInv, OneOwner
  <1>2. QED
    BY <1>1, OwnInvariant, PTL

(* There, no live object is ever without an owner: nothing leaks.            *)
THEOREM ObjectsAreNotLost == Spec => []NoneLost
  <1>1. (errorTraps => OwnInv) => NoneLost
    BY DEF OwnInv, NoneLost
  <1>2. QED
    BY <1>1, OwnInvariant, PTL

(* There, no object is ever destroyed twice.                                 *)
THEOREM ObjectsDestroyedAtMostOnce == Spec => []DestroyedAtMostOnce
  <1>1. (errorTraps => OwnInv) => DestroyedAtMostOnce
    BY DEF OwnInv, DestroyedAtMostOnce
  <1>2. QED
    BY <1>1, OwnInvariant, PTL

(* There, no registry ever holds an object that is already freed.            *)
THEOREM FreedObjectsAreNotHeld == Spec => []NoFreedObjectHeld
  <1>1. (errorTraps => OwnInv) => NoFreedObjectHeld
    BY DEF OwnInv, HeldAreLive, NoFreedObjectHeld, Owns, Holding
  <1>2. QED
    BY <1>1, OwnInvariant, PTL

=============================================================================
