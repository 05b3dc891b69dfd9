---------------------------- MODULE Compact_proofs ----------------------------
(***************************************************************************)
(* Proofs about memory reclamation, for every program: whatever its types, *)
(* values, arenas, registries and bounds are.                              *)
(***************************************************************************)
EXTENDS Compact, FiniteSetTheorems, SequenceTheorems, WellFoundedInduction, TLAPS

Shared == INSTANCE UnmanagedMemory_proofs WITH Registries <- Arenas, errorTraps <- ErrorTraps

-----------------------------------------------------------------------------
(* The other arena is another arena.                                        *)
LEMMA OtherArena ==
  ASSUME NEW a \in Arenas
  PROVE  Other(a) \in Arenas /\ Other(a) # a
  <1>1. IsFiniteSet(Arenas) /\ Cardinality(Arenas) = 2
    BY ArenasAssumption
  <1>2. Cardinality(Arenas \ {a}) = 1
    BY <1>1, FS_RemoveElement
  <1>3. PICK b : b \in Arenas \ {a}
    BY <1>1, <1>2, FS_RemoveElement, FS_EmptySet
  <1>4. QED
    BY <1>3 DEF Other

(* What the steps of the registries need to know of those of Compact.       *)
OwnersInv == current \in Arenas /\ allocated \subseteq Objects

(* A step of Compact is a step of the registries, a stop of the process or  *)
(* neither.                                                                 *)
LEMMA StepOfRegistry ==
  OwnersInv /\ [Next]_vars => OwnersInv' /\ [Registry!Next]_(Registry!vars)
  <1> SUFFICES ASSUME OwnersInv, [Next]_vars PROVE OwnersInv' /\ [Registry!Next]_(Registry!vars)
    OBVIOUS
  <1> USE DEF registryVars
  <1>1. current \in Arenas /\ target \in Arenas /\ target # current /\ allocated \subseteq Objects
    BY OtherArena DEF OwnersInv, target
  <1>2. ASSUME UNCHANGED <<current, registryVars>>,
               status' = status \/ (status = "running" /\ status' \in {"trap", "abort", "fault"})
        PROVE  OwnersInv' /\ [Registry!Next]_(Registry!vars)
    BY <1>1, <1>2 DEF OwnersInv, Registry!vars, Registry!Next, Registry!Halt
  <1>3. CASE UNCHANGED vars
    BY <1>2, <1>3 DEF vars, loopVars
  <1>4. ASSUME NEW cell, Allocate(cell), status = "running"
        PROVE  OwnersInv' /\ [Registry!Next]_(Registry!vars)
    BY <1>2, <1>4 DEF Allocate, Overrun
  <1>5. ASSUME NEW t \in Types, NewList(t) \/ NewEmptyList(t) \/ \E c \in Characters : NewOctets(t, c)
        PROVE  OwnersInv' /\ [Registry!Next]_(Registry!vars)
    BY <1>4, <1>5 DEF NewList, NewEmptyList, NewOctets, InMain
  <1>6. ASSUME NEW o \in Objects, NEW r \in Arenas, Registry!Allocate(r, o), current' = current
        PROVE  OwnersInv' /\ [Registry!Next]_(Registry!vars)
    BY <1>1, <1>6 DEF OwnersInv, Registry!Next, Registry!Allocate
  <1>7. ASSUME NEW o \in Objects, NewObject(o) PROVE OwnersInv' /\ [Registry!Next]_(Registry!vars)
    BY <1>1, <1>6, <1>7 DEF NewObject
  <1>8. CASE Return \/ Retry \/ Finish
    BY <1>2, <1>8 DEF Return, Retry, Finish
  <1>9. ASSUME NEW clone \in BOOLEAN, Begin(clone) PROVE OwnersInv' /\ [Registry!Next]_(Registry!vars)
    BY <1>2, <1>9 DEF Begin, BeginRefused, BeginCopy, Trap, Overrun
  <1>10. CASE Walk
    <2>1. status = "running" /\ current' = current
      BY <1>10 DEF Walk, Walking
    <2>2. ASSUME UNCHANGED registryVars,
                 \/ StorePointer
                 \/ VisitScalar \/ VisitRecord \/ VisitCustom \/ VisitNoVariant \/ VisitAlias
                 \/ VisitUnsupported \/ VisitFunction \/ VisitOctets \/ VisitList \/ CopyStops \/ VisitFreed
          PROVE  OwnersInv' /\ [Registry!Next]_(Registry!vars)
      <3>1. CASE VisitUnsupported \/ VisitNoVariant \/ CopyStops \/ VisitFreed
        BY <1>2, <2>1, <2>2, <3>1 DEF VisitUnsupported, VisitNoVariant, CopyStops, VisitFreed, Overrun, Trap
      <3>2. CASE VisitOctets \/ VisitList
        BY <1>2, <2>1, <2>2, <3>2 DEF VisitOctets, VisitList, CopyCell
      <3>3. CASE StorePointer \/ VisitScalar \/ VisitRecord \/ VisitCustom \/ VisitAlias \/ VisitFunction
        BY <1>2, <2>1, <2>2, <3>3 DEF StorePointer, VisitScalar, VisitRecord, VisitCustom, VisitAlias, VisitFunction
      <3>4. QED
        BY <2>2, <3>1, <3>2, <3>3
    <2>3. CASE MoveUnmanaged
      <3>1. Registry!Move(target, current, value)
        BY <2>3 DEF MoveUnmanaged
      <3>2. value \in Objects /\ allocated' = allocated
        BY <1>1, <3>1 DEF Registry!Move
      <3>3. QED
        BY <1>1, <2>1, <3>1, <3>2 DEF OwnersInv, Registry!Next
    <2>4. ASSUME NEW o \in Objects, CloneUnmanaged(o)
          PROVE  OwnersInv' /\ [Registry!Next]_(Registry!vars)
      BY <1>1, <1>6, <2>1, <2>4 DEF CloneUnmanaged
    <2>5. CASE CloneFails
      BY <1>1, <2>1, <2>5 DEF CloneFails, OwnersInv, Registry!Next, Registry!AllocateFull
    <2>6. QED
      BY <1>10, <2>2, <2>3, <2>4, <2>5 DEF Walk
  <1>11. CASE Swap
    BY <1>1, <1>11 DEF Swap, OwnersInv, Registry!Next, Registry!Reset, Registry!ResetStops
  <1>12. QED
    BY <1>3, <1>5, <1>7, <1>8, <1>9, <1>10, <1>11 DEF Next

(* Compact and the proofs of UnmanagedMemory speak of the same registries.  *)
LEMMA SameSlots ==
  /\ Registry!Slots = Shared!Slots
  /\ Registry!Live = Shared!Live
  /\ \A row, o : Registry!Holding(row, o) = Shared!Holding(row, o)
  /\ \A row, o : Registry!RowWith(row, o) = Shared!RowWith(row, o)
  /\ \A row, o : Registry!RowWithout(row, o) = Shared!RowWithout(row, o)
  /\ \A row : Registry!Occupied(row) = Shared!Occupied(row)
  /\ \A r, o : Registry!Owns(r, o) = Shared!Owns(r, o)
  <1>1. Registry!Slots = Shared!Slots /\ Registry!Live = Shared!Live
    BY DEF Registry!Slots, Shared!Slots, Registry!Live, Shared!Live
  <1>2. /\ \A row, o : Registry!Holding(row, o) = Shared!Holding(row, o)
        /\ \A row : Registry!Occupied(row) = Shared!Occupied(row)
    BY <1>1 DEF Registry!Holding, Shared!Holding, Registry!Occupied, Shared!Occupied
  <1>3. \A r, o : Registry!Owns(r, o) = Shared!Owns(r, o)
    BY <1>2 DEF Registry!Owns, Shared!Owns
  <1>4. \A row, o : Registry!FirstHolding(row, o) = Shared!FirstHolding(row, o)
    BY <1>2 DEF Registry!FirstHolding, Shared!FirstHolding, Registry!Min, Shared!Min
  <1>5. /\ \A row, o : Registry!RowWith(row, o) = Shared!RowWith(row, o)
        /\ \A row, o : Registry!RowWithout(row, o) = Shared!RowWithout(row, o)
    BY <1>4 DEF Registry!RowWith, Shared!RowWith, Registry!RowWithout, Shared!RowWithout
  <1>6. QED
    BY <1>1, <1>2, <1>3, <1>5

LEMMA SameMoves ==
  ASSUME NEW r, NEW s, NEW o
  PROVE  Registry!Move(r, s, o) <=> Shared!Move(r, s, o)
  BY SameSlots DEF Registry!Move, Shared!Move, Registry!MoveOwned, Shared!MoveOwned,
     Registry!MoveToFull, Shared!MoveToFull, Registry!MoveNotOwned, Shared!MoveNotOwned,
     Registry!Trap, Shared!Trap

LEMMA SameAllocations ==
  ASSUME NEW r, NEW o
  PROVE  /\ Registry!Allocate(r, o) <=> Shared!Allocate(r, o)
         /\ Registry!AllocateFull(r) <=> Shared!AllocateFull(r)
  BY SameSlots DEF Registry!Allocate, Shared!Allocate, Registry!AllocateFull, Shared!AllocateFull,
     Registry!Trap, Shared!Trap

LEMMA SameResets ==
  ASSUME NEW r, NEW i
  PROVE  /\ Registry!Reset(r) <=> Shared!Reset(r)
         /\ Registry!ResetStops(r, i) <=> Shared!ResetStops(r, i)
  <1>1. ASSUME NEW from, NEW emptied
        PROVE  Registry!DestroySlots(r, from, emptied) <=> Shared!DestroySlots(r, from, emptied)
    <2>1. Registry!Slots = Shared!Slots /\ \A o : Registry!Holding(slots[r], o) = Shared!Holding(slots[r], o)
      BY SameSlots
    <2>2. \A S : Registry!Cardinality(S) = Shared!Cardinality(S)
      BY DEF Registry!Cardinality, Shared!Cardinality
    <2>3. \A o : Registry!Cardinality(Registry!Holding(slots[r], o) \cap from)
                 = Shared!Cardinality(Shared!Holding(slots[r], o) \cap from)
      BY <2>1, <2>2
    <2>4. QED
      BY <2>1, <2>3 DEF Registry!DestroySlots, Shared!DestroySlots
  <1>2. QED
    BY <1>1, SameSlots DEF Registry!Reset, Shared!Reset, Registry!ResetStops, Shared!ResetStops

LEMMA SameSteps == [Registry!Next]_(Registry!vars) => [Shared!Next]_(Shared!vars)
  <1>1. Registry!Halt <=> Shared!Halt
    BY DEF Registry!Halt, Shared!Halt
  <1>2. (UNCHANGED Registry!vars) <=> UNCHANGED Shared!vars
    BY DEF Registry!vars, Shared!vars
  <1>3. Registry!Next => Shared!Next
    BY <1>1, SameSlots, SameMoves, SameAllocations, SameResets DEF Registry!Next, Shared!Next
  <1>4. QED
    BY <1>2, <1>3

(* The inductive invariant: who owns what, as the registries alone keep it. *)
SoundInv == OwnersInv /\ Shared!OwnInv

(* It holds at the start.                                                  *)
LEMMA InitSoundInv == Init => SoundInv
  <1>1. Init => OwnersInv
    BY DEF Init, OwnersInv, Registry!Init
  <1>2. Init => Shared!Init
    BY SameSlots DEF Init, Registry!Init, Shared!Init
  <1>3. QED
    BY <1>1, <1>2, RegistryAssumption, Shared!InitOwnInv DEF SoundInv

(* And every step keeps it.                                                 *)
LEMMA SoundInvariant ==
  ASSUME ErrorTraps
  PROVE  Spec => []SoundInv
  <1>1. Init => SoundInv
    BY InitSoundInv
  <1>2. SoundInv /\ [Next]_vars => SoundInv'
    BY StepOfRegistry, SameSteps, RegistryAssumption, Shared!NextOwnInv DEF SoundInv
  <1>3. QED
    BY <1>1, <1>2, PTL DEF Spec

(* Where CLOG_ERROR stops the process, whatever is compacted, cloned,       *)
(* swapped and retried, an object is in one registry, none is lost and none *)
(* is freed under the registry that holds it.                               *)
THEOREM RegistriesAreSound ==
  ASSUME ErrorTraps
  PROVE  Spec => []RegistryIsSound
  <1>1. SoundInv => RegistryIsSound
    <2> SUFFICES ASSUME SoundInv PROVE RegistryIsSound
      OBVIOUS
    <2>1. Shared!InOneSlot /\ Shared!LiveAreHeld /\ Shared!HeldAreLive
      BY DEF SoundInv, Shared!OwnInv
    <2>2. Registry!OneOwner /\ Registry!NoneLost
      BY <2>1, SameSlots DEF Shared!InOneSlot, Registry!OneOwner, Registry!InOneSlot,
         Shared!LiveAreHeld, Registry!NoneLost, Registry!LiveAreHeld
    <2>3. Registry!NoFreedObjectHeld
      BY <2>1, SameSlots DEF Registry!NoFreedObjectHeld, Shared!HeldAreLive, Shared!Owns, Shared!Holding
    <2>4. QED
      BY <2>2, <2>3 DEF RegistryIsSound
  <1>2. QED
    BY <1>1, SoundInvariant, PTL

-----------------------------------------------------------------------------
(* A copy writes to the target arena only.  The invariant says that every   *)
(* call still to be made is about a word of the target, and as much of the  *)
(* shape of the cells as the calls made from them need.                     *)
CellsInv ==
  \E W : mem \in [DOMAIN mem -> [type : Types, words : W, count : Nat, itemSize : Nat, itemAlign : Nat]]

TargetCall(c) == c.addr[1] = target /\ c.type \in Types

WorkInv == \E S : work \in Seq(S) /\ \A c \in S : TargetCall(c)

CopyInv ==
  /\ current \in Arenas
  /\ stateType \in StateTypes
  /\ CellsInv
  /\ WorkInv
  /\ phase # "walk" => work = << >>

(* Writing a word of a cell leaves the shape of all cells, and the cells of *)
(* another arena.                                                           *)
LEMMA WritingACell ==
  ASSUME NEW m, NEW W, NEW addr, NEW index, NEW x,
         m \in [DOMAIN m -> [type : Types, words : W, count : Nat, itemSize : Nat, itemAlign : Nat]]
  PROVE  /\ DOMAIN Written(m, addr, index, x) = DOMAIN m
         /\ \A y \in DOMAIN m : y # addr => Written(m, addr, index, x)[y] = m[y]
         /\ \E V : Written(m, addr, index, x) \in
              [DOMAIN m -> [type : Types, words : V, count : Nat, itemSize : Nat, itemAlign : Nat]]
  <1> DEFINE new == [m[addr].words EXCEPT ![index] = x]
  <1>1. DOMAIN Written(m, addr, index, x) = DOMAIN m
    BY DEF Written
  <1>2. \A y \in DOMAIN m : y # addr => Written(m, addr, index, x)[y] = m[y]
    BY DEF Written
  <1>3. ASSUME NEW y \in DOMAIN m
        PROVE  Written(m, addr, index, x)[y] \in
                 [type : Types, words : W \cup {new}, count : Nat, itemSize : Nat, itemAlign : Nat]
    <2>1. CASE y = addr
      BY <2>1 DEF Written
    <2>2. CASE y # addr
      BY <1>2, <2>2
    <2>3. QED
      BY <2>1, <2>2
  <1>4. Written(m, addr, index, x) \in
          [DOMAIN m -> [type : Types, words : W \cup {new}, count : Nat, itemSize : Nat, itemAlign : Nat]]
    BY <1>3 DEF Written
  <1>5. QED
    BY <1>1, <1>2, <1>4

(* A new cell leaves the other cells as they are.                           *)
LEMMA AddingACell ==
  ASSUME CellsInv, NEW a, NEW cell, NEW V,
         cell \in [type : Types, words : V, count : Nat, itemSize : Nat, itemAlign : Nat]
  PROVE  /\ DOMAIN WithCell(a, cell) = DOMAIN mem \cup {NextAddress(a)}
         /\ \A y \in DOMAIN mem : y # NextAddress(a) => WithCell(a, cell)[y] = mem[y]
         /\ \E W : WithCell(a, cell) \in
              [DOMAIN WithCell(a, cell) ->
                 [type : Types, words : W, count : Nat, itemSize : Nat, itemAlign : Nat]]
  <1>1. PICK W :
          mem \in [DOMAIN mem -> [type : Types, words : W, count : Nat, itemSize : Nat, itemAlign : Nat]]
    BY DEF CellsInv
  <1>2. WithCell(a, cell) \in
          [DOMAIN mem \cup {NextAddress(a)} ->
             [type : Types, words : W \cup V, count : Nat, itemSize : Nat, itemAlign : Nat]]
    <2>1. ASSUME NEW y \in DOMAIN mem
          PROVE  mem[y] \in [type : Types, words : W \cup V, count : Nat, itemSize : Nat, itemAlign : Nat]
      <3>1. mem[y] \in [type : Types, words : W, count : Nat, itemSize : Nat, itemAlign : Nat]
        BY <1>1
      <3>2. QED
        BY <3>1
    <2>2. cell \in [type : Types, words : W \cup V, count : Nat, itemSize : Nat, itemAlign : Nat]
      OBVIOUS
    <2>3. QED
      BY <2>1, <2>2 DEF WithCell
  <1>3. QED
    BY <1>2 DEF WithCell

(* New calls about the target, in front of the rest of the work.            *)
LEMMA MoreCalls ==
  ASSUME NEW calls, NEW S, calls \in Seq(S), \A c \in S : TargetCall(c),
         WorkInv, work # << >>, NEW next, next = calls \o rest
  PROVE  \E T : next \in Seq(T) /\ \A c \in T : TargetCall(c)
  <1>1. PICK R : work \in Seq(R) /\ \A c \in R : TargetCall(c)
    BY DEF WorkInv
  <1>2. rest \in Seq(R)
    BY <1>1 DEF rest
  <1>3. calls \in Seq(S \cup R) /\ rest \in Seq(S \cup R)
    BY <1>2
  <1>4. calls \o rest \in Seq(S \cup R)
    BY <1>3
  <1>5. QED
    BY <1>1, <1>4

(* What a step may do to the cells of the arena the state is in.            *)
SourceKept == \A x \in DOMAIN mem : x[1] = current => (x \in DOMAIN mem' /\ mem'[x] = mem[x])

LEMMA KeptMemory ==
  ASSUME CopyInv, UNCHANGED <<mem, current, stateType, work, phase>>
  PROVE  CopyInv' /\ SourceKept
  BY DEF CopyInv, SourceKept, CellsInv, WorkInv, TargetCall, target, Other

(* The next call is about a word of the target.                             *)
LEMMA NextCall ==
  ASSUME CopyInv, work # << >>
  PROVE  TargetCall(call)
  <1>1. PICK S : work \in Seq(S) /\ \A c \in S : TargetCall(c)
    BY DEF CopyInv, WorkInv
  <1>2. call \in S
    BY <1>1 DEF call
  <1>3. QED
    BY <1>1, <1>2

LEMMA FewerCalls ==
  ASSUME CopyInv, work # << >>, work' = rest, UNCHANGED current
  PROVE  WorkInv'
  <1>1. PICK S : work \in Seq(S) /\ \A c \in S : TargetCall(c)
    BY DEF CopyInv, WorkInv
  <1>2. rest \in Seq(S)
    BY <1>1 DEF rest
  <1>3. QED
    BY <1>1, <1>2 DEF WorkInv, TargetCall, target, Other

(* A word of the target is written, in the copy of a cell or without one.   *)
LEMMA WritingTheTarget ==
  ASSUME CopyInv, work # << >>, NEW x, UNCHANGED current,
         mem' = Written(mem, call.addr, call.index, x)
  PROVE  CellsInv' /\ SourceKept
  <1>1. PICK W :
          mem \in [DOMAIN mem -> [type : Types, words : W, count : Nat, itemSize : Nat, itemAlign : Nat]]
    BY DEF CopyInv, CellsInv
  <1>2. call.addr[1] = target /\ target # current
    BY NextCall, OtherArena DEF TargetCall, CopyInv, target
  <1> DEFINE new == Written(mem, call.addr, call.index, x)
  <1>3. /\ DOMAIN new = DOMAIN mem
        /\ \A y \in DOMAIN mem : y # call.addr => new[y] = mem[y]
        /\ \E V : new \in
             [DOMAIN mem -> [type : Types, words : V, count : Nat, itemSize : Nat, itemAlign : Nat]]
    BY <1>1, WritingACell
  <1> HIDE DEF new
  <1>4. mem' = new
    BY DEF new
  <1>5. CellsInv'
    BY <1>3, <1>4 DEF CellsInv
  <1>6. SourceKept
    BY <1>2, <1>3, <1>4 DEF SourceKept
  <1>7. QED
    BY <1>5, <1>6

LEMMA CopyingACell ==
  ASSUME CopyInv, NEW cell, NEW V, UNCHANGED current,
         cell \in [type : Types, words : V, count : Nat, itemSize : Nat, itemAlign : Nat],
         NEW m, m = WithCell(target, cell)
  PROVE  /\ \E W : m \in [DOMAIN m -> [type : Types, words : W, count : Nat, itemSize : Nat, itemAlign : Nat]]
         /\ \A x \in DOMAIN mem : x[1] = current => (x \in DOMAIN m /\ m[x] = mem[x])
  <1>1. target # current /\ NextAddress(target)[1] = target
    BY OtherArena DEF CopyInv, target, NextAddress
  <1>2. CellsInv
    BY DEF CopyInv
  <1>3. /\ DOMAIN m = DOMAIN mem \cup {NextAddress(target)}
        /\ \A y \in DOMAIN mem : y # NextAddress(target) => m[y] = mem[y]
        /\ \E W : m \in
             [DOMAIN m -> [type : Types, words : W, count : Nat, itemSize : Nat, itemAlign : Nat]]
    BY <1>2, AddingACell
  <1>4. \A x : x[1] = current => x # NextAddress(target)
    BY <1>1
  <1>5. QED
    BY <1>3, <1>4

LEMMA ElementOfASequence ==
  ASSUME NEW S, NEW s \in Seq(S), NEW i \in DOMAIN s
  PROVE  s[i] \in S
  OBVIOUS

LEMMA FieldCalls ==
  ASSUME CopyInv, work # << >>, NEW fields, fields \in FieldList, Continue(FieldVisits(fields)),
         UNCHANGED <<current, stateType>>, phase = "walk"
  PROVE  CopyInv' /\ SourceKept
  <1> DEFINE S == {FieldVisits(fields)[i] : i \in DOMAIN fields}
  <1>1. TargetCall(call)
    BY NextCall
  <1>2. FieldVisits(fields) \in Seq(S)
    BY DEF FieldVisits, FieldList
  <1>3. \A c \in S : TargetCall(c)
    <2>1. ASSUME NEW i \in DOMAIN fields PROVE TargetCall(FieldVisits(fields)[i])
      <3>1. fields[i] \in [offset : Nat, type : Types]
        BY ElementOfASequence DEF FieldList
      <3>2. QED
        BY <1>1, <3>1 DEF FieldVisits, Visit, TargetCall
    <2>2. QED
      BY <2>1
  <1>4. work' = FieldVisits(fields) \o rest /\ UNCHANGED <<mem, phase>>
    BY DEF Continue, heapVars
  <1>5. \E T : work' \in Seq(T) /\ \A c \in T : TargetCall(c)
    <2> HIDE DEF S
    <2>1. QED
      BY <1>2, <1>3, <1>4, MoreCalls DEF CopyInv
  <1>6. WorkInv'
    BY <1>5 DEF WorkInv, TargetCall, target, Other
  <1>7. QED
    BY <1>4, <1>6 DEF CopyInv, CellsInv, SourceKept

(* Every step of compactOrClone writes to the target only.                  *)
LEMMA WalkKeepsTheSource ==
  ASSUME CopyInv, Walk
  PROVE  CopyInv' /\ SourceKept
  <1>1. work # << >> /\ phase = "walk" /\ UNCHANGED <<current, stateType>>
    BY DEF Walk, Walking
  <1>2. TargetCall(call)
    BY <1>1, NextCall
  <1>3. ASSUME work' = rest, CellsInv', SourceKept, UNCHANGED phase
        PROVE  CopyInv' /\ SourceKept
    BY <1>1, <1>3, FewerCalls DEF CopyInv
  <1>4. CASE StorePointer
    BY <1>1, <1>3, <1>4, WritingTheTarget DEF StorePointer
  <1>5. CASE Continue(<< >>)
    <2>1. work' = rest /\ UNCHANGED <<mem, phase>>
      <3>1. PICK S : work \in Seq(S)
        BY DEF CopyInv, WorkInv
      <3>2. rest \in Seq(S)
        BY <1>1, <3>1 DEF rest
      <3>3. << >> \o rest = rest
        BY <3>2
      <3>4. QED
        BY <1>5, <3>3 DEF Continue, heapVars
    <2>2. QED
      BY <1>1, <1>3, <2>1 DEF CopyInv, CellsInv, SourceKept
  <1>6. CASE VisitRecord
    BY <1>1, <1>2, <1>6, FieldCalls, TypeInfoAssumption DEF VisitRecord, Kind, TargetCall
  <1>7. CASE VisitCustom
    <2>1. TypeInfo[call.type].variants \in Seq(FieldList)
      BY <1>2, <1>7, TypeInfoAssumption DEF VisitCustom, Kind, TargetCall
    <2>2. TypeInfo[call.type].variants[variant] \in FieldList
      BY <1>7, <2>1, ElementOfASequence DEF VisitCustom
    <2>3. QED
      BY <1>1, <1>7, <2>2, FieldCalls DEF VisitCustom
  <1>8. CASE VisitAlias
    <2> DEFINE next == Visit(call.addr, call.index, TypeInfo[call.type].item)
    <2>1. TargetCall(next)
      BY <1>2, <1>8, TypeInfoAssumption DEF VisitAlias, Kind, TargetCall, Visit
    <2>2. work' = <<next>> \o rest /\ UNCHANGED <<mem, phase>>
      BY <1>8 DEF VisitAlias, Continue, heapVars
    <2> HIDE DEF next
    <2>3. \E T : work' \in Seq(T) /\ \A c \in T : TargetCall(c)
      <3>1. <<next>> \in Seq({next})
        OBVIOUS
      <3>2. QED
        BY <1>1, <2>1, <2>2, <3>1, MoreCalls DEF CopyInv
    <2>4. QED
      BY <1>1, <2>2, <2>3 DEF CopyInv, CellsInv, WorkInv, SourceKept, TargetCall, target, Other
  <1>9. CASE VisitNoVariant \/ CopyStops \/ VisitFreed
    BY <1>1, <1>9, KeptMemory DEF VisitNoVariant, CopyStops, VisitFreed, heapVars
  <1>10. ASSUME NEW code, Fail(code), UNCHANGED mem
         PROVE  CopyInv' /\ SourceKept
    <2>1. work' = << >>
      BY <1>10 DEF Fail
    <2>2. << >> \in Seq({})
      OBVIOUS
    <2>3. WorkInv'
      BY <2>1, <2>2 DEF WorkInv
    <2>4. QED
      BY <1>1, <1>10, <2>1, <2>3 DEF CopyInv, CellsInv, SourceKept
  <1>11. CASE VisitOctets
    <2> DEFINE m == WithCell(target, mem[value])
    <2>1. PICK W :
            mem \in [DOMAIN mem -> [type : Types, words : W, count : Nat, itemSize : Nat, itemAlign : Nat]]
      BY DEF CopyInv, CellsInv
    <2>2. mem[value] \in [type : Types, words : W, count : Nat, itemSize : Nat, itemAlign : Nat]
      BY <1>11, <2>1 DEF VisitOctets, CopyCell
    <2>3. work' = rest /\ UNCHANGED phase /\ mem' = Written(m, call.addr, call.index, copy)
      BY <1>11 DEF VisitOctets, CopyCell
    <2> HIDE DEF m
    <2>4. PICK V :
            /\ m \in [DOMAIN m -> [type : Types, words : V, count : Nat, itemSize : Nat, itemAlign : Nat]]
            /\ \A x \in DOMAIN mem : x[1] = current => (x \in DOMAIN m /\ m[x] = mem[x])
      BY <1>1, <2>2, CopyingACell DEF m
    <2> DEFINE new == Written(m, call.addr, call.index, copy)
    <2>5. /\ DOMAIN mem' = DOMAIN m
          /\ \A y \in DOMAIN m : y # call.addr => mem'[y] = m[y]
          /\ CellsInv'
      <3>1. /\ DOMAIN new = DOMAIN m
            /\ \A y \in DOMAIN m : y # call.addr => new[y] = m[y]
            /\ \E U : new \in
                 [DOMAIN m -> [type : Types, words : U, count : Nat, itemSize : Nat, itemAlign : Nat]]
        BY <2>4, WritingACell
      <3>2. mem' = new
        BY <2>3
      <3> HIDE DEF new
      <3>3. QED
        BY <3>1, <3>2 DEF CellsInv
    <2>6. call.addr[1] # current
      BY <1>2, OtherArena DEF TargetCall, CopyInv, target
    <2>7. SourceKept
      BY <2>4, <2>5, <2>6 DEF SourceKept
    <2>8. QED
      BY <1>3, <2>3, <2>5, <2>7
  <1>12. CASE VisitList
    <2> DEFINE cell == mem[value]
               calls == [i \in 1 .. cell.count |->
                           Visit(copy, (i - 1) * cell.itemSize + 1, TypeInfo[call.type].item)]
               store == Store(call.addr, call.index, call.type, copy)
               S == {calls[i] : i \in 1 .. cell.count} \cup {store}
    <2>1. PICK W :
            mem \in [DOMAIN mem -> [type : Types, words : W, count : Nat, itemSize : Nat, itemAlign : Nat]]
      BY DEF CopyInv, CellsInv
    <2>2. cell \in [type : Types, words : W, count : Nat, itemSize : Nat, itemAlign : Nat]
      BY <1>12, <2>1 DEF VisitList, CopyCell
    <2>3. /\ mem' = WithCell(target, cell)
          /\ work' = calls \o <<store>> \o rest
          /\ UNCHANGED phase
      BY <1>12 DEF VisitList, CopyCell
    <2>4. CellsInv' /\ SourceKept
      BY <1>1, <2>2, <2>3, CopyingACell DEF CellsInv, SourceKept
    <2>5. \A c \in S : TargetCall(c)
      <3>1. TypeInfo[call.type].item \in Types
        BY <1>2, <1>12, TypeInfoAssumption DEF VisitList, Kind, TargetCall
      <3>2. ASSUME NEW index PROVE TargetCall(Visit(copy, index, TypeInfo[call.type].item))
        BY <3>1 DEF TargetCall, Visit, copy, NextAddress
      <3>3. TargetCall(store)
        BY <1>2 DEF TargetCall, Store
      <3>4. ASSUME NEW i \in 1 .. cell.count PROVE TargetCall(calls[i])
        BY <3>2
      <3> HIDE DEF calls, store, cell
      <3>5. QED
        BY <3>3, <3>4
    <2>6. calls \in Seq(S) /\ <<store>> \in Seq(S)
      <3>1. cell.count \in Nat
        BY <2>2
      <3>2. DOMAIN calls = 1 .. cell.count /\ calls = [i \in 1 .. cell.count |-> calls[i]]
        OBVIOUS
      <3> HIDE DEF calls, store, cell
      <3>3. \A i \in 1 .. cell.count : calls[i] \in S
        OBVIOUS
      <3> HIDE DEF S
      <3>4. calls \in [1 .. cell.count -> S]
        BY <3>2, <3>3
      <3>5. store \in S
        BY DEF S
      <3>6. QED
        BY <3>1, <3>4, <3>5
    <2> HIDE DEF calls, store, S
    <2>7. calls \o <<store>> \in Seq(S)
      BY <2>6
    <2>8. \E T : work' \in Seq(T) /\ \A c \in T : TargetCall(c)
      BY <1>1, <2>3, <2>5, <2>7, MoreCalls DEF CopyInv
    <2>9. QED
      BY <1>1, <2>3, <2>4, <2>8 DEF CopyInv, WorkInv, TargetCall, target, Other
  <1>13. CASE \E o \in Objects : CloneUnmanaged(o)
    BY <1>1, <1>3, <1>13, WritingTheTarget DEF CloneUnmanaged
  <1>14. QED
    BY <1>4, <1>5, <1>6, <1>7, <1>8, <1>9, <1>10, <1>11, <1>12, <1>13
    DEF Walk, VisitScalar, VisitUnsupported, VisitFunction, MoveUnmanaged, CloneFails, heapVars

LEMMA NextCopyInv == CopyInv /\ [Next]_vars => CopyInv' /\ (phase \in {"returned", "walk"} => SourceKept)
  <1> SUFFICES ASSUME CopyInv, [Next]_vars
               PROVE  CopyInv' /\ (phase \in {"returned", "walk"} => SourceKept)
    OBVIOUS
  <1>1. CASE UNCHANGED vars
    BY <1>1, KeptMemory DEF vars, heapVars, loopVars
  <1>2. ASSUME NEW cell, NEW V, Allocate(cell), phase = "main",
               cell \in [type : Types, words : V, count : Nat, itemSize : Nat, itemAlign : Nat]
        PROVE  CopyInv' /\ (phase \in {"returned", "walk"} => SourceKept)
    <2>1. CASE UNCHANGED mem
      BY <1>2, <2>1, KeptMemory DEF Allocate
    <2>2. CASE mem' = WithCell(current, cell)
      <3>1. CellsInv'
        BY <1>2, <2>2, AddingACell DEF CopyInv, CellsInv
      <3>2. QED
        BY <1>2, <3>1 DEF Allocate, CopyInv, WorkInv, TargetCall, target, Other
    <2>3. QED
      BY <1>2, <2>1, <2>2 DEF Allocate, heapVars
  <1>3. ASSUME NEW t \in Types, NEW c \in Characters, NewOctets(t, c)
        PROVE  CopyInv' /\ (phase \in {"returned", "walk"} => SourceKept)
    <2>1. CellOf(t, <<c>>, 1, 1, 1) \in
            [type : Types, words : {<<c>>}, count : Nat, itemSize : Nat, itemAlign : Nat]
      BY DEF CellOf
    <2>2. QED
      BY <1>2, <1>3, <2>1 DEF NewOctets, InMain
  <1>4. ASSUME NEW t \in Types, NewEmptyList(t)
        PROVE  CopyInv' /\ (phase \in {"returned", "walk"} => SourceKept)
    <2>1. CellOf(t, << >>, 0, 0, 0) \in
            [type : Types, words : {<< >>}, count : Nat, itemSize : Nat, itemAlign : Nat]
      BY DEF CellOf
    <2>2. QED
      BY <1>2, <1>4, <2>1 DEF NewEmptyList, InMain
  <1>5. ASSUME NEW t \in Types, NewList(t)
        PROVE  CopyInv' /\ (phase \in {"returned", "walk"} => SourceKept)
    <2>1. PICK n, words : n \in 0 .. MaxItems /\ Allocate(CellOf(t, words, n, SizeOf(TypeInfo[t].item), 1))
      BY <1>5 DEF NewList
    <2>2. SizeOf(TypeInfo[t].item) \in Nat /\ phase = "main"
      BY <1>5, TypeInfoAssumption DEF NewList, Kind, SizeOf, InMain
    <2>3. CellOf(t, words, n, SizeOf(TypeInfo[t].item), 1) \in
            [type : Types, words : {words}, count : Nat, itemSize : Nat, itemAlign : Nat]
      BY <2>1, <2>2 DEF CellOf
    <2>4. QED
      BY <1>2, <2>1, <2>2, <2>3
  <1>6. CASE (\E o \in Objects : NewObject(o)) \/ Return \/ Retry \/ Finish
    <2>1. UNCHANGED <<mem, current, stateType, work>> /\ (phase' = "walk" => phase = "walk") /\ (phase # "walk" => work = << >>)
      BY <1>6 DEF NewObject, Return, Retry, Finish, heapVars, CopyInv
    <2>2. phase' # "walk" => work = << >>
      BY <1>6, <2>1 DEF NewObject, Return, Retry, Finish
    <2>3. QED
      BY <2>1, <2>2 DEF CopyInv, CellsInv, WorkInv, TargetCall, target, Other, SourceKept
  <1>7. ASSUME NEW clone \in BOOLEAN, Begin(clone)
        PROVE  CopyInv' /\ (phase \in {"returned", "walk"} => SourceKept)
    <2>1. UNCHANGED <<current, stateType>> /\ work = << >> /\ phase = "returned"
      BY <1>7 DEF Begin, CopyInv
    <2>2. CASE UNCHANGED <<mem, work>> /\ phase' # "walk"
      BY <2>1, <2>2 DEF CopyInv, CellsInv, WorkInv, TargetCall, target, Other, SourceKept
    <2>3. CASE /\ mem' = WithCell(target, CellOf(stateType, state, 1, SizeOf(stateType), 1))
               /\ work' = <<Visit(NextAddress(target), 1, stateType)>>
               /\ phase' = "walk"
      <3> DEFINE cell == CellOf(stateType, state, 1, SizeOf(stateType), 1)
                 first == Visit(NextAddress(target), 1, stateType)
      <3>1. stateType \in Types /\ SizeOf(stateType) \in Nat
        BY StateTypesAssumption, TypeInfoAssumption DEF CopyInv, SizeOf
      <3>2. cell \in [type : Types, words : {state}, count : Nat, itemSize : Nat, itemAlign : Nat]
        BY <3>1 DEF CellOf
      <3>3. TargetCall(first)
        BY <3>1 DEF TargetCall, Visit, NextAddress
      <3>4. mem' = WithCell(target, cell) /\ work' = <<first>>
        BY <2>3
      <3> HIDE DEF cell, first
      <3>5. CellsInv' /\ SourceKept
        BY <2>1, <3>2, <3>4, CopyingACell DEF CellsInv, SourceKept
      <3>6. WorkInv'
        <4>1. work' \in Seq({first})
          BY <3>4
        <4>2. QED
          BY <2>1, <3>3, <4>1 DEF WorkInv, TargetCall, target, Other
      <3>7. QED
        BY <2>1, <2>3, <3>5, <3>6 DEF CopyInv
    <2>4. QED
      BY <1>7, <2>1, <2>2, <2>3 DEF Begin, BeginRefused, BeginCopy, heapVars
  <1>8. CASE Walk
    BY <1>8, WalkKeepsTheSource
  <1>9. CASE Swap
    <2>1. current' = target /\ target \in Arenas /\ work' = << >> /\ UNCHANGED stateType /\ phase = "done"
      BY <1>9, OtherArena DEF Swap, CopyInv, target
    <2>2. PICK W :
            mem \in [DOMAIN mem -> [type : Types, words : W, count : Nat, itemSize : Nat, itemAlign : Nat]]
      BY DEF CopyInv, CellsInv
    <2>3. mem' \in [DOMAIN mem' -> [type : Types, words : W, count : Nat, itemSize : Nat, itemAlign : Nat]]
      BY <1>9, <2>2 DEF Swap
    <2>4. << >> \in Seq({})
      OBVIOUS
    <2>5. WorkInv'
      <3>1. work' \in Seq({})
        BY <2>1, <2>4
      <3>2. \E S : work' \in Seq(S) /\ \A c \in S : TargetCall(c)'
        BY <3>1
      <3>3. QED
        BY <3>2 DEF WorkInv
    <2>6. QED
      BY <2>1, <2>3, <2>5 DEF CopyInv, CellsInv
  <1>10. QED
    BY <1>1, <1>3, <1>4, <1>5, <1>6, <1>7, <1>8, <1>9 DEF Next

LEMMA InitCopyInv == Init => CopyInv
  <1> SUFFICES ASSUME Init PROVE CopyInv
    OBVIOUS
  <1>1. WorkInv
    <2>1. work \in Seq({})
      BY DEF Init
    <2>2. QED
      BY <2>1 DEF WorkInv
  <1>2. CellsInv
    <2>1. mem \in [{} -> [type : Types, words : {}, count : Nat, itemSize : Nat, itemAlign : Nat]]
          /\ DOMAIN mem = {}
      BY DEF Init
    <2>2. QED
      BY <2>1 DEF CellsInv
  <1>3. QED
    BY <1>1, <1>2 DEF Init, CopyInv

(* While the state is copied, and until the host has a copy or a refusal,   *)
(* no cell of the arena it lives in changes: whatever the types, the values *)
(* and the sharing in the state are.                                        *)
THEOREM TheSourceIsUntouched == Spec => SourceUntouched
  <1>1. Init => CopyInv
    BY InitCopyInv
  <1>2. CopyInv /\ [Next]_vars =>
          [(phase \in {"returned", "walk"}) =>
             \A x \in DOMAIN mem : x[1] = current => (x \in DOMAIN mem' /\ mem'[x] = mem[x])]_vars
    BY NextCopyInv DEF SourceKept
  <1>3. CopyInv /\ [Next]_vars => CopyInv'
    BY NextCopyInv
  <1>4. QED
    BY <1>1, <1>2, <1>3, PTL DEF Spec, SourceUntouched

-----------------------------------------------------------------------------
(* The type invariant, in every build.  The addresses in use are those      *)
(* below the bump pointers of the arenas.                                   *)
AddressesIn(u) == UNION {{<<a, n>> : n \in 1 .. u[a]} : a \in Arenas}

TypeInv == CopyInv /\ OwnersInv /\ Shared!CountInv /\ TypeOK

LEMMA AddressesBelow ==
  ASSUME NEW u, NEW x
  PROVE  x \in AddressesIn(u) <=> \E a \in Arenas : \E n \in 1 .. u[a] : x = <<a, n>>
  BY DEF AddressesIn

(* One more cell in an arena is one more address in use.                    *)
LEMMA OneMoreAddress ==
  ASSUME NEW a \in Arenas, used \in [Arenas -> 0 .. MaxCells], Fits(a), OneMoreIn(a)
  PROVE  /\ used' \in [Arenas -> 0 .. MaxCells]
         /\ AddressesIn(used') = AddressesIn(used) \cup {NextAddress(a)}
         /\ NextAddress(a) \notin AddressesIn(used)
  <1>1. used[a] \in 0 .. MaxCells /\ used[a] < MaxCells /\ MaxCells \in Nat
    BY BoundsAssumption DEF Fits
  <1>2. used' = [used EXCEPT ![a] = used[a] + 1]
    BY DEF OneMoreIn
  <1>3. used' \in [Arenas -> 0 .. MaxCells]
    BY <1>1, <1>2
  <1>4. ASSUME NEW x PROVE x \in AddressesIn(used') <=> x \in AddressesIn(used) \cup {NextAddress(a)}
    <2>1. ASSUME NEW b \in Arenas, NEW n
          PROVE  n \in 1 .. used'[b] <=> n \in 1 .. used[b] \/ (b = a /\ n = used[a] + 1)
      <3>1. CASE b = a
        BY <1>1, <1>2, <3>1
      <3>2. CASE b # a
        BY <1>2, <3>2
      <3>3. QED
        BY <3>1, <3>2
    <2>2. QED
      BY <2>1, AddressesBelow DEF NextAddress
  <1>5. NextAddress(a) \notin AddressesIn(used)
    <2>1. ASSUME NEW b \in Arenas, NEW n \in 1 .. used[b], NextAddress(a) = <<b, n>> PROVE FALSE
      <3>1. b = a /\ n = used[a] + 1
        BY <2>1 DEF NextAddress
      <3>2. QED
        BY <1>1, <3>1
    <2>2. QED
      BY <2>1, AddressesBelow
  <1>6. QED
    BY <1>3, <1>4, <1>5

(* A reset arena has no address in use.                                     *)
LEMMA AddressesOfTheOther ==
  ASSUME NEW a \in Arenas, used \in [Arenas -> 0 .. MaxCells], used' = [used EXCEPT ![a] = 0]
  PROVE  /\ used' \in [Arenas -> 0 .. MaxCells]
         /\ AddressesIn(used') = {x \in AddressesIn(used) : x[1] # a}
  <1>1. used' \in [Arenas -> 0 .. MaxCells]
    BY BoundsAssumption
  <1>2. ASSUME NEW x PROVE x \in AddressesIn(used') <=> x \in {y \in AddressesIn(used) : y[1] # a}
    <2>1. ASSUME NEW b \in Arenas, NEW n PROVE n \in 1 .. used'[b] <=> n \in 1 .. used[b] /\ b # a
      <3>1. CASE b = a
        BY <3>1
      <3>2. CASE b # a
        BY <3>2
      <3>3. QED
        BY <3>1, <3>2
    <2>2. ASSUME x \in AddressesIn(used') PROVE x \in AddressesIn(used) /\ x[1] # a
      <3>1. PICK b \in Arenas : \E n \in 1 .. used'[b] : x = <<b, n>>
        BY <2>2, AddressesBelow
      <3>2. PICK n \in 1 .. used'[b] : x = <<b, n>>
        BY <3>1
      <3>3. n \in 1 .. used[b] /\ b # a /\ x[1] = b
        BY <2>1, <3>2
      <3>4. QED
        BY <3>2, <3>3, AddressesBelow
    <2>3. ASSUME x \in AddressesIn(used), x[1] # a PROVE x \in AddressesIn(used')
      <3>1. PICK b \in Arenas : \E n \in 1 .. used[b] : x = <<b, n>>
        BY <2>3, AddressesBelow
      <3>2. PICK n \in 1 .. used[b] : x = <<b, n>>
        BY <3>1
      <3>3. n \in 1 .. used'[b]
        BY <2>1, <2>3, <3>2
      <3>4. QED
        BY <3>2, <3>3, AddressesBelow
    <2>4. QED
      BY <2>2, <2>3
  <1>3. QED
    BY <1>1, <1>2

LEMMA AddressIsIn == Address = AddressesIn(used) /\ Address' = AddressesIn(used')
  BY DEF Address, AddressesIn

LEMMA SameTypes ==
  /\ Registry!TypeOK <=> Shared!TypeOK
  /\ Registry!TypeOK' <=> Shared!TypeOK'
  BY SameSlots DEF Registry!TypeOK, Shared!TypeOK

(* The words of the tasks are in cells there are.                           *)
AddressedIn(tasks, A) == \A i \in DOMAIN tasks : tasks[i].addr \in A

LEMMA AddressedRest ==
  ASSUME WorkInv, work # << >>, NEW A, NEW B, AddressedIn(work, A), A \subseteq B,
         NEW S, NEW calls \in Seq(S), AddressedIn(calls, B)
  PROVE  /\ call.addr \in A
         /\ AddressedIn(rest, B)
         /\ AddressedIn(calls \o rest, B)
  <1>1. PICK T : work \in Seq(T)
    BY DEF WorkInv
  <1>2. call = work[1] /\ 1 \in DOMAIN work /\ rest \in Seq(T)
    BY <1>1 DEF call, rest
  <1>3. \A i \in DOMAIN rest : i + 1 \in DOMAIN work /\ rest[i] = work[i + 1]
    BY <1>1 DEF rest
  <1>4. AddressedIn(rest, B)
    BY <1>3 DEF AddressedIn
  <1>5. AddressedIn(calls \o rest, B)
    <2>1. ASSUME NEW i \in DOMAIN (calls \o rest)
          PROVE  \/ i \in DOMAIN calls /\ (calls \o rest)[i] = calls[i]
                 \/ i - Len(calls) \in DOMAIN rest /\ (calls \o rest)[i] = rest[i - Len(calls)]
      BY <1>2
    <2>2. QED
      BY <1>4, <2>1 DEF AddressedIn
  <1>6. QED
    BY <1>2, <1>4, <1>5 DEF AddressedIn

MemoryOK ==
  /\ DOMAIN mem = Address
  /\ used \in [Arenas -> 0 .. MaxCells]

LEMMA KeptAddresses ==
  ASSUME MemoryOK, UNCHANGED used, DOMAIN mem' = DOMAIN mem
  PROVE  MemoryOK' /\ Address' = Address
  BY AddressIsIn DEF MemoryOK

LEMMA NewAddress ==
  ASSUME MemoryOK, NEW a \in Arenas, Fits(a), OneMoreIn(a),
         DOMAIN mem' = DOMAIN mem \cup {NextAddress(a)}
  PROVE  /\ MemoryOK'
         /\ Address' = Address \cup {NextAddress(a)}
         /\ NextAddress(a) \notin Address
  BY OneMoreAddress, AddressIsIn DEF MemoryOK

LEMMA DomainOfWritten ==
  ASSUME NEW m, NEW addr, NEW index, NEW x
  PROVE  DOMAIN Written(m, addr, index, x) = DOMAIN m
  BY DEF Written

LEMMA DomainOfWithCell ==
  ASSUME NEW a, NEW cell
  PROVE  DOMAIN WithCell(a, cell) = DOMAIN mem \cup {NextAddress(a)}
  BY DEF WithCell

(* What a step does to memory, tasks, result and origins, as far as the     *)
(* type invariant goes.                                                     *)
Typed ==
  /\ MemoryOK
  /\ AddressedIn(work, Address)
  /\ result \in -4 .. 0
  /\ origin \in [Objects -> Objects]

LEMMA WalkKeepsTypes ==
  ASSUME CopyInv, OwnersInv, Typed, Walk
  PROVE  Typed' /\ Address \subseteq Address'
  <1>1. work # << >> /\ phase = "walk" /\ WorkInv /\ current \in Arenas /\ target \in Arenas
    BY OtherArena DEF Walk, Walking, CopyInv, target
  <1>2. << >> \in Seq({}) /\ AddressedIn(<< >>, Address)
    BY DEF AddressedIn
  <1>3. call.addr \in Address /\ AddressedIn(rest, Address) /\ << >> \o rest = rest
    <2>1. call.addr \in Address /\ AddressedIn(rest, Address)
      BY <1>1, <1>2, AddressedRest DEF Typed
    <2>2. PICK S : work \in Seq(S)
      BY <1>1 DEF WorkInv
    <2>3. rest \in Seq(S)
      BY <1>1, <2>2 DEF rest
    <2>4. QED
      BY <2>1, <2>3
  <1>4. ASSUME UNCHANGED <<used, result, origin>>, DOMAIN mem' = DOMAIN mem,
               AddressedIn(work', Address)
        PROVE  Typed' /\ Address \subseteq Address'
    BY <1>4, KeptAddresses DEF Typed
  <1>5. ASSUME NEW S, NEW calls \in Seq(S), AddressedIn(calls, Address), Continue(calls), UNCHANGED origin
        PROVE  Typed' /\ Address \subseteq Address'
    <2>1. AddressedIn(calls \o rest, Address)
      BY <1>1, <1>5, AddressedRest DEF Typed
    <2>2. QED
      BY <1>4, <1>5, <2>1 DEF Continue, heapVars
  <1>6. CASE Continue(<< >>) /\ UNCHANGED origin
    BY <1>2, <1>5, <1>6
  <1>7. ASSUME NEW fields, fields \in FieldList, Continue(FieldVisits(fields)), UNCHANGED origin
        PROVE  Typed' /\ Address \subseteq Address'
    <2> DEFINE S == {FieldVisits(fields)[i] : i \in DOMAIN fields}
    <2>1. FieldVisits(fields) \in Seq(S) /\ DOMAIN FieldVisits(fields) = DOMAIN fields
      <3>1. fields \in Seq([offset : Nat, type : Types])
        BY <1>7 DEF FieldList
      <3>2. DOMAIN FieldVisits(fields) = DOMAIN fields /\ DOMAIN fields = 1 .. Len(fields) /\ Len(fields) \in Nat
        BY <3>1 DEF FieldVisits
      <3>3. FieldVisits(fields) \in [1 .. Len(fields) -> S]
        BY <3>2 DEF FieldVisits
      <3> HIDE DEF S
      <3>4. QED
        BY <3>2, <3>3
    <2>2. AddressedIn(FieldVisits(fields), Address)
      BY <1>3, <2>1 DEF AddressedIn, FieldVisits, Visit
    <2> HIDE DEF S
    <2>3. QED
      BY <1>5, <1>7, <2>1, <2>2
  <1>8. ASSUME VisitRecord, UNCHANGED origin PROVE Typed' /\ Address \subseteq Address'
    <2>1. TypeInfo[call.type].fields \in FieldList
      BY <1>1, <1>8, NextCall, TypeInfoAssumption DEF VisitRecord, Kind, TargetCall
    <2>2. QED
      BY <1>7, <1>8, <2>1 DEF VisitRecord
  <1>9. ASSUME VisitCustom, UNCHANGED origin PROVE Typed' /\ Address \subseteq Address'
    <2>1. TypeInfo[call.type].variants \in Seq(FieldList)
      BY <1>1, <1>9, NextCall, TypeInfoAssumption DEF VisitCustom, Kind, TargetCall
    <2>2. TypeInfo[call.type].variants[variant] \in FieldList
      BY <1>9, <2>1, ElementOfASequence DEF VisitCustom
    <2>3. QED
      BY <1>7, <1>9, <2>2 DEF VisitCustom
  <1>10. ASSUME VisitAlias, UNCHANGED origin PROVE Typed' /\ Address \subseteq Address'
    <2> DEFINE next == Visit(call.addr, call.index, TypeInfo[call.type].item)
    <2>1. <<next>> \in Seq({next}) /\ AddressedIn(<<next>>, Address)
      BY <1>3 DEF AddressedIn, Visit
    <2>2. Continue(<<next>>)
      BY <1>10 DEF VisitAlias
    <2> HIDE DEF next
    <2>3. QED
      BY <1>5, <1>10, <2>1, <2>2
  <1>11. ASSUME VisitNoVariant \/ CopyStops \/ VisitFreed, UNCHANGED origin
         PROVE  Typed' /\ Address \subseteq Address'
    BY <1>4, <1>11 DEF VisitNoVariant, CopyStops, VisitFreed, heapVars, Typed
  <1>12. ASSUME NEW code \in {-1, -4}, Fail(code), UNCHANGED <<heapVars, origin>>
         PROVE  Typed' /\ Address \subseteq Address'
    BY <1>2, <1>12, KeptAddresses DEF Typed, Fail, heapVars, AddressedIn
  <1>13. ASSUME NEW S, NEW calls \in Seq(S), AddressedIn(calls, Address'), work' = calls \o rest,
                CopyCell, DOMAIN mem' = DOMAIN mem \cup {copy}, UNCHANGED origin
         PROVE  Typed' /\ Address \subseteq Address'
    <2>1. Fits(target) /\ OneMoreIn(target) /\ result' = result
      BY <1>13 DEF CopyCell
    <2>2. MemoryOK' /\ Address' = Address \cup {copy}
      BY <1>1, <1>13, <2>1, NewAddress DEF Typed, copy
    <2>3. AddressedIn(calls \o rest, Address')
      BY <1>1, <1>13, <2>2, AddressedRest DEF Typed
    <2>4. QED
      BY <1>13, <2>1, <2>2, <2>3 DEF Typed
  <1>14. ASSUME VisitOctets, UNCHANGED origin PROVE Typed' /\ Address \subseteq Address'
    <2>1. DOMAIN mem' = DOMAIN mem \cup {copy} /\ CopyCell /\ work' = << >> \o rest
      <3> DEFINE m == WithCell(target, mem[value])
      <3>1. DOMAIN m = DOMAIN mem \cup {copy}
        BY DomainOfWithCell DEF copy
      <3>2. mem' = Written(m, call.addr, call.index, copy) /\ CopyCell /\ work' = rest
        BY <1>14 DEF VisitOctets
      <3> HIDE DEF m
      <3>3. QED
        BY <1>3, <3>1, <3>2, DomainOfWritten
    <2>2. AddressedIn(<< >>, Address')
      BY DEF AddressedIn
    <2>3. QED
      BY <1>2, <1>13, <1>14, <2>1, <2>2
  <1>15. ASSUME VisitList, UNCHANGED origin PROVE Typed' /\ Address \subseteq Address'
    <2> DEFINE items == [i \in 1 .. mem[value].count |->
                           Visit(copy, (i - 1) * mem[value].itemSize + 1, TypeInfo[call.type].item)]
               store == Store(call.addr, call.index, call.type, copy)
               S == {items[i] : i \in 1 .. mem[value].count} \cup {store}
    <2>1. DOMAIN mem' = DOMAIN mem \cup {copy} /\ CopyCell /\ work' = (items \o <<store>>) \o rest
      BY <1>15, DomainOfWithCell DEF VisitList, copy
    <2>2. mem[value].count \in Nat
      BY <1>15 DEF VisitList, CopyCell, CopyInv, CellsInv
    <2>3. copy \in Address' /\ call.addr \in Address'
      <3>1. Fits(target) /\ OneMoreIn(target)
        BY <2>1 DEF CopyCell
      <3>2. Address' = Address \cup {copy}
        BY <1>1, <2>1, <3>1, NewAddress DEF Typed, copy
      <3>3. QED
        BY <1>3, <3>2
    <2>4. \A i \in 1 .. mem[value].count : items[i].addr = copy
      BY DEF Visit
    <2>5. store.addr = call.addr
      BY DEF Store
    <2>6. items \in Seq(S) /\ <<store>> \in Seq(S) /\ DOMAIN items = 1 .. mem[value].count
      <3>1. items = [i \in 1 .. mem[value].count |-> items[i]] /\ \A i \in 1 .. mem[value].count : items[i] \in S
        OBVIOUS
      <3> HIDE DEF items
      <3>2. items \in [1 .. mem[value].count -> S]
        BY <3>1
      <3>3. QED
        BY <2>2, <3>2
    <2> HIDE DEF items, store, S
    <2>7. items \o <<store>> \in Seq(S)
      BY <2>6
    <2>8. AddressedIn(items \o <<store>>, Address')
      <3>1. ASSUME NEW i \in DOMAIN (items \o <<store>>)
            PROVE  \/ i \in DOMAIN items /\ (items \o <<store>>)[i] = items[i]
                   \/ (items \o <<store>>)[i] = store
        <4>1. Len(<<store>>) = 1 /\ <<store>>[1] = store
          OBVIOUS
        <4>2. i \in 1 .. Len(items) + Len(<<store>>)
          BY <2>6, ConcatProperties
        <4>3. (items \o <<store>>)[i] = IF i <= Len(items) THEN items[i] ELSE <<store>>[i - Len(items)]
          BY <2>6, <4>2, ConcatProperties
        <4>4. Len(items) \in Nat /\ DOMAIN items = 1 .. Len(items)
          BY <2>6
        <4>5. QED
          BY <4>1, <4>2, <4>3, <4>4
      <3>2. QED
        BY <2>3, <2>4, <2>5, <2>6, <3>1 DEF AddressedIn
    <2>9. QED
      BY <1>13, <1>15, <2>1, <2>7, <2>8
  <1>16. ASSUME NEW o \in Objects, CloneUnmanaged(o) PROVE Typed' /\ Address \subseteq Address'
    <2>1. value \in Objects
      BY <1>16 DEF CloneUnmanaged, Registry!Live, OwnersInv
    <2>2. origin' \in [Objects -> Objects]
      BY <1>16, <2>1 DEF CloneUnmanaged, Typed
    <2>3. DOMAIN mem' = DOMAIN mem /\ UNCHANGED <<used, result>> /\ work' = rest
      BY <1>16, DomainOfWritten DEF CloneUnmanaged
    <2>4. QED
      BY <1>3, <2>2, <2>3, KeptAddresses DEF Typed
  <1>17. CASE StorePointer /\ UNCHANGED origin
    <2>1. DOMAIN mem' = DOMAIN mem /\ UNCHANGED <<used, result>> /\ work' = rest
      BY <1>17, DomainOfWritten DEF StorePointer
    <2>2. QED
      BY <1>3, <1>4, <1>17, <2>1
  <1>18. QED
    BY <1>6, <1>8, <1>9, <1>10, <1>11, <1>12, <1>14, <1>15, <1>16, <1>17
    DEF Walk, VisitScalar, VisitUnsupported, VisitFunction, MoveUnmanaged, CloneFails

(* The parts of the type invariant that the lemmas above leave.             *)
LEMMA NextTypeInv == TypeInv /\ [Next]_vars => TypeInv'
  <1> SUFFICES ASSUME TypeInv, [Next]_vars PROVE TypeInv'
    OBVIOUS
  <1>1. CopyInv' /\ OwnersInv' /\ Shared!CountInv'
    BY NextCopyInv, StepOfRegistry, SameSteps, RegistryAssumption, Shared!NextCountInv DEF TypeInv
  <1>2. Registry!TypeOK'
    BY <1>1, SameTypes DEF Shared!CountInv
  <1>3. Typed /\ CopyInv /\ OwnersInv /\ TypeOK /\ current \in Arenas /\ target \in Arenas /\ target # current
    BY OtherArena DEF TypeInv, TypeOK, Typed, MemoryOK, AddressedIn, CopyInv, target
  <1>4. Typed' /\ current' \in Arenas /\ stateType' \in StateTypes
        /\ phase' \in {"main", "returned", "walk", "done", "failed"} /\ doClone' \in BOOLEAN
        /\ root' \in Address' \cup {<< >>}
        => TypeInv'
    BY <1>1, <1>2 DEF TypeInv, TypeOK, Typed, MemoryOK, AddressedIn
  <1>5. ASSUME UNCHANGED <<heapVars, current, stateType, root, work, result, origin>>,
               phase' \in {"main", "returned", "walk", "done", "failed"}, doClone' \in BOOLEAN
        PROVE  TypeInv'
    <2>1. MemoryOK' /\ Address' = Address
      BY <1>3, <1>5, KeptAddresses DEF Typed, heapVars
    <2>2. QED
      BY <1>3, <1>4, <1>5, <2>1 DEF Typed, TypeOK
  <1>6. CASE UNCHANGED vars
    BY <1>3, <1>5, <1>6 DEF vars, loopVars, TypeOK
  <1>7. ASSUME NEW cell, Allocate(cell) PROVE TypeInv'
    <2>1. CASE Fits(current) /\ mem' = WithCell(current, cell) /\ OneMoreIn(current)
      <3>1. MemoryOK' /\ Address' = Address \cup {NextAddress(current)}
        BY <1>3, <2>1, NewAddress, DomainOfWithCell DEF Typed
      <3>2. Typed'
        BY <1>3, <1>7, <3>1 DEF Typed, Allocate, AddressedIn
      <3>3. QED
        BY <1>3, <1>4, <1>7, <3>1, <3>2 DEF Allocate, TypeOK
    <2>2. CASE UNCHANGED heapVars
      BY <1>3, <1>5, <1>7, <2>2 DEF Allocate, TypeOK
    <2>3. QED
      BY <1>7, <2>1, <2>2 DEF Allocate
  <1>8. CASE (\E o \in Objects : NewObject(o)) \/ Return \/ Retry
    BY <1>3, <1>5, <1>8 DEF NewObject, Return, Retry, TypeOK
  <1>9. ASSUME NEW clone \in BOOLEAN, Begin(clone) PROVE TypeInv'
    <2>1. CASE BeginRefused(clone)
      <3>1. MemoryOK' /\ Address' = Address /\ result' \in -4 .. 0
        BY <1>3, <2>1, KeptAddresses DEF BeginRefused, heapVars, Typed
      <3>2. QED
        BY <1>3, <1>4, <1>9, <2>1, <3>1 DEF Begin, BeginRefused, Typed, TypeOK
    <2>2. CASE BeginCopy(clone) /\ UNCHANGED heapVars
      BY <1>3, <1>5, <1>9, <2>2 DEF Begin, BeginCopy, TypeOK, OneMoreIn, heapVars, WithCell, Typed, MemoryOK
    <2>3. CASE BeginCopy(clone) /\ Fits(target)
      <3> DEFINE cell == CellOf(stateType, state, 1, SizeOf(stateType), 1)
                 first == Visit(NextAddress(target), 1, stateType)
      <3>1. mem' = WithCell(target, cell) /\ OneMoreIn(target) /\ work' = <<first>>
            /\ root' = NextAddress(target) /\ phase' = "walk" /\ result' = result
        BY <2>3 DEF BeginCopy
      <3>2. MemoryOK' /\ Address' = Address \cup {NextAddress(target)}
        BY <1>3, <2>3, <3>1, NewAddress, DomainOfWithCell DEF Typed
      <3>3. AddressedIn(work', Address')
        BY <3>1, <3>2 DEF AddressedIn, Visit
      <3>4. QED
        BY <1>3, <1>4, <1>9, <3>1, <3>2, <3>3 DEF Begin, Typed, TypeOK
    <2>4. QED
      BY <1>9, <2>1, <2>2, <2>3 DEF Begin, BeginCopy
  <1>10. CASE Walk
    <2>1. Typed' /\ Address \subseteq Address'
      BY <1>3, <1>10, WalkKeepsTypes
    <2>2. phase' \in {"walk", "failed"}
      BY <1>10 DEF Walk, Walking, StorePointer, VisitScalar, VisitRecord, VisitCustom, VisitNoVariant, VisitAlias,
         VisitUnsupported, VisitFunction, VisitOctets, VisitList, CopyStops, VisitFreed, CopyCell, MoveUnmanaged,
         CloneUnmanaged, CloneFails, Continue, Fail
    <2>3. QED
      BY <1>3, <1>4, <1>10, <2>1, <2>2 DEF Walk, TypeOK
  <1>11. CASE Finish
    <2>1. MemoryOK' /\ Address' = Address
      BY <1>3, <1>11, KeptAddresses DEF Finish, heapVars, Typed
    <2>2. QED
      BY <1>3, <1>4, <1>11, <2>1 DEF Finish, Typed, TypeOK
  <1>12. CASE Swap
    <2>1. work = << >> /\ work' = << >>
      BY <1>3, <1>12 DEF Swap, CopyInv
    <2>2. DOMAIN mem' = {x \in DOMAIN mem : x[1] # current} /\ used' = [used EXCEPT ![current] = 0]
      BY <1>12 DEF Swap
    <2>3. MemoryOK'
      BY <1>3, <2>2, AddressesOfTheOther, AddressIsIn DEF Typed, MemoryOK
    <2>4. Typed'
      BY <1>3, <1>12, <2>1, <2>3 DEF Typed, Swap, AddressedIn
    <2>5. QED
      BY <1>3, <1>4, <1>12, <2>4 DEF Swap, TypeOK
  <1>13. QED
    BY <1>6, <1>7, <1>8, <1>9, <1>10, <1>11, <1>12 DEF Next, NewOctets, NewList, NewEmptyList

(* It holds at the start.                                                  *)
LEMMA InitTypeInv == Init => TypeInv
  <1> SUFFICES ASSUME Init PROVE TypeInv
    OBVIOUS
  <1>1. CopyInv
    BY InitCopyInv
  <1>2. OwnersInv
    BY DEF Init, OwnersInv, Registry!Init
  <1>3. Shared!CountInv
    BY SameSlots, RegistryAssumption, Shared!InitCountInv DEF Init, Registry!Init, Shared!Init
  <1>4. Registry!TypeOK
    BY <1>3, SameTypes DEF Shared!CountInv
  <1>5. DOMAIN mem = Address
    <2>1. AddressesIn(used) = {}
      BY AddressesBelow DEF Init
    <2>2. QED
      BY <2>1, AddressIsIn DEF Init
  <1>6. used \in [Arenas -> 0 .. MaxCells] /\ origin \in [Objects -> Objects]
    BY BoundsAssumption DEF Init
  <1>7. /\ current \in Arenas /\ stateType \in StateTypes /\ phase = "main" /\ doClone = FALSE
        /\ root = << >> /\ work = << >> /\ result = 0
    BY DEF Init
  <1>8. TypeOK
    <2>1. \A i \in DOMAIN work : work[i].addr \in Address
      <3>1. DOMAIN << >> = {}
        OBVIOUS
      <3>2. QED
        BY <1>7, <3>1
    <2>2. stateType \in StateTypes /\ 0 \in -4 .. 0
      BY <1>7
    <2>3. QED
      BY <1>4, <1>5, <1>6, <1>7, <2>1, <2>2 DEF TypeOK
  <1>9. QED
    BY <1>1, <1>2, <1>3, <1>8 DEF TypeInv

(* The type invariant of reclamation, in every build: the cells are those   *)
(* below the bump pointers and every call still to be made is about one.    *)
THEOREM TypeCorrect == Spec => []TypeOK
  <1>1. Init => TypeInv
    BY InitTypeInv
  <1>2. TypeInv => TypeOK
    BY DEF TypeInv
  <1>3. QED
    BY <1>1, <1>2, NextTypeInv, PTL DEF Spec

-----------------------------------------------------------------------------
(***************************************************************************)
(* That compactOrClone copies a state: for every program whose types are   *)
(* laid out as LayoutAssumption says, whatever its values share and however *)
(* deep they are, where CLOG_ERROR stops the process.                      *)
(*                                                                         *)
(* A value is not followed down to its leaves here, which would take an    *)
(* induction over its depth.  Instead `Holds' says that a place is one of a *)
(* set of places each of which holds what its type says as far as one can  *)
(* see without leaving the set.  The copy is related to the state by a     *)
(* function from its cells to those of the state, which the proof extends  *)
(* with every cell that is copied.                                         *)
(***************************************************************************)
-----------------------------------------------------------------------------
(* Words.                                                                   *)
Numbers == {Number(n) : n \in Nat}
Word == Pointers \cup Objects \cup Characters \cup {NoObject} \cup Numbers

(* A word is of one sort.                                                   *)
LEMMA SortsOfWords ==
  /\ Pointers \cap Objects = {} /\ Pointers \cap Characters = {} /\ NoObject \notin Pointers
  /\ Numbers \cap Objects = {} /\ Numbers \cap Characters = {} /\ NoObject \notin Numbers
  /\ Numbers \cap Pointers = {}
  /\ Objects \cap Characters = {} /\ NoObject \notin Objects
  <1>1. Numbers \subseteq Seq(Nat)
    <2>1. \A n \in Nat : <<n>> \in Seq(Nat)
      OBVIOUS
    <2>2. QED
      BY <2>1 DEF Numbers, Number
  <1>2. Numbers \cap Pointers = {}
    <2>1. SUFFICES ASSUME NEW n \in Nat, NEW a \in Arenas, NEW k \in 1 .. MaxCells, <<n>> = <<a, k>> PROVE FALSE
      BY DEF Numbers, Number, Pointers
    <2>2. Len(<<n>>) = 1 /\ Len(<<a, k>>) = 2
      OBVIOUS
    <2>3. QED
      BY <2>1, <2>2
  <1>3. QED
    BY <1>1, <1>2, WordsAssumption, RegistryAssumption

LEMMA NumbersDiffer ==
  ASSUME NEW m, NEW n, Number(m) = Number(n)
  PROVE  m = n
  BY DEF Number

LEMMA ShiftedBack ==
  ASSUME NEW i \in Nat, NEW d \in Nat, NEW e \in Nat, NEW n \in Nat, NEW k \in ((i + d) + e) .. ((i + d) + n - 1)
  PROVE  k - d \in (i + e) .. (i + n - 1) /\ (k - d) + d = k
  OBVIOUS

-----------------------------------------------------------------------------
(* Places of a sequence of words, and what they hold.  h is a heap: a       *)
(* function from addresses to cells.                                        *)
Places == Nat \X Types

FieldsIn(S, i, fields) == \A k \in DOMAIN fields : <<i + fields[k].offset, fields[k].type>> \in S

(* The words from i on are those of variant v of a custom type.             *)
IsVariant(w, S, i, t, v) ==
  /\ i \in DOMAIN w /\ w[i] = Number(v - 1)
  /\ LET fields == TypeInfo[t].variants[v]
     IN /\ FieldsIn(S, i, fields)
        /\ \A k \in (i + EndOf(fields, 1, Len(fields))) .. (i + SizeOf(t) - 1) : k \in DOMAIN w /\ w[k] = NoObject

Proper(h, w, S, i, t) ==
  /\ Kind(t) = "scalar" => i \in DOMAIN w /\ w[i] \in Numbers
  /\ Kind(t) \in {"octets", "list"} =>
       i \in DOMAIN w /\ w[i] \in Pointers /\ w[i] \in DOMAIN h /\ h[w[i]].type = t
  /\ Kind(t) = "unmanaged" => i \in DOMAIN w /\ w[i] \in Objects
  /\ Kind(t) \in {"function", "unsupported"} => i \in DOMAIN w /\ w[i] = NoObject
  /\ Kind(t) = "alias" => <<i, TypeInfo[t].item>> \in S
  /\ Kind(t) = "record" => FieldsIn(S, i, TypeInfo[t].fields)
  /\ Kind(t) = "custom" => \E v \in DOMAIN TypeInfo[t].variants : IsVariant(w, S, i, t, v)

Laid(h, w, S) == \A p \in S : Proper(h, w, S, p[1], p[2])

Holds(h, w, i, t) == \E S \in SUBSET Places : <<i, t>> \in S /\ Laid(h, w, S)

(* Every place that holds what its type says.                               *)
Held(h, w) == {p \in Places : Holds(h, w, p[1], p[2])}

LEMMA PlacePair ==
  ASSUME NEW p \in Places
  PROVE  p = <<p[1], p[2]>> /\ p[1] \in Nat /\ p[2] \in Types
  BY DEF Places

LEMMA ProperMonotone ==
  ASSUME NEW h, NEW w, NEW S, NEW T, S \subseteq T, NEW i, NEW t, Proper(h, w, S, i, t)
  PROVE  Proper(h, w, T, i, t)
  <1>1. \A fields : FieldsIn(S, i, fields) => FieldsIn(T, i, fields)
    BY DEF FieldsIn
  <1>2. \A v : IsVariant(w, S, i, t, v) => IsVariant(w, T, i, t, v)
    BY <1>1 DEF IsVariant
  <1>3. QED
    BY <1>1, <1>2 DEF Proper

LEMMA HeldHolds ==
  ASSUME NEW h, NEW w, NEW i, NEW t
  PROVE  <<i, t>> \in Held(h, w) <=> Holds(h, w, i, t)
  <1>1. <<i, t>>[1] = i /\ <<i, t>>[2] = t
    OBVIOUS
  <1>2. Holds(h, w, i, t) => <<i, t>> \in Places
    BY DEF Holds
  <1>3. QED
    BY <1>1, <1>2 DEF Held

(* What holds one level down, and up.                                       *)
LEMMA HoldsUnfolds ==
  ASSUME NEW h, NEW w, NEW i, NEW t, Holds(h, w, i, t)
  PROVE  i \in Nat /\ t \in Types /\ Proper(h, w, Held(h, w), i, t)
  <1>1. PICK S \in SUBSET Places : <<i, t>> \in S /\ Laid(h, w, S)
    BY DEF Holds
  <1>2. Proper(h, w, S, i, t)
    BY <1>1 DEF Laid
  <1>3. S \subseteq Held(h, w)
    <2>1. ASSUME NEW p \in S PROVE p \in Held(h, w)
      <3>1. <<p[1], p[2]>> \in S
        BY PlacePair
      <3>2. QED
        BY <1>1, <3>1 DEF Held, Holds
    <2>2. QED
      BY <2>1
  <1>4. i \in Nat /\ t \in Types
    BY <1>1 DEF Places
  <1>5. QED
    BY <1>2, <1>3, <1>4, ProperMonotone

LEMMA HoldsFolds ==
  ASSUME NEW h, NEW w, NEW i \in Nat, NEW t \in Types, Proper(h, w, Held(h, w), i, t)
  PROVE  Holds(h, w, i, t)
  <1> DEFINE T == Held(h, w) \cup {<<i, t>>}
  <1>1. T \in SUBSET Places /\ <<i, t>> \in T
    BY DEF Held, Places
  <1>2. Laid(h, w, T)
    <2>1. ASSUME NEW p \in T PROVE Proper(h, w, Held(h, w), p[1], p[2])
      <3>1. CASE p = <<i, t>>
        BY <3>1
      <3>2. CASE p \in Held(h, w)
        BY <3>2, HoldsUnfolds DEF Held
      <3>3. QED
        BY <3>1, <3>2
    <2>2. QED
      BY <2>1, ProperMonotone DEF Laid
  <1>3. QED
    BY <1>1, <1>2 DEF Holds

(* What holds in a sequence of words holds in another one, d words further  *)
(* on, that has the like words there: the same numbers, some objects for    *)
(* objects, and for a pointer one to a cell of the same type.               *)
Similar(h, v, g, w) ==
  /\ v \in Numbers \cup {NoObject} => w = v
  /\ v \in Objects => w \in Objects
  /\ v \in Pointers /\ v \in DOMAIN h => w \in Pointers /\ w \in DOMAIN g /\ g[w].type = h[v].type

LEMMA FieldsOfTypes ==
  ASSUME NEW t \in Types
  PROVE  /\ SizeOf(t) \in Nat
         /\ Kind(t) \in {"scalar", "octets", "record", "custom", "list", "alias", "function", "unmanaged",
                        "unsupported"}
         /\ Kind(t) = "record" => TypeInfo[t].fields \in FieldList
         /\ Kind(t) = "custom" => \A v \in DOMAIN TypeInfo[t].variants : TypeInfo[t].variants[v] \in FieldList
         /\ Kind(t) = "custom" => \A v \in DOMAIN TypeInfo[t].variants : v \in Nat
         /\ Kind(t) \in {"list", "alias"} => TypeInfo[t].item \in Types
         /\ Kind(t) \in {"scalar", "octets", "list", "function", "unmanaged", "unsupported"} => SizeOf(t) = 1
         /\ Kind(t) = "alias" => SizeOf(TypeInfo[t].item) = SizeOf(t)
  <1>1. Kind(t) = "custom" => TypeInfo[t].variants \in Seq(FieldList)
    BY TypeInfoAssumption DEF Kind
  <1>2. Kind(t) = "custom" => \A v \in DOMAIN TypeInfo[t].variants : TypeInfo[t].variants[v] \in FieldList /\ v \in Nat
    BY <1>1, ElementOfASequence
  <1>3. QED
    BY <1>2, TypeInfoAssumption, LayoutAssumption DEF Kind, SizeOf

LEMMA AField ==
  ASSUME NEW fields \in FieldList
  PROVE  /\ Len(fields) \in Nat /\ DOMAIN fields = 1 .. Len(fields)
         /\ \A k \in DOMAIN fields : fields[k].offset \in Nat /\ fields[k].type \in Types
  <1>1. fields \in Seq([offset : Nat, type : Types])
    BY DEF FieldList
  <1>2. \A k \in DOMAIN fields : fields[k] \in [offset : Nat, type : Types]
    BY <1>1, ElementOfASequence
  <1>3. QED
    BY <1>1, <1>2

LEMMA EndIsNat ==
  ASSUME NEW fields \in FieldList, NEW start \in Nat, NEW i \in 0 .. Len(fields)
  PROVE  EndOf(fields, start, i) \in Nat
  <1>1. CASE i = 0
    BY <1>1 DEF EndOf
  <1>2. CASE i # 0
    <2>1. i \in DOMAIN fields
      BY <1>2, AField
    <2>2. fields[i].offset \in Nat /\ SizeOf(fields[i].type) \in Nat
      BY <2>1, AField, FieldsOfTypes
    <2>3. QED
      BY <1>2, <2>2 DEF EndOf, SizeOf
  <1>3. QED
    BY <1>1, <1>2

LEMMA Transfer ==
  ASSUME NEW h, NEW g, NEW v, NEW w, NEW d \in Nat,
         \A i \in DOMAIN v : i + d \in DOMAIN w /\ Similar(h, v[i], g, w[i + d]),
         NEW n, NEW u, Holds(h, v, n, u)
  PROVE  Holds(g, w, n + d, u)
  <1>1. PICK S \in SUBSET Places : <<n, u>> \in S /\ Laid(h, v, S)
    BY DEF Holds
  <1> DEFINE T == {<<p[1] + d, p[2]>> : p \in S}
  <1>2. \A i, t : <<i, t>> \in S => <<i + d, t>> \in T /\ i \in Nat /\ t \in Types
    <2>1. ASSUME NEW i, NEW t, <<i, t>> \in S PROVE <<i + d, t>> \in T /\ i \in Nat /\ t \in Types
      <3>1. <<i, t>>[1] = i /\ <<i, t>>[2] = t
        OBVIOUS
      <3>2. <<i, t>> \in Places
        BY <2>1
      <3>3. QED
        BY <2>1, <3>1, <3>2 DEF Places
    <2>2. QED
      BY <2>1
  <1>3. T \in SUBSET Places /\ <<n + d, u>> \in T
    <2>1. \A p \in S : <<p[1] + d, p[2]>> \in Places
      BY PlacePair DEF Places
    <2>2. QED
      BY <1>1, <1>2, <2>1
  <1>4. ASSUME NEW p \in T PROVE \E i, t : p = <<i + d, t>> /\ <<i, t>> \in S
    <2>1. PICK q \in S : p = <<q[1] + d, q[2]>>
      OBVIOUS
    <2>2. <<q[1], q[2]>> \in S
      BY PlacePair
    <2>3. QED
      BY <2>1, <2>2
  <1> HIDE DEF T
  <1>5. ASSUME NEW i, NEW t, <<i, t>> \in S PROVE Proper(g, w, T, i + d, t)
    <2>1. i \in Nat /\ t \in Types
      BY <1>2, <1>5
    <2>2. Proper(h, v, S, i, t)
      BY <1>1, <1>5 DEF Laid
    <2>3. ASSUME NEW fields \in FieldList, FieldsIn(S, i, fields) PROVE FieldsIn(T, i + d, fields)
      <3>1. ASSUME NEW k \in DOMAIN fields
            PROVE  <<(i + d) + fields[k].offset, fields[k].type>> \in T
        <4>1. <<(i + fields[k].offset) + d, fields[k].type>> \in T
          BY <1>2, <2>3 DEF FieldsIn
        <4>2. (i + fields[k].offset) + d = (i + d) + fields[k].offset
          BY <2>1, AField
        <4>3. QED
          BY <4>1, <4>2
      <3>2. QED
        BY <3>1 DEF FieldsIn
    <2>4. i \in DOMAIN v => i + d \in DOMAIN w /\ Similar(h, v[i], g, w[i + d])
      OBVIOUS
    <2>5. CASE Kind(t) = "record"
      BY <2>1, <2>2, <2>3, <2>5, FieldsOfTypes DEF Proper
    <2>6. CASE Kind(t) = "custom"
      <3>1. PICK c \in DOMAIN TypeInfo[t].variants : IsVariant(v, S, i, t, c)
        BY <2>2, <2>6 DEF Proper
      <3> DEFINE fields == TypeInfo[t].variants[c]
                 e == EndOf(fields, 1, Len(fields))
      <3>2. fields \in FieldList /\ SizeOf(t) \in Nat /\ c \in Nat
        BY <2>1, <2>6, FieldsOfTypes
      <3>3. e \in Nat
        <4>1. Len(fields) \in 0 .. Len(fields)
          BY <3>2, AField
        <4> HIDE DEF fields
        <4>2. QED
          BY <3>2, <4>1, EndIsNat
      <3>4. FieldsIn(T, i + d, fields)
        BY <2>3, <3>1, <3>2 DEF IsVariant
      <3>5. i + d \in DOMAIN w /\ w[i + d] = Number(c - 1)
        <4>1. i \in DOMAIN v /\ v[i] = Number(c - 1)
          BY <3>1 DEF IsVariant
        <4>2. c # 0
          <5>1. TypeInfo[t].variants \in Seq(FieldList)
            BY <2>1, <2>6, TypeInfoAssumption DEF Kind
          <5>2. QED
            BY <5>1
        <4>3. v[i] \in Numbers
          BY <3>2, <4>1, <4>2 DEF Numbers
        <4>4. QED
          BY <2>4, <4>1, <4>3 DEF Similar
      <3>6. ASSUME NEW k \in ((i + d) + e) .. ((i + d) + SizeOf(t) - 1)
            PROVE  k \in DOMAIN w /\ w[k] = NoObject
        <4>1. k - d \in (i + e) .. (i + SizeOf(t) - 1) /\ (k - d) + d = k
          <5> HIDE DEF e, fields
          <5>1. i \in Nat /\ d \in Nat /\ e \in Nat /\ SizeOf(t) \in Nat
            BY <2>1, <3>2, <3>3
          <5>2. QED
            BY <5>1, ShiftedBack
        <4>2. k - d \in DOMAIN v /\ v[k - d] = NoObject
          BY <3>1, <4>1 DEF IsVariant
        <4>3. QED
          BY <4>1, <4>2 DEF Similar
      <3>7. IsVariant(w, T, i + d, t, c)
        BY <3>4, <3>5, <3>6 DEF IsVariant
      <3>8. QED
        BY <2>6, <3>7 DEF Proper
    <2>7. CASE Kind(t) = "alias"
      BY <1>2, <2>2, <2>7 DEF Proper
    <2>8. CASE Kind(t) \notin {"record", "custom", "alias"}
      BY <2>2, <2>4, <2>8 DEF Proper, Similar
    <2>9. QED
      BY <2>5, <2>6, <2>7, <2>8
  <1>6. Laid(g, w, T)
    <2>1. ASSUME NEW p \in T PROVE Proper(g, w, T, p[1], p[2])
      <3>1. PICK i, t : p = <<i + d, t>> /\ <<i, t>> \in S
        BY <1>4
      <3>2. p[1] = i + d /\ p[2] = t
        BY <3>1
      <3>3. QED
        BY <1>5, <3>1, <3>2
    <2>2. QED
      BY <2>1 DEF Laid
  <1>7. QED
    BY <1>3, <1>6 DEF Holds

(* In a heap with more cells, the same words hold the same.                 *)
LEMMA HoldsInMore ==
  ASSUME NEW h, NEW g, \A x \in DOMAIN h : x \in DOMAIN g /\ g[x].type = h[x].type,
         NEW w, \A i \in DOMAIN w : i \in Nat, NEW n, NEW u, Holds(h, w, n, u)
  PROVE  Holds(g, w, n, u)
  <1>1. \A i \in DOMAIN w : i + 0 = i
    OBVIOUS
  <1>2. \A i \in DOMAIN w : i + 0 \in DOMAIN w /\ Similar(h, w[i], g, w[i + 0])
    BY <1>1 DEF Similar
  <1>3. Holds(g, w, n + 0, u)
    BY <1>2, Transfer
  <1>4. n + 0 = n
    BY HoldsUnfolds
  <1>5. QED
    BY <1>3, <1>4

-----------------------------------------------------------------------------
(* Every set of numbers that is not empty has a least element: induction    *)
(* over a range is by the least number that fails.                          *)
LEMMA LeastNumber ==
  ASSUME NEW S \in SUBSET Nat, S # {}
  PROVE  \E i \in S : \A j \in S : i <= j
  <1> DEFINE R == OpToRel(<, Nat)
  <1>1. \A x, y \in Nat : <<y, x>> \in R <=> y < x
    BY DEF OpToRel
  <1> HIDE DEF R
  <1>2. PICK x \in S : \A y \in S : ~(<<y, x>> \in R)
    BY NatLessThanWellFounded, WFMin DEF R
  <1>3. ASSUME NEW y \in S PROVE x <= y
    <2>1. x \in Nat /\ y \in Nat /\ ~(y < x)
      BY <1>1, <1>2
    <2>2. QED
      BY <2>1
  <1>4. QED
    BY <1>3

(* The bounds of ranges that follow each other: they rise, and whatever is  *)
(* between the first and the last is in one of the ranges.                  *)
Rising(E, n) == E \in [0 .. n -> Nat] /\ \A k \in 1 .. n : E[k - 1] <= E[k]

LEMMA RisingBounds ==
  ASSUME NEW n \in Nat, NEW E, Rising(E, n)
  PROVE  /\ \A k \in 0 .. n : \A j \in 0 .. k : E[j] <= E[k]
         /\ \A x \in Nat : E[0] <= x /\ x < E[n] => \E k \in 1 .. n : E[k - 1] <= x /\ x < E[k]
  <1>1. ASSUME NEW k \in 0 .. n, NEW j \in 0 .. k, ~ (E[j] <= E[k]) PROVE FALSE
    <2> DEFINE Bad == {i \in j .. n : ~ (E[j] <= E[i])}
    <2>1. Bad \in SUBSET Nat /\ Bad # {}
      BY <1>1
    <2>2. PICK i \in Bad : \A l \in Bad : i <= l
      <3> HIDE DEF Bad
      <3>1. QED
        BY <2>1, LeastNumber
    <2>3. i \in j .. n /\ ~ (E[j] <= E[i])
      BY <2>2
    <2>4. i # j
      <3>1. E[j] \in Nat
        BY DEF Rising
      <3>2. QED
        BY <2>3, <3>1
    <2>5. i - 1 \in j .. n /\ i \in 1 .. n /\ i - 1 \in 0 .. n /\ ~ (i <= i - 1)
      BY <2>3, <2>4
    <2>6. E[j] <= E[i - 1]
      BY <2>2, <2>5
    <2>7. E[i - 1] <= E[i] /\ E[j] \in Nat /\ E[i] \in Nat /\ E[i - 1] \in Nat
      BY <2>5 DEF Rising
    <2>8. QED
      BY <2>3, <2>6, <2>7
  <1>2. ASSUME NEW x \in Nat, E[0] <= x, x < E[n] PROVE \E k \in 1 .. n : E[k - 1] <= x /\ x < E[k]
    <2> DEFINE Above == {i \in 0 .. n : x < E[i]}
    <2>1. Above \in SUBSET Nat /\ Above # {}
      BY <1>2
    <2>2. PICK i \in Above : \A l \in Above : i <= l
      <3> HIDE DEF Above
      <3>1. QED
        BY <2>1, LeastNumber
    <2>3. i \in 0 .. n /\ x < E[i]
      BY <2>2
    <2>4. i # 0
      <3>1. E[0] \in Nat
        BY DEF Rising
      <3>2. QED
        BY <1>2, <2>3, <3>1
    <2>5. i \in 1 .. n /\ i - 1 \in 0 .. n /\ ~ (i <= i - 1)
      BY <2>3, <2>4
    <2>6. ~ (x < E[i - 1])
      BY <2>2, <2>5
    <2>7. E[i - 1] \in Nat
      BY <2>5 DEF Rising
    <2>8. QED
      BY <2>3, <2>5, <2>6, <2>7
  <1>3. QED
    BY <1>1, <1>2

-----------------------------------------------------------------------------
(* The words a task is about, and those of all tasks still to be done.      *)
Between(low, high) == low .. (high - 1)
Span(c) == {c.addr} \X Between(c.index, c.index + SizeOf(c.type))
Spans(tasks) == UNION {Span(tasks[k]) : k \in DOMAIN tasks}
Apart(tasks) == \A j, k \in DOMAIN tasks : j # k => Span(tasks[j]) \cap Span(tasks[k]) = {}

LEMMA ConcatParts ==
  ASSUME NEW S, NEW a \in Seq(S), NEW b \in Seq(S)
  PROVE  /\ \A k \in DOMAIN (a \o b) :
              \/ k \in DOMAIN a /\ (a \o b)[k] = a[k]
              \/ k - Len(a) \in DOMAIN b /\ (a \o b)[k] = b[k - Len(a)] /\ k \notin DOMAIN a
         /\ \A k \in DOMAIN a : k \in DOMAIN (a \o b) /\ (a \o b)[k] = a[k]
         /\ \A k \in DOMAIN b : k + Len(a) \in DOMAIN (a \o b) /\ (a \o b)[k + Len(a)] = b[k]
         /\ \A k \in DOMAIN (a \o b) : k \in Nat /\ Len(a) \in Nat
  <1>1. /\ Len(a) \in Nat /\ DOMAIN a = 1 .. Len(a)
        /\ Len(b) \in Nat /\ DOMAIN b = 1 .. Len(b)
        /\ DOMAIN (a \o b) = 1 .. Len(a) + Len(b)
    BY ConcatProperties
  <1>2. \A k \in 1 .. Len(a) + Len(b) : (a \o b)[k] = IF k <= Len(a) THEN a[k] ELSE b[k - Len(a)]
    BY ConcatProperties
  <1>3. \A k \in DOMAIN (a \o b) :
              \/ k \in DOMAIN a /\ (a \o b)[k] = a[k]
              \/ k - Len(a) \in DOMAIN b /\ (a \o b)[k] = b[k - Len(a)] /\ k \notin DOMAIN a
    BY <1>1, <1>2
  <1>4. \A k \in DOMAIN a : k \in DOMAIN (a \o b) /\ (a \o b)[k] = a[k]
    BY <1>1, <1>2
  <1>5. ASSUME NEW k \in DOMAIN b
        PROVE  k + Len(a) \in DOMAIN (a \o b) /\ (a \o b)[k + Len(a)] = b[k]
    <2>1. k + Len(a) \in 1 .. Len(a) + Len(b) /\ ~ (k + Len(a) <= Len(a)) /\ (k + Len(a)) - Len(a) = k
      BY <1>1
    <2>2. QED
      BY <1>1, <1>2, <2>1
  <1>6. QED
    BY <1>1, <1>3, <1>4, <1>5

LEMMA ConcatApart ==
  ASSUME NEW S, NEW a \in Seq(S), NEW b \in Seq(S)
  PROVE  /\ Spans(a \o b) = Spans(a) \cup Spans(b)
         /\ Apart(a) /\ Apart(b) /\ Spans(a) \cap Spans(b) = {} => Apart(a \o b)
  <1> DEFINE c == a \o b
             n == Len(a)
  <1>1. /\ \A k \in DOMAIN c : \/ k \in DOMAIN a /\ c[k] = a[k]
                               \/ k - n \in DOMAIN b /\ c[k] = b[k - n] /\ k \notin DOMAIN a
        /\ \A k \in DOMAIN a : k \in DOMAIN c /\ c[k] = a[k]
        /\ \A k \in DOMAIN b : k + n \in DOMAIN c /\ c[k + n] = b[k]
        /\ \A k \in DOMAIN c : k \in Nat /\ n \in Nat
    BY ConcatParts
  <1> HIDE DEF c, n
  <1>2. Spans(c) = Spans(a) \cup Spans(b)
    <2>1. ASSUME NEW p PROVE p \in Spans(c) <=> p \in Spans(a) \/ p \in Spans(b)
      <3>1. ASSUME p \in Spans(c) PROVE p \in Spans(a) \/ p \in Spans(b)
        <4>1. PICK k \in DOMAIN c : p \in Span(c[k])
          BY <3>1 DEF Spans
        <4>2. QED
          BY <1>1, <4>1 DEF Spans
      <3>2. ASSUME p \in Spans(a) PROVE p \in Spans(c)
        <4>1. PICK k \in DOMAIN a : p \in Span(a[k])
          BY <3>2 DEF Spans
        <4>2. QED
          BY <1>1, <4>1 DEF Spans
      <3>3. ASSUME p \in Spans(b) PROVE p \in Spans(c)
        <4>1. PICK k \in DOMAIN b : p \in Span(b[k])
          BY <3>3 DEF Spans
        <4>2. k + n \in DOMAIN c /\ c[k + n] = b[k]
          BY <1>1
        <4>3. QED
          BY <4>1, <4>2 DEF Spans
      <3>4. QED
        BY <3>1, <3>2, <3>3
    <2>2. QED
      BY <2>1
  <1>3. ASSUME Apart(a), Apart(b), Spans(a) \cap Spans(b) = {} PROVE Apart(c)
    <2>1. ASSUME NEW j \in DOMAIN c, NEW k \in DOMAIN c, j # k PROVE Span(c[j]) \cap Span(c[k]) = {}
      <3>1. ASSUME NEW i \in DOMAIN a PROVE Span(a[i]) \subseteq Spans(a)
        BY DEF Spans
      <3>2. ASSUME NEW i \in DOMAIN b PROVE Span(b[i]) \subseteq Spans(b)
        BY DEF Spans
      <3>3. CASE j \in DOMAIN a /\ k \in DOMAIN a
        BY <1>1, <1>3, <2>1, <3>3 DEF Apart
      <3>4. CASE j \in DOMAIN a /\ k \notin DOMAIN a
        <4>1. c[j] = a[j] /\ k - n \in DOMAIN b /\ c[k] = b[k - n]
          BY <1>1, <3>4
        <4>2. Span(c[j]) \subseteq Spans(a) /\ Span(c[k]) \subseteq Spans(b)
          BY <3>1, <3>2, <3>4, <4>1
        <4>3. QED
          BY <1>3, <4>2
      <3>5. CASE j \notin DOMAIN a /\ k \in DOMAIN a
        <4>1. c[k] = a[k] /\ j - n \in DOMAIN b /\ c[j] = b[j - n]
          BY <1>1, <3>5
        <4>2. Span(c[k]) \subseteq Spans(a) /\ Span(c[j]) \subseteq Spans(b)
          BY <3>1, <3>2, <3>5, <4>1
        <4>3. QED
          BY <1>3, <4>2
      <3>6. CASE j \notin DOMAIN a /\ k \notin DOMAIN a
        <4>1. j - n \in DOMAIN b /\ c[j] = b[j - n] /\ k - n \in DOMAIN b /\ c[k] = b[k - n]
          BY <1>1, <3>6
        <4>2. j - n # k - n
          BY <1>1, <2>1
        <4>3. QED
          BY <1>3, <4>1, <4>2 DEF Apart
      <3>7. QED
        BY <3>3, <3>4, <3>5, <3>6
    <2>2. QED
      BY <2>1 DEF Apart
  <1>4. QED
    BY <1>2, <1>3 DEF c

(* The next task and the rest.                                              *)
LEMMA HeadApart ==
  ASSUME NEW S, NEW tasks \in Seq(S), tasks # << >>
  PROVE  /\ Tail(tasks) \in Seq(S)
         /\ \A k \in DOMAIN Tail(tasks) : k + 1 \in DOMAIN tasks /\ Tail(tasks)[k] = tasks[k + 1]
         /\ 1 \in DOMAIN tasks /\ Head(tasks) = tasks[1] /\ Head(tasks) \in S
         /\ Spans(tasks) = Span(Head(tasks)) \cup Spans(Tail(tasks))
         /\ Apart(tasks) => Apart(Tail(tasks)) /\ Span(Head(tasks)) \cap Spans(Tail(tasks)) = {}
  <1> DEFINE t == Tail(tasks)
             c == Head(tasks)
  <1>1. t \in Seq(S) /\ c \in S /\ 1 \in DOMAIN tasks /\ c = tasks[1]
    OBVIOUS
  <1>2. \A k \in DOMAIN t : k + 1 \in DOMAIN tasks /\ t[k] = tasks[k + 1] /\ k + 1 # 1 /\ k \in Nat
    OBVIOUS
  <1>3. \A k \in DOMAIN tasks : k # 1 => k - 1 \in DOMAIN t /\ t[k - 1] = tasks[k]
    OBVIOUS
  <1> HIDE DEF t, c
  <1>4. Spans(tasks) = Span(c) \cup Spans(t)
    <2>1. ASSUME NEW p PROVE p \in Spans(tasks) <=> p \in Span(c) \/ p \in Spans(t)
      <3>1. ASSUME p \in Spans(tasks) PROVE p \in Span(c) \/ p \in Spans(t)
        <4>1. PICK k \in DOMAIN tasks : p \in Span(tasks[k])
          BY <3>1 DEF Spans
        <4>2. QED
          BY <1>1, <1>3, <4>1 DEF Spans
      <3>2. ASSUME p \in Span(c) PROVE p \in Spans(tasks)
        BY <1>1, <3>2 DEF Spans
      <3>3. ASSUME p \in Spans(t) PROVE p \in Spans(tasks)
        <4>1. PICK k \in DOMAIN t : p \in Span(t[k])
          BY <3>3 DEF Spans
        <4>2. QED
          BY <1>2, <4>1 DEF Spans
      <3>4. QED
        BY <3>1, <3>2, <3>3
    <2>2. QED
      BY <2>1
  <1>5. ASSUME Apart(tasks) PROVE Apart(t) /\ Span(c) \cap Spans(t) = {}
    <2>1. ASSUME NEW j \in DOMAIN t, NEW k \in DOMAIN t, j # k PROVE Span(t[j]) \cap Span(t[k]) = {}
      <3>1. j + 1 \in DOMAIN tasks /\ k + 1 \in DOMAIN tasks /\ t[j] = tasks[j + 1] /\ t[k] = tasks[k + 1]
            /\ j + 1 # k + 1
        BY <1>2, <2>1
      <3>2. QED
        BY <1>5, <3>1 DEF Apart
    <2>2. ASSUME NEW p, p \in Span(c), p \in Spans(t) PROVE FALSE
      <3>1. PICK k \in DOMAIN t : p \in Span(t[k])
        BY <2>2 DEF Spans
      <3>2. k + 1 \in DOMAIN tasks /\ t[k] = tasks[k + 1] /\ k + 1 # 1
        BY <1>2
      <3>3. QED
        BY <1>1, <1>5, <2>2, <3>1, <3>2 DEF Apart
    <2>3. QED
      BY <2>1, <2>2 DEF Apart
  <1>6. QED
    BY <1>1, <1>2, <1>4, <1>5 DEF t, c

(* Tasks for ranges of words that follow each other.                        *)
LEMMA Tiles ==
  ASSUME NEW n \in Nat, NEW E, Rising(E, n), NEW a, NEW tasks, DOMAIN tasks = 1 .. n,
         \A k \in 1 .. n : Span(tasks[k]) = {a} \X Between(E[k - 1], E[k])
  PROVE  Apart(tasks) /\ Spans(tasks) = {a} \X Between(E[0], E[n])
  <1>1. \A k \in 0 .. n : E[k] \in Nat
    BY DEF Rising
  <1>2. \A k \in 0 .. n : \A j \in 0 .. k : E[j] <= E[k]
    BY RisingBounds
  <1>3. ASSUME NEW j \in 1 .. n, NEW k \in 1 .. n, j < k PROVE Span(tasks[j]) \cap Span(tasks[k]) = {}
    <2>1. j \in 0 .. k - 1 /\ k - 1 \in 0 .. n /\ j \in 0 .. n /\ k \in 0 .. n /\ j - 1 \in 0 .. n
      BY <1>3
    <2>2. E[j] <= E[k - 1] /\ E[j] \in Nat /\ E[k - 1] \in Nat /\ E[k] \in Nat /\ E[j - 1] \in Nat
      BY <1>1, <1>2, <2>1
    <2>3. Between(E[j - 1], E[j]) \cap Between(E[k - 1], E[k]) = {}
      BY <2>2 DEF Between
    <2>4. QED
      BY <2>3
  <1>4. Apart(tasks)
    <2>1. ASSUME NEW j \in 1 .. n, NEW k \in 1 .. n, j # k PROVE Span(tasks[j]) \cap Span(tasks[k]) = {}
      <3>1. j < k \/ k < j
        BY <2>1
      <3>2. QED
        BY <1>3, <3>1
    <2>2. QED
      BY <2>1 DEF Apart
  <1>5. ASSUME NEW p PROVE p \in Spans(tasks) <=> p \in {a} \X Between(E[0], E[n])
    <2>1. ASSUME p \in Spans(tasks) PROVE p \in {a} \X Between(E[0], E[n])
      <3>1. PICK k \in 1 .. n : p \in {a} \X Between(E[k - 1], E[k])
        BY <2>1 DEF Spans
      <3>2. E[0] <= E[k - 1] /\ E[k] <= E[n] /\ E[0] \in Nat /\ E[n] \in Nat /\ E[k] \in Nat /\ E[k - 1] \in Nat
        <4>1. 0 \in 0 .. k - 1 /\ k - 1 \in 0 .. n /\ k \in 0 .. n /\ n \in 0 .. n /\ 0 \in 0 .. n
          OBVIOUS
        <4>2. QED
          BY <1>1, <1>2, <4>1
      <3>3. Between(E[k - 1], E[k]) \subseteq Between(E[0], E[n])
        BY <3>2 DEF Between
      <3>4. QED
        BY <3>1, <3>3
    <2>2. ASSUME p \in {a} \X Between(E[0], E[n]) PROVE p \in Spans(tasks)
      <3>1. PICK x \in Between(E[0], E[n]) : p = <<a, x>>
        BY <2>2
      <3>2. E[0] \in Nat /\ E[n] \in Nat
        BY <1>1
      <3>3. x \in Nat /\ E[0] <= x /\ x < E[n]
        BY <3>2 DEF Between
      <3>4. PICK k \in 1 .. n : E[k - 1] <= x /\ x < E[k]
        BY <3>3, RisingBounds
      <3>5. x \in Between(E[k - 1], E[k])
        <4>1. E[k] \in Nat /\ E[k - 1] \in Nat
          BY <1>1
        <4>2. QED
          BY <3>3, <3>4, <4>1 DEF Between
      <3>6. p \in Span(tasks[k])
        BY <3>1, <3>5
      <3>7. QED
        BY <3>6 DEF Spans
    <2>3. QED
      BY <2>1, <2>2
  <1>6. QED
    BY <1>4, <1>5

(* Fields are such ranges.                                                  *)
Ends(fields, start, d) == [k \in 0 .. Len(fields) |-> d + EndOf(fields, start, k)]

LEMMA FieldsRise ==
  ASSUME NEW fields \in FieldList, NEW start \in Nat, NEW d \in Nat, Follow(fields, start)
  PROVE  /\ Rising(Ends(fields, start, d), Len(fields))
         /\ \A k \in 1 .. Len(fields) :
              /\ Ends(fields, start, d)[k - 1] = d + fields[k].offset
              /\ Ends(fields, start, d)[k] = (d + fields[k].offset) + SizeOf(fields[k].type)
         /\ Ends(fields, start, d)[0] = d + start
         /\ Ends(fields, start, d)[Len(fields)] = d + EndOf(fields, start, Len(fields))
  <1> DEFINE n == Len(fields)
             E == Ends(fields, start, d)
  <1>1. /\ n \in Nat /\ DOMAIN fields = 1 .. n
        /\ \A k \in 1 .. n : fields[k].offset \in Nat /\ SizeOf(fields[k].type) \in Nat
    BY AField, FieldsOfTypes
  <1>2. \A k \in 0 .. n : EndOf(fields, start, k) \in Nat
    BY EndIsNat
  <1>3. \A k \in 0 .. n : E[k] = d + EndOf(fields, start, k)
    BY DEF Ends
  <1>4. ASSUME NEW k \in 1 .. n
        PROVE  /\ E[k - 1] = d + fields[k].offset
               /\ E[k] = (d + fields[k].offset) + SizeOf(fields[k].type)
    <2>1. k - 1 \in 0 .. n /\ k \in 0 .. n /\ k # 0
      BY <1>1
    <2>2. fields[k].offset = EndOf(fields, start, k - 1)
      BY <1>1 DEF Follow
    <2>3. EndOf(fields, start, k) = fields[k].offset + SizeOf(fields[k].type)
      BY <2>1 DEF EndOf, SizeOf
    <2>4. E[k - 1] = d + EndOf(fields, start, k - 1) /\ E[k] = d + EndOf(fields, start, k)
      BY <1>3, <2>1
    <2> HIDE DEF E
    <2>5. QED
      BY <1>1, <2>2, <2>3, <2>4
  <1>5. Rising(E, n)
    <2>1. E \in [0 .. n -> Nat]
      BY <1>2 DEF Ends
    <2>2. ASSUME NEW k \in 1 .. n PROVE E[k - 1] <= E[k]
      <3>1. fields[k].offset \in Nat /\ SizeOf(fields[k].type) \in Nat
        BY <1>1
      <3> HIDE DEF E
      <3>2. QED
        BY <1>4, <3>1
    <2>3. QED
      BY <2>1, <2>2 DEF Rising
  <1>6. E[0] = d + start /\ E[n] = d + EndOf(fields, start, n)
    <2>1. 0 \in 0 .. n /\ n \in 0 .. n
      BY <1>1
    <2>2. EndOf(fields, start, 0) = start
      BY DEF EndOf
    <2>3. QED
      BY <1>3, <2>1, <2>2
  <1>7. QED
    BY <1>1, <1>4, <1>5, <1>6

LEMMA EndIsPast ==
  ASSUME NEW fields \in FieldList, Follow(fields, 1)
  PROVE  EndOf(fields, 1, Len(fields)) \in Nat /\ EndOf(fields, 1, Len(fields)) >= 1
  <1> DEFINE E == Ends(fields, 1, 0)
             n == Len(fields)
  <1>1. n \in Nat /\ n \in 0 .. n /\ 0 \in 0 .. n
    BY AField
  <1>2. EndOf(fields, 1, n) \in Nat
    BY <1>1, EndIsNat
  <1>3. Rising(E, n) /\ E[0] = 0 + 1 /\ E[n] = 0 + EndOf(fields, 1, n)
    <2>1. Rising(E, n)
      BY FieldsRise
    <2>2. \A d \in Nat : Ends(fields, 1, d)[0] = d + 1
      BY FieldsRise
    <2>3. E[0] = 0 + 1
      BY <2>2
    <2>4. E[n] = 0 + EndOf(fields, 1, n)
      BY FieldsRise
    <2>5. QED
      BY <2>1, <2>3, <2>4
  <1> HIDE DEF E, n
  <1>4. E[0] <= E[n]
    BY <1>1, <1>3, RisingBounds
  <1>5. EndOf(fields, 1, n) >= 1
    BY <1>2, <1>3, <1>4
  <1>6. QED
    BY <1>2, <1>5 DEF n

-----------------------------------------------------------------------------
(* The copy and what it was made of.  src is the heap the state is in, with *)
(* the state itself at << >>; m is the memory the copy is in; `from' is the *)
(* cell each cell of the copy was made of; `clones' relates an object of    *)
(* the copy and the one of the state it stands for.                         *)
SameShape(new, old) ==
  /\ new.type = old.type
  /\ new.count = old.count /\ new.itemSize = old.itemSize /\ new.itemAlign = old.itemAlign
  /\ DOMAIN new.words = DOMAIN old.words

Matches(from, clones, w, v) ==
  /\ v \in Pointers => w \in DOMAIN from /\ from[w] = v
  /\ v \in Objects => <<w, v>> \in clones
  /\ v \notin Pointers \cup Objects => w = v

(* A word a task is still to come for is the one of the state.              *)
WordOK(from, clones, due, p, w, v) == IF p \in due THEN w = v ELSE Matches(from, clones, w, v)

CellOK(from, clones, due, x, new, old) ==
  /\ SameShape(new, old)
  /\ \A i \in DOMAIN old.words : WordOK(from, clones, due, <<x, i>>, new.words[i], old.words[i])

TaskOK(src, from, c) ==
  /\ c.addr \in DOMAIN from /\ c.index \in Nat /\ c.type \in Types
  /\ c.op = "visit" => Holds(src, src[from[c.addr]].words, c.index, c.type)
  /\ c.op = "store" =>
       /\ Kind(c.type) = "list"
       /\ c.index \in DOMAIN src[from[c.addr]].words
       /\ c.cell \in DOMAIN from
       /\ src[from[c.addr]].words[c.index] = from[c.cell]
       /\ from[c.cell] \in Pointers

Copying(src, m, from, tasks, clones) ==
  /\ from \in [DOMAIN from -> DOMAIN src] /\ DOMAIN from \subseteq DOMAIN m
  /\ \A x \in DOMAIN from : CellOK(from, clones, Spans(tasks), x, m[x], src[from[x]])
  /\ Apart(tasks)
  /\ \A k \in DOMAIN tasks : TaskOK(src, from, tasks[k])

(* More matches never undo one.                                             *)
LEMMA MoreMatches ==
  ASSUME NEW from, NEW from2, DOMAIN from \subseteq DOMAIN from2, \A x \in DOMAIN from : from2[x] = from[x],
         NEW clones, NEW clones2, clones \subseteq clones2
  PROVE  /\ \A w, v : Matches(from, clones, w, v) => Matches(from2, clones2, w, v)
         /\ \A src, c : TaskOK(src, from, c) => TaskOK(src, from2, c)
  BY DEF Matches, TaskOK

(* One step of a copy: the next task c makes way for other ones, about its  *)
(* words and those of new cells.                                            *)
StepOK(src, m, from, clones, c, m2, from2, calls, clones2) ==
  /\ clones \subseteq clones2
  /\ from2 \in [DOMAIN from2 -> DOMAIN src]
  /\ DOMAIN from \subseteq DOMAIN from2 /\ DOMAIN from2 \subseteq DOMAIN m2
  /\ \A x \in DOMAIN from :
       /\ from2[x] = from[x]
       /\ SameShape(m2[x], m[x])
       /\ \A i \in DOMAIN m[x].words : <<x, i>> \notin Span(c) => m2[x].words[i] = m[x].words[i]
       /\ \A i \in DOMAIN src[from[x]].words : <<x, i>> \in Span(c) =>
            WordOK(from2, clones2, Spans(calls), <<x, i>>, m2[x].words[i], src[from[x]].words[i])
  /\ \A x \in DOMAIN from2 : x \notin DOMAIN from => CellOK(from2, clones2, Spans(calls), x, m2[x], src[from2[x]])
  /\ \A p \in Spans(calls) : p \in Span(c) \/ p[1] \notin DOMAIN from
  /\ Apart(calls)
  /\ \A k \in DOMAIN calls : TaskOK(src, from2, calls[k])

LEMMA CopyGoesOn ==
  ASSUME NEW src, NEW m, NEW from, NEW S, NEW tasks \in Seq(S), tasks # << >>, NEW clones,
         Copying(src, m, from, tasks, clones),
         NEW m2, NEW from2, NEW calls \in Seq(S), NEW clones2,
         StepOK(src, m, from, clones, Head(tasks), m2, from2, calls, clones2)
  PROVE  Copying(src, m2, from2, calls \o Tail(tasks), clones2)
  <1> DEFINE c == Head(tasks)
             t == Tail(tasks)
  <1>1. /\ t \in Seq(S)
        /\ \A k \in DOMAIN t : k + 1 \in DOMAIN tasks /\ t[k] = tasks[k + 1]
        /\ Spans(tasks) = Span(c) \cup Spans(t)
    BY HeadApart
  <1>2. Apart(t) /\ Span(c) \cap Spans(t) = {}
    BY HeadApart DEF Copying
  <1> HIDE DEF c, t
  <1>0. StepOK(src, m, from, clones, c, m2, from2, calls, clones2)
    BY DEF c
  <1>3. ASSUME NEW p \in Spans(t) PROVE p[1] \in DOMAIN from
    <2>1. PICK k \in DOMAIN t : p \in Span(t[k])
      BY DEF Spans
    <2>2. TaskOK(src, from, tasks[k + 1]) /\ t[k] = tasks[k + 1]
      BY <1>1 DEF Copying
    <2>3. p[1] = t[k].addr
      BY <2>1 DEF Span
    <2>4. QED
      BY <2>2, <2>3 DEF TaskOK
  <1>4. Spans(calls) \cap Spans(t) = {}
    <2>1. ASSUME NEW p, p \in Spans(calls), p \in Spans(t) PROVE FALSE
      BY <1>0, <1>2, <1>3, <2>1 DEF StepOK
    <2>2. QED
      BY <2>1
  <1>5. Apart(calls \o t) /\ Spans(calls \o t) = Spans(calls) \cup Spans(t)
    <2>1. Apart(calls)
      BY <1>0 DEF StepOK
    <2>2. QED
      BY <2>1, <1>1, <1>2, <1>4, ConcatApart
  <1>6. ASSUME NEW x \in DOMAIN from
        PROVE  CellOK(from2, clones2, Spans(calls \o t), x, m2[x], src[from2[x]])
    <2>1. CellOK(from, clones, Spans(tasks), x, m[x], src[from[x]]) /\ from2[x] = from[x]
      BY <1>0 DEF Copying, StepOK
    <2>2. SameShape(m2[x], src[from[x]]) /\ DOMAIN m[x].words = DOMAIN src[from[x]].words
      <3>1. SameShape(m2[x], m[x]) /\ SameShape(m[x], src[from[x]])
        BY <1>0, <2>1 DEF CellOK, StepOK
      <3>2. QED
        BY <3>1 DEF SameShape
    <2>3. ASSUME NEW i \in DOMAIN src[from[x]].words
          PROVE  WordOK(from2, clones2, Spans(calls \o t), <<x, i>>, m2[x].words[i], src[from[x]].words[i])
      <3> DEFINE p == <<x, i>>
                 w == m[x].words[i]
                 w2 == m2[x].words[i]
                 v == src[from[x]].words[i]
      <3>1. p[1] \in DOMAIN from
        OBVIOUS
      <3>2. WordOK(from, clones, Spans(tasks), p, w, v)
        BY <2>1 DEF CellOK
      <3>3. p \in Span(c) => WordOK(from2, clones2, Spans(calls), p, w2, v)
        BY <1>0, <2>1 DEF StepOK
      <3>4. p \notin Span(c) => w2 = w
        BY <1>0, <2>2 DEF StepOK
      <3>5. p \in Spans(calls) => p \in Span(c)
        BY <1>0, <3>1 DEF StepOK
      <3>6. Matches(from, clones, w, v) => Matches(from2, clones2, w, v)
        BY <1>0, MoreMatches DEF StepOK
      <3> HIDE DEF p, w, w2, v
      <3>7. CASE p \in Span(c)
        <4>1. p \notin Spans(t)
          BY <1>2, <3>7
        <4>2. p \in Spans(calls \o t) <=> p \in Spans(calls)
          BY <1>5, <4>1
        <4>3. WordOK(from2, clones2, Spans(calls \o t), p, w2, v)
          BY <3>3, <3>7, <4>2 DEF WordOK
        <4>4. QED
          BY <4>3 DEF p, w2, v
      <3>8. CASE p \notin Span(c)
        <4>1. p \in Spans(calls \o t) <=> p \in Spans(tasks)
          BY <1>1, <1>5, <3>5, <3>8
        <4>2. WordOK(from2, clones2, Spans(calls \o t), p, w2, v)
          BY <3>2, <3>4, <3>6, <3>8, <4>1 DEF WordOK
        <4>3. QED
          BY <4>2 DEF p, w2, v
      <3>9. QED
        BY <3>7, <3>8
    <2>4. QED
      BY <2>1, <2>2, <2>3 DEF CellOK
  <1>7. ASSUME NEW x \in DOMAIN from2, x \notin DOMAIN from
        PROVE  CellOK(from2, clones2, Spans(calls \o t), x, m2[x], src[from2[x]])
    <2>1. CellOK(from2, clones2, Spans(calls), x, m2[x], src[from2[x]])
      BY <1>0, <1>7 DEF StepOK
    <2>2. ASSUME NEW i PROVE <<x, i>> \in Spans(calls \o t) <=> <<x, i>> \in Spans(calls)
      <3>1. <<x, i>>[1] = x
        OBVIOUS
      <3>2. <<x, i>> \notin Spans(t)
        BY <1>3, <1>7, <3>1
      <3>3. QED
        BY <1>5, <3>2
    <2>3. QED
      BY <2>1, <2>2 DEF CellOK, WordOK
  <1>8. ASSUME NEW k \in DOMAIN (calls \o t) PROVE TaskOK(src, from2, (calls \o t)[k])
    <2>1. \/ k \in DOMAIN calls /\ (calls \o t)[k] = calls[k]
          \/ k - Len(calls) \in DOMAIN t /\ (calls \o t)[k] = t[k - Len(calls)]
      BY <1>1, ConcatParts
    <2>2. ASSUME NEW j \in DOMAIN t PROVE TaskOK(src, from2, t[j])
      <3>1. TaskOK(src, from, t[j])
        BY <1>1 DEF Copying
      <3>2. QED
        BY <1>0, <3>1, MoreMatches DEF StepOK
    <2>3. QED
      BY <1>0, <2>1, <2>2 DEF StepOK
  <1>9. Copying(src, m2, from2, calls \o t, clones2)
    BY <1>0, <1>5, <1>6, <1>7, <1>8 DEF Copying, StepOK
  <1>10. QED
    BY <1>9 DEF t

(* The next task: its words are still those of the state.                   *)
AsInState(src, m, from, c) ==
  /\ DOMAIN m[c.addr].words = DOMAIN src[from[c.addr]].words
  /\ \A i \in DOMAIN src[from[c.addr]].words : <<c.addr, i>> \in Span(c) =>
       m[c.addr].words[i] = src[from[c.addr]].words[i]

LEMMA NextTask ==
  ASSUME NEW src, NEW m, NEW from, NEW S, NEW tasks \in Seq(S), tasks # << >>, NEW clones,
         Copying(src, m, from, tasks, clones)
  PROVE  /\ TaskOK(src, from, Head(tasks))
         /\ AsInState(src, m, from, Head(tasks))
  <1> DEFINE c == Head(tasks)
             old == src[from[c.addr]].words
  <1>1. c = tasks[1] /\ 1 \in DOMAIN tasks /\ Span(c) \subseteq Spans(tasks)
    BY HeadApart
  <1> HIDE DEF c
  <1>2. TaskOK(src, from, c)
    BY <1>1 DEF Copying
  <1>3. CellOK(from, clones, Spans(tasks), c.addr, m[c.addr], src[from[c.addr]])
    BY <1>2 DEF TaskOK, Copying
  <1>4. DOMAIN m[c.addr].words = DOMAIN old
    BY <1>3 DEF CellOK, SameShape
  <1>5. \A i \in DOMAIN old : <<c.addr, i>> \in Span(c) => m[c.addr].words[i] = old[i]
    BY <1>1, <1>3 DEF CellOK, WordOK
  <1>6. AsInState(src, m, from, c)
    BY <1>4, <1>5 DEF AsInState
  <1>7. QED
    BY <1>2, <1>6 DEF c

(* A task makes way for ones about some of its words; what the others hold  *)
(* stands for itself.                                                       *)
LEMMA CopySplits ==
  ASSUME NEW src, NEW m, NEW from, NEW S, NEW tasks \in Seq(S), tasks # << >>, NEW clones,
         Copying(src, m, from, tasks, clones),
         NEW calls \in Seq(S), NEW clones2, clones \subseteq clones2,
         Apart(calls), \A k \in DOMAIN calls : TaskOK(src, from, calls[k]),
         Spans(calls) \subseteq Span(Head(tasks)),
         \A i \in DOMAIN src[from[Head(tasks).addr]].words :
           <<Head(tasks).addr, i>> \in Span(Head(tasks)) /\ <<Head(tasks).addr, i>> \notin Spans(calls) =>
             Matches(from, clones2, src[from[Head(tasks).addr]].words[i], src[from[Head(tasks).addr]].words[i])
  PROVE  Copying(src, m, from, calls \o Tail(tasks), clones2)
  <1>1. from \in [DOMAIN from -> DOMAIN src] /\ DOMAIN from \subseteq DOMAIN m
    BY DEF Copying
  <1>2. \A x \in DOMAIN from : SameShape(m[x], m[x])
    BY DEF SameShape
  <1>3. ASSUME NEW x \in DOMAIN from, NEW i \in DOMAIN src[from[x]].words, <<x, i>> \in Span(Head(tasks))
        PROVE  WordOK(from, clones2, Spans(calls), <<x, i>>, m[x].words[i], src[from[x]].words[i])
    <2>1. x = Head(tasks).addr
      BY <1>3 DEF Span
    <2>2. m[x].words[i] = src[from[x]].words[i]
      <3>1. AsInState(src, m, from, Head(tasks))
        BY NextTask
      <3>2. QED
        BY <1>3, <2>1, <3>1 DEF AsInState
    <2>3. QED
      BY <1>3, <2>1, <2>2 DEF WordOK
  <1>4. StepOK(src, m, from, clones, Head(tasks), m, from, calls, clones2)
    BY <1>1, <1>2, <1>3 DEF StepOK
  <1>5. QED
    BY <1>4, CopyGoesOn

IsCell(c) == c = CellOf(c.type, c.words, c.count, c.itemSize, c.itemAlign)

OneWritten(m2, m, addr, index, x) ==
  /\ SameShape(m2[addr], m[addr])
  /\ m2[addr].words[index] = x
  /\ \A i \in DOMAIN m[addr].words : i # index => m2[addr].words[i] = m[addr].words[i]
  /\ \A y \in DOMAIN m : y # addr => m2[y] = m[y]
  /\ DOMAIN m2 = DOMAIN m

LEMMA WrittenCell ==
  ASSUME NEW m, NEW addr \in DOMAIN m, NEW index, NEW x, IsCell(m[addr]), index \in DOMAIN m[addr].words
  PROVE  OneWritten(Written(m, addr, index, x), m, addr, index, x)
  <1> DEFINE new == [m[addr].words EXCEPT ![index] = x]
             m2 == Written(m, addr, index, x)
  <1>1. m2[addr] = [m[addr] EXCEPT !.words = new]
    BY DEF Written
  <1>2. m2[addr] = CellOf(m[addr].type, new, m[addr].count, m[addr].itemSize, m[addr].itemAlign)
    <2> HIDE DEF new, m2
    <2>1. QED
      BY <1>1 DEF IsCell, CellOf
  <1>3. /\ DOMAIN new = DOMAIN m[addr].words /\ new[index] = x
        /\ \A i \in DOMAIN m[addr].words : i # index => new[i] = m[addr].words[i]
    OBVIOUS
  <1>4. DOMAIN m2 = DOMAIN m /\ \A y \in DOMAIN m : y # addr => m2[y] = m[y]
    BY DEF Written
  <1> HIDE DEF new, m2
  <1>5. SameShape(m2[addr], m[addr]) /\ m2[addr].words = new
    BY <1>2, <1>3 DEF SameShape, CellOf
  <1>6. QED
    BY <1>3, <1>4, <1>5 DEF m2, OneWritten

(* A task about one word is over when the word is written.                  *)
LEMMA CopyWrites ==
  ASSUME NEW src, NEW m, NEW from, NEW S, NEW tasks \in Seq(S), tasks # << >>, NEW clones,
         Copying(src, m, from, tasks, clones),
         NEW clones2, clones \subseteq clones2, NEW x,
         SizeOf(Head(tasks).type) = 1,
         IsCell(m[Head(tasks).addr]),
         Head(tasks).index \in DOMAIN src[from[Head(tasks).addr]].words,
         Matches(from, clones2, x, src[from[Head(tasks).addr]].words[Head(tasks).index])
  PROVE  Copying(src, Written(m, Head(tasks).addr, Head(tasks).index, x), from, << >> \o Tail(tasks), clones2)
  <1> DEFINE c == Head(tasks)
             m2 == Written(m, c.addr, c.index, x)
  <1>1. TaskOK(src, from, c) /\ DOMAIN m[c.addr].words = DOMAIN src[from[c.addr]].words
    <2> HIDE DEF m2
    <2>1. TaskOK(src, from, Head(tasks))
      BY NextTask
    <2>2. AsInState(src, m, from, Head(tasks))
      BY NextTask
    <2>3. QED
      BY <2>1, <2>2 DEF AsInState
  <1>2. c.addr \in DOMAIN from /\ c.addr \in DOMAIN m /\ c.index \in Nat
    BY <1>1 DEF TaskOK, Copying
  <1>3. /\ SameShape(m2[c.addr], m[c.addr])
        /\ m2[c.addr].words[c.index] = x
        /\ \A i \in DOMAIN m[c.addr].words : i # c.index => m2[c.addr].words[i] = m[c.addr].words[i]
        /\ \A y \in DOMAIN m : y # c.addr => m2[y] = m[y]
        /\ DOMAIN m2 = DOMAIN m
    <2>1. OneWritten(m2, m, c.addr, c.index, x)
      BY <1>1, <1>2, WrittenCell
    <2>2. QED
      BY <2>1 DEF OneWritten
  <1>4. Span(c) = {<<c.addr, c.index>>}
    <2>1. Between(c.index, c.index + 1) = {c.index}
      BY <1>2 DEF Between
    <2> HIDE DEF c
    <2>2. SizeOf(c.type) = 1
      BY DEF c
    <2>3. QED
      BY <2>1, <2>2 DEF Span
  <1>5. from \in [DOMAIN from -> DOMAIN src] /\ DOMAIN from \subseteq DOMAIN m
    BY DEF Copying
  <1>6. Matches(from, clones2, x, src[from[c.addr]].words[c.index])
    OBVIOUS
  <1>7. << >> \in Seq(S) /\ Spans(<< >>) = {} /\ Apart(<< >>) /\ \A k \in DOMAIN << >> : TaskOK(src, from, << >>[k])
    BY DEF Spans, Apart
  <1> HIDE DEF c, m2
  <1>8. \A y \in DOMAIN from : SameShape(m2[y], m[y])
    <2>1. ASSUME NEW y \in DOMAIN from, y # c.addr PROVE m2[y] = m[y]
      BY <1>3, <1>5, <2>1
    <2>2. QED
      BY <1>3, <2>1 DEF SameShape
  <1>9. \A y \in DOMAIN from : \A i \in DOMAIN m[y].words : <<y, i>> \notin Span(c) => m2[y].words[i] = m[y].words[i]
    <2>1. ASSUME NEW y \in DOMAIN from, NEW i \in DOMAIN m[y].words, <<y, i>> \notin Span(c)
          PROVE  m2[y].words[i] = m[y].words[i]
      <3>1. CASE y = c.addr
        BY <1>3, <1>4, <2>1, <3>1
      <3>2. CASE y # c.addr
        BY <1>3, <1>5, <3>2
      <3>3. QED
        BY <3>1, <3>2
    <2>2. QED
      BY <2>1
  <1>10. \A y \in DOMAIN from : \A i \in DOMAIN src[from[y]].words :
           <<y, i>> \in Span(c) => WordOK(from, clones2, Spans(<< >>), <<y, i>>, m2[y].words[i], src[from[y]].words[i])
    <2>1. ASSUME NEW y \in DOMAIN from, NEW i \in DOMAIN src[from[y]].words, <<y, i>> \in Span(c)
          PROVE  WordOK(from, clones2, Spans(<< >>), <<y, i>>, m2[y].words[i], src[from[y]].words[i])
      <3>1. y = c.addr /\ i = c.index
        BY <1>4, <2>1
      <3>2. QED
        BY <1>3, <1>6, <1>7, <3>1 DEF WordOK
    <2>2. QED
      BY <2>1
  <1>11. DOMAIN from \subseteq DOMAIN m2
    BY <1>3, <1>5
  <1>12. StepOK(src, m, from, clones, c, m2, from, << >>, clones2)
    BY <1>5, <1>7, <1>8, <1>9, <1>10, <1>11 DEF StepOK
  <1>13. Copying(src, m2, from, << >> \o Tail(tasks), clones2)
    BY <1>7, <1>12, CopyGoesOn DEF c
  <1>14. QED
    BY <1>13 DEF c, m2

-----------------------------------------------------------------------------
(* What the calls do to a copy, by the kind of the next one's type.         *)
OldWords(src, from, c) == src[from[c.addr]].words

LEMMA SpanOfOne ==
  ASSUME NEW c, c.index \in Nat, SizeOf(c.type) = 1
  PROVE  Span(c) = {<<c.addr, c.index>>}
  <1>1. Between(c.index, c.index + 1) = {c.index}
    BY DEF Between
  <1>2. QED
    BY <1>1 DEF Span

LEMMA NoTasks ==
  ASSUME NEW S
  PROVE  << >> \in Seq(S) /\ Spans(<< >>) = {} /\ Apart(<< >>) /\ DOMAIN << >> = {}
  BY DEF Spans, Apart

NextIs(c, tasks) == tasks # << >> /\ c = Head(tasks)

(* A call that leaves its word.                                             *)
LEMMA CopyLeaves ==
  ASSUME NEW src, NEW m, NEW from, NEW S, NEW tasks \in Seq(S), NEW clones,
         Copying(src, m, from, tasks, clones), NEW clones2, clones \subseteq clones2,
         NEW c, NextIs(c, tasks), SizeOf(c.type) = 1,
         Matches(from, clones2, OldWords(src, from, c)[c.index], OldWords(src, from, c)[c.index])
  PROVE  Copying(src, m, from, << >> \o Tail(tasks), clones2)
  <1>1. TaskOK(src, from, c)
    BY NextTask DEF NextIs
  <1>2. Span(c) = {<<c.addr, c.index>>}
    BY <1>1, SpanOfOne DEF TaskOK
  <1>3. << >> \in Seq(S) /\ Spans(<< >>) = {} /\ Apart(<< >>) /\ DOMAIN << >> = {}
    BY NoTasks
  <1>4. \A i \in DOMAIN src[from[Head(tasks).addr]].words :
           <<Head(tasks).addr, i>> \in Span(Head(tasks)) /\ <<Head(tasks).addr, i>> \notin Spans(<< >>) =>
             Matches(from, clones2, src[from[Head(tasks).addr]].words[i], src[from[Head(tasks).addr]].words[i])
    <2>1. ASSUME NEW i, <<c.addr, i>> \in Span(c) PROVE i = c.index
      BY <1>2, <2>1
    <2>2. Matches(from, clones2, src[from[c.addr]].words[c.index], src[from[c.addr]].words[c.index])
      BY DEF OldWords
    <2>3. QED
      BY <2>1, <2>2 DEF NextIs
  <1>5. QED
    BY <1>3, <1>4, CopySplits DEF NextIs

(* A call that makes way for one of each field.                             *)
FieldTasks(calls, c, fields) ==
  /\ DOMAIN calls = DOMAIN fields
  /\ \A k \in DOMAIN fields : calls[k] = Visit(c.addr, c.index + fields[k].offset, fields[k].type)

PlainFrom(words, a, b) == \A i \in DOMAIN words : i \in Between(a, b) => words[i] \notin Pointers \cup Objects

FieldsOf(src, words, c, fields, start) ==
  /\ Follow(fields, start)
  /\ EndOf(fields, start, Len(fields)) <= SizeOf(c.type)
  /\ FieldsIn(Held(src, words), c.index, fields)
  /\ PlainFrom(words, c.index, c.index + start)
  /\ PlainFrom(words, c.index + EndOf(fields, start, Len(fields)), c.index + SizeOf(c.type))

LEMMA CopyFields ==
  ASSUME NEW src, NEW m, NEW from, NEW S, NEW tasks \in Seq(S), NEW clones,
         Copying(src, m, from, tasks, clones),
         NEW c, NextIs(c, tasks), NEW calls \in Seq(S), NEW fields \in FieldList, NEW start \in Nat,
         FieldTasks(calls, c, fields), FieldsOf(src, OldWords(src, from, c), c, fields, start)
  PROVE  Copying(src, m, from, calls \o Tail(tasks), clones)
  <1> DEFINE n == Len(fields)
             e == EndOf(fields, start, n)
             E == Ends(fields, start, c.index)
  <1>1. TaskOK(src, from, c)
    BY NextTask DEF NextIs
  <1>2. c.addr \in DOMAIN from /\ c.index \in Nat /\ c.type \in Types /\ SizeOf(c.type) \in Nat
    BY <1>1, FieldsOfTypes DEF TaskOK
  <1>3. n \in Nat /\ DOMAIN fields = 1 .. n /\ n \in 0 .. n
        /\ \A k \in 1 .. n : fields[k].offset \in Nat /\ fields[k].type \in Types
    BY AField
  <1>4. /\ Rising(E, n)
        /\ \A k \in 1 .. n : /\ E[k - 1] = c.index + fields[k].offset
                             /\ E[k] = (c.index + fields[k].offset) + SizeOf(fields[k].type)
        /\ E[0] = c.index + start
        /\ E[n] = c.index + e
    <2>1. Follow(fields, start)
      BY DEF FieldsOf
    <2>2. QED
      BY <1>2, <1>3, <2>1, FieldsRise
  <1>5. e \in Nat /\ e <= SizeOf(c.type)
    <2>1. e \in Nat
      BY <1>3, EndIsNat
    <2>2. QED
      BY <2>1 DEF FieldsOf
  <1> HIDE DEF n, e, E
  <1>6. ASSUME NEW k \in 1 .. n
        PROVE  /\ calls[k].addr = c.addr /\ calls[k].index = c.index + fields[k].offset
               /\ calls[k].type = fields[k].type /\ calls[k].op = "visit"
    <2>1. k \in DOMAIN fields
      BY <1>3
    <2>2. calls[k] = Visit(c.addr, c.index + fields[k].offset, fields[k].type)
      BY <2>1 DEF FieldTasks
    <2>3. QED
      BY <2>2 DEF Visit
  <1>7. ASSUME NEW k \in 1 .. n PROVE Span(calls[k]) = {c.addr} \X Between(E[k - 1], E[k])
    BY <1>4, <1>6 DEF Span
  <1>8. Apart(calls) /\ Spans(calls) = {c.addr} \X Between(E[0], E[n])
    <2>1. DOMAIN calls = 1 .. n
      BY <1>3 DEF FieldTasks
    <2>2. Rising(E, n) /\ n \in Nat
      BY <1>3, <1>4
    <2>3. QED
      BY <1>7, <2>1, <2>2, Tiles
  <1>9. ASSUME NEW k \in DOMAIN calls PROVE TaskOK(src, from, calls[k])
    <2>1. k \in 1 .. n
      BY <1>3 DEF FieldTasks
    <2>2. <<c.index + fields[k].offset, fields[k].type>> \in Held(src, OldWords(src, from, c))
      BY <1>3, <2>1 DEF FieldsIn, FieldsOf
    <2>3. Holds(src, OldWords(src, from, c), c.index + fields[k].offset, fields[k].type)
      BY <2>2 DEF Held
    <2>4. c.index + fields[k].offset \in Nat
      BY <1>2, <1>3, <2>1
    <2>5. QED
      BY <1>2, <1>3, <1>6, <2>1, <2>3, <2>4 DEF TaskOK, OldWords
  <1>10. Span(c) = {c.addr} \X Between(c.index, c.index + SizeOf(c.type))
         /\ Spans(calls) = {c.addr} \X Between(c.index + start, c.index + e)
    BY <1>4, <1>8 DEF Span
  <1>11. Spans(calls) \subseteq Span(c)
    <2>1. Between(c.index + start, c.index + e) \subseteq Between(c.index, c.index + SizeOf(c.type))
      BY <1>2, <1>5 DEF Between
    <2>2. QED
      BY <1>10, <2>1
  <1>12. ASSUME NEW i \in DOMAIN OldWords(src, from, c), <<c.addr, i>> \in Span(c), <<c.addr, i>> \notin Spans(calls)
         PROVE  Matches(from, clones, OldWords(src, from, c)[i], OldWords(src, from, c)[i])
    <2>1. i \in Between(c.index, c.index + SizeOf(c.type)) /\ i \notin Between(c.index + start, c.index + e)
      BY <1>10, <1>12
    <2>2. i \in Between(c.index, c.index + start) \/ i \in Between(c.index + e, c.index + SizeOf(c.type))
      BY <1>2, <1>5, <2>1 DEF Between
    <2>3. OldWords(src, from, c)[i] \notin Pointers \cup Objects
      BY <2>2 DEF PlainFrom, FieldsOf, e, n
    <2>4. QED
      BY <2>3 DEF Matches
  <1>13. \A i \in DOMAIN src[from[Head(tasks).addr]].words :
           <<Head(tasks).addr, i>> \in Span(Head(tasks)) /\ <<Head(tasks).addr, i>> \notin Spans(calls) =>
             Matches(from, clones, src[from[Head(tasks).addr]].words[i], src[from[Head(tasks).addr]].words[i])
    BY <1>12 DEF OldWords, NextIs
  <1>14. Spans(calls) \subseteq Span(Head(tasks))
    BY <1>11 DEF NextIs
  <1>15. QED
    BY <1>8, <1>9, <1>13, <1>14, CopySplits DEF NextIs

(* Records and custom types.                                                *)
LEMMA CopyRecord ==
  ASSUME NEW src, NEW m, NEW from, NEW S, NEW tasks \in Seq(S), NEW clones,
         Copying(src, m, from, tasks, clones),
         NEW c, NextIs(c, tasks), c.op = "visit", Kind(c.type) = "record",
         NEW calls \in Seq(S), FieldTasks(calls, c, TypeInfo[c.type].fields)
  PROVE  Copying(src, m, from, calls \o Tail(tasks), clones)
  <1> DEFINE words == OldWords(src, from, c)
             fields == TypeInfo[c.type].fields
             e == EndOf(fields, 0, Len(fields))
  <1>1. TaskOK(src, from, c)
    BY NextTask DEF NextIs
  <1>2. c.index \in Nat /\ c.type \in Types /\ Holds(src, words, c.index, c.type)
    BY <1>1 DEF TaskOK, OldWords
  <1>3. FieldsIn(Held(src, words), c.index, fields)
    BY <1>2, HoldsUnfolds DEF Proper
  <1>4. fields \in FieldList
    BY <1>2, FieldsOfTypes
  <1>5. Follow(fields, 0) /\ SizeOf(c.type) = e /\ e \in Nat
    <2>1. Len(fields) \in 0 .. Len(fields)
      BY <1>4, AField
    <2>2. e \in Nat
      <3> HIDE DEF fields
      <3>1. QED
        BY <1>4, <2>1, EndIsNat
    <2>3. QED
      BY <1>2, <2>2, LayoutAssumption DEF Kind, SizeOf
  <1> HIDE DEF words, fields
  <1>6. PlainFrom(words, c.index, c.index + 0) /\ PlainFrom(words, c.index + e, c.index + SizeOf(c.type))
    <2> HIDE DEF e
    <2>1. Between(c.index, c.index + 0) = {} /\ Between(c.index + e, c.index + SizeOf(c.type)) = {}
      BY <1>2, <1>5 DEF Between
    <2>2. QED
      BY <2>1 DEF PlainFrom
  <1>7. EndOf(fields, 0, Len(fields)) <= SizeOf(c.type)
    <2>1. e <= SizeOf(c.type)
      <3> HIDE DEF e
      <3>1. QED
        BY <1>5
    <2>2. QED
      BY <2>1
  <1>8. FieldTasks(calls, c, fields)
    BY DEF fields
  <1>9. FieldsOf(src, words, c, fields, 0)
    BY <1>3, <1>5, <1>6, <1>7 DEF FieldsOf
  <1>10. QED
    BY <1>4, <1>8, <1>9, CopyFields DEF words

LEMMA CopyCustom ==
  ASSUME NEW src, NEW m, NEW from, NEW S, NEW tasks \in Seq(S), NEW clones,
         Copying(src, m, from, tasks, clones),
         NEW c, NextIs(c, tasks), c.op = "visit", Kind(c.type) = "custom",
         NEW v, v \in DOMAIN TypeInfo[c.type].variants,
         m[c.addr].words[c.index] = Number(v - 1),
         NEW calls \in Seq(S), FieldTasks(calls, c, TypeInfo[c.type].variants[v])
  PROVE  Copying(src, m, from, calls \o Tail(tasks), clones)
  <1> DEFINE words == OldWords(src, from, c)
             fields == TypeInfo[c.type].variants[v]
             e == EndOf(fields, 1, Len(fields))
  <1>1. TaskOK(src, from, c) /\ AsInState(src, m, from, c)
    BY NextTask DEF NextIs
  <1>2. c.index \in Nat /\ c.type \in Types /\ Holds(src, words, c.index, c.type)
    BY <1>1 DEF TaskOK, OldWords
  <1>3. PICK u \in DOMAIN TypeInfo[c.type].variants : IsVariant(words, Held(src, words), c.index, c.type, u)
    BY <1>2, HoldsUnfolds DEF Proper
  <1>4. fields \in FieldList /\ u \in Nat /\ v \in Nat /\ SizeOf(c.type) \in Nat
    BY <1>2, FieldsOfTypes
  <1>5. Follow(fields, 1) /\ e <= SizeOf(c.type) /\ e \in Nat /\ e >= 1
    <2>1. Follow(fields, 1) /\ SizeOf(c.type) >= e
      BY <1>2, LayoutAssumption DEF Kind, SizeOf
    <2>2. e \in Nat /\ e >= 1
      <3> HIDE DEF fields
      <3>1. QED
        BY <1>4, <2>1, EndIsPast
    <2> HIDE DEF e
    <2>3. QED
      BY <1>4, <2>1, <2>2
  <1> HIDE DEF words, fields
  <1>6. c.index \in DOMAIN words /\ words[c.index] = Number(u - 1)
    BY <1>3 DEF IsVariant
  <1>7. u = v
    <2>1. <<c.addr, c.index>> \in Span(c)
      <3> HIDE DEF e
      <3>1. c.index \in Between(c.index, c.index + SizeOf(c.type))
        BY <1>2, <1>4, <1>5 DEF Between
      <3>2. QED
        BY <3>1 DEF Span
    <2>2. words[c.index] = Number(v - 1)
      BY <1>1, <1>6, <2>1 DEF AsInState, words, OldWords
    <2>3. u - 1 = v - 1
      BY <1>6, <2>2, NumbersDiffer
    <2>4. QED
      BY <1>4, <2>3
  <1>8. /\ FieldsIn(Held(src, words), c.index, fields)
        /\ \A k \in (c.index + e) .. (c.index + SizeOf(c.type) - 1) : k \in DOMAIN words /\ words[k] = NoObject
    BY <1>3, <1>7 DEF IsVariant, fields
  <1>9. PlainFrom(words, c.index, c.index + 1)
    <2>1. Between(c.index, c.index + 1) = {c.index}
      BY <1>2 DEF Between
    <2>2. words[c.index] \in Numbers
      <3>1. v # 0
        <4>1. TypeInfo[c.type].variants \in Seq(FieldList)
          BY <1>2, TypeInfoAssumption DEF Kind
        <4>2. QED
          BY <4>1
      <3>2. v - 1 \in Nat
        BY <1>4, <3>1
      <3>3. QED
        BY <1>6, <1>7, <3>2 DEF Numbers
    <2>3. QED
      BY <2>1, <2>2, SortsOfWords DEF PlainFrom
  <1>10. PlainFrom(words, c.index + e, c.index + SizeOf(c.type))
    <2>1. NoObject \notin Pointers \cup Objects
      BY SortsOfWords
    <2>2. ASSUME NEW i \in Between(c.index + e, c.index + SizeOf(c.type)) PROVE words[i] = NoObject
      <3>1. i \in (c.index + e) .. (c.index + SizeOf(c.type) - 1)
        <4> HIDE DEF e
        <4>1. QED
          BY <1>2, <1>4, <1>5 DEF Between
      <3>2. QED
        BY <1>8, <3>1
    <2>3. QED
      BY <2>1, <2>2 DEF PlainFrom
  <1>11. FieldTasks(calls, c, fields)
    BY DEF fields
  <1>12. FieldsOf(src, words, c, fields, 1)
    BY <1>5, <1>8, <1>9, <1>10 DEF FieldsOf
  <1>13. QED
    BY <1>4, <1>11, <1>12, CopyFields DEF words

(* An alias.                                                                *)
LEMMA CopyAlias ==
  ASSUME NEW src, NEW m, NEW from, NEW S, NEW tasks \in Seq(S), NEW clones,
         Copying(src, m, from, tasks, clones),
         NEW c, NextIs(c, tasks), c.op = "visit", Kind(c.type) = "alias",
         NEW next \in S, next = Visit(c.addr, c.index, TypeInfo[c.type].item)
  PROVE  Copying(src, m, from, <<next>> \o Tail(tasks), clones)
  <1>1. TaskOK(src, from, c)
    BY NextTask DEF NextIs
  <1>2. /\ c.index \in Nat /\ c.type \in Types /\ c.addr \in DOMAIN from
        /\ Holds(src, OldWords(src, from, c), c.index, c.type)
    BY <1>1 DEF TaskOK, OldWords
  <1>3. /\ next.addr = c.addr /\ next.index = c.index /\ next.op = "visit" /\ next.type = TypeInfo[c.type].item
        /\ next.type \in Types /\ SizeOf(next.type) = SizeOf(c.type)
    BY <1>2, FieldsOfTypes DEF Visit
  <1>4. Holds(src, OldWords(src, from, c), c.index, next.type)
    <2>1. Proper(src, OldWords(src, from, c), Held(src, OldWords(src, from, c)), c.index, c.type)
      BY <1>2, HoldsUnfolds
    <2>2. <<c.index, next.type>> \in Held(src, OldWords(src, from, c))
      BY <1>3, <2>1 DEF Proper
    <2>3. QED
      BY <2>2, HeldHolds
  <1>5. TaskOK(src, from, next)
    BY <1>2, <1>3, <1>4 DEF TaskOK, OldWords
  <1>6. Span(next) = Span(c)
    BY <1>3 DEF Span
  <1> DEFINE calls == <<next>>
  <1>7. calls \in Seq(S) /\ DOMAIN calls = {1} /\ calls[1] = next
    OBVIOUS
  <1> HIDE DEF calls
  <1>8. Spans(calls) = Span(c) /\ Apart(calls)
    BY <1>6, <1>7 DEF Spans, Apart
  <1>9. \A k \in DOMAIN calls : TaskOK(src, from, calls[k])
    BY <1>5, <1>7
  <1>10. Spans(calls) = Span(Head(tasks))
    BY <1>8 DEF NextIs
  <1>11. Copying(src, m, from, calls \o Tail(tasks), clones)
    BY <1>7, <1>8, <1>9, <1>10, CopySplits DEF NextIs
  <1>12. QED
    BY <1>11 DEF calls

(* A cell is added to the copy: calls about its words come in front of, or  *)
(* with, those about the words of the next one.                             *)
WithOrigin(from, y, v) == [x \in DOMAIN from \cup {y} |-> IF x = y THEN v ELSE from[x]]

AddsCell(src, m, m2, y, v) ==
  /\ y \notin DOMAIN m /\ v \in DOMAIN src
  /\ DOMAIN m2 = DOMAIN m \cup {y} /\ m2[y] = src[v]
  /\ \A x \in DOMAIN m : m2[x] = m[x]

AddsTasks(src, from, c, y, v, calls) ==
  /\ Apart(calls)
  /\ \A k \in DOMAIN calls : TaskOK(src, from, calls[k])
  /\ Span(c) \subseteq Spans(calls)
  /\ \A p \in Spans(calls) : p \in Span(c) \/ p[1] = y
  /\ \A i \in DOMAIN src[v].words : <<y, i>> \in Spans(calls) \/ src[v].words[i] \notin Pointers \cup Objects

LEMMA CopyAdds ==
  ASSUME NEW src, NEW m, NEW from, NEW S, NEW tasks \in Seq(S), NEW clones,
         Copying(src, m, from, tasks, clones),
         NEW c, NextIs(c, tasks), NEW y, NEW v, NEW m2, AddsCell(src, m, m2, y, v),
         NEW calls \in Seq(S), AddsTasks(src, WithOrigin(from, y, v), c, y, v, calls)
  PROVE  Copying(src, m2, WithOrigin(from, y, v), calls \o Tail(tasks), clones)
  <1> DEFINE from2 == WithOrigin(from, y, v)
  <1>1. from \in [DOMAIN from -> DOMAIN src] /\ DOMAIN from \subseteq DOMAIN m
    BY DEF Copying
  <1>2. /\ DOMAIN from2 = DOMAIN from \cup {y} /\ from2[y] = v
        /\ \A x \in DOMAIN from : from2[x] = from[x] /\ m2[x] = m[x]
    BY <1>1 DEF WithOrigin, AddsCell
  <1>3. from2 \in [DOMAIN from2 -> DOMAIN src]
    BY <1>1 DEF WithOrigin, AddsCell
  <1>0. AddsTasks(src, from2, c, y, v, calls) /\ AddsCell(src, m, m2, y, v)
    OBVIOUS
  <1> HIDE DEF from2
  <1>4. DOMAIN from \subseteq DOMAIN from2 /\ DOMAIN from2 \subseteq DOMAIN m2
    BY <1>0, <1>1, <1>2 DEF AddsCell
  <1>5. ASSUME NEW x \in DOMAIN from
        PROVE  /\ SameShape(m2[x], m[x])
               /\ \A i \in DOMAIN m[x].words : <<x, i>> \notin Span(c) => m2[x].words[i] = m[x].words[i]
               /\ \A i \in DOMAIN src[from[x]].words : <<x, i>> \in Span(c) =>
                    WordOK(from2, clones, Spans(calls), <<x, i>>, m2[x].words[i], src[from[x]].words[i])
    <2>1. m2[x] = m[x]
      BY <1>2
    <2>2. ASSUME NEW i \in DOMAIN src[from[x]].words, <<x, i>> \in Span(c)
          PROVE  WordOK(from2, clones, Spans(calls), <<x, i>>, m2[x].words[i], src[from[x]].words[i])
      <3>1. x = c.addr /\ <<x, i>> \in Spans(calls)
        BY <1>0, <2>2 DEF Span, AddsTasks
      <3>2. AsInState(src, m, from, c)
        BY NextTask DEF NextIs
      <3>3. m[x].words[i] = src[from[x]].words[i]
        BY <2>2, <3>1, <3>2 DEF AsInState
      <3>4. QED
        BY <2>1, <3>1, <3>3 DEF WordOK
    <2>3. QED
      BY <2>1, <2>2 DEF SameShape
  <1>6. ASSUME NEW x \in DOMAIN from2, x \notin DOMAIN from
        PROVE  CellOK(from2, clones, Spans(calls), x, m2[x], src[from2[x]])
    <2>1. x = y /\ m2[x] = src[v] /\ from2[x] = v
      BY <1>0, <1>2, <1>6 DEF AddsCell
    <2>2. ASSUME NEW i \in DOMAIN src[v].words
          PROVE  WordOK(from2, clones, Spans(calls), <<y, i>>, src[v].words[i], src[v].words[i])
      BY <1>0 DEF WordOK, Matches, AddsTasks
    <2>3. QED
      BY <2>1, <2>2 DEF CellOK, SameShape
  <1>7. \A p \in Spans(calls) : p \in Span(c) \/ p[1] \notin DOMAIN from
    BY <1>0, <1>1 DEF AddsTasks, AddsCell
  <1>8. Apart(calls) /\ \A k \in DOMAIN calls : TaskOK(src, from2, calls[k])
    BY <1>0 DEF AddsTasks
  <1>9. StepOK(src, m, from, clones, c, m2, from2, calls, clones)
    BY <1>2, <1>3, <1>4, <1>5, <1>6, <1>7, <1>8 DEF StepOK
  <1>10. Copying(src, m2, from2, calls \o Tail(tasks), clones)
    BY <1>9, CopyGoesOn DEF NextIs
  <1>11. QED
    BY <1>10 DEF from2

(* A string or blob: its cell is copied and the pointer replaced.           *)
LEMMA CopyOctets ==
  ASSUME NEW src, NEW m, NEW from, NEW S, NEW tasks \in Seq(S), NEW clones,
         Copying(src, m, from, tasks, clones),
         NEW c \in S, NextIs(c, tasks), c.op = "visit", Kind(c.type) = "octets",
         NEW v \in Pointers, v = OldWords(src, from, c)[c.index],
         NEW y, NEW m2, AddsCell(src, m, m2, y, v),
         \A i \in DOMAIN src[v].words : src[v].words[i] \notin Pointers \cup Objects,
         IsCell(m2[c.addr])
  PROVE  Copying(src, Written(m2, c.addr, c.index, y), WithOrigin(from, y, v), << >> \o Tail(tasks), clones)
  <1> DEFINE calls == <<c>>
             from2 == WithOrigin(from, y, v)
  <1>1. calls \in Seq(S) /\ DOMAIN calls = {1} /\ calls[1] = c /\ calls \o Tail(tasks) = tasks
    BY DEF NextIs
  <1>2. TaskOK(src, from, c)
    BY NextTask DEF NextIs
  <1>3. DOMAIN from \subseteq DOMAIN m
    BY DEF Copying
  <1>4. /\ DOMAIN from2 = DOMAIN from \cup {y} /\ from2[y] = v
        /\ \A x \in DOMAIN from : from2[x] = from[x]
    BY <1>3 DEF WithOrigin, AddsCell
  <1> HIDE DEF calls
  <1>5. Spans(calls) = Span(c) /\ Apart(calls)
    BY <1>1 DEF Spans, Apart
  <1>6. \A k \in DOMAIN calls : TaskOK(src, from2, calls[k])
    <2> HIDE DEF from2
    <2>1. TaskOK(src, from2, c)
      BY <1>2, <1>4, MoreMatches
    <2>2. QED
      BY <1>1, <2>1
  <1>7. AddsTasks(src, from2, c, y, v, calls)
    <2> HIDE DEF from2
    <2>1. QED
      BY <1>5, <1>6 DEF AddsTasks
  <1>8. Copying(src, m2, from2, tasks, clones)
    <2>1. Copying(src, m2, from2, calls \o Tail(tasks), clones)
      BY <1>1, <1>7, CopyAdds
    <2>2. QED
      BY <1>1, <2>1
  <1> HIDE DEF from2
  <1>9. c.addr \in DOMAIN from /\ c.index \in Nat /\ c.type \in Types
        /\ Holds(src, OldWords(src, from, c), c.index, c.type)
    BY <1>2 DEF TaskOK, OldWords
  <1>10. c.index \in DOMAIN OldWords(src, from, c) /\ SizeOf(c.type) = 1
    <2>1. Proper(src, OldWords(src, from, c), Held(src, OldWords(src, from, c)), c.index, c.type)
      BY <1>9, HoldsUnfolds
    <2>2. c.index \in DOMAIN OldWords(src, from, c)
      BY <2>1 DEF Proper
    <2>3. SizeOf(c.type) = 1
      BY <1>9, FieldsOfTypes
    <2>4. QED
      BY <2>2, <2>3
  <1>11. OldWords(src, from2, c) = OldWords(src, from, c)
    BY <1>4, <1>9 DEF OldWords
  <1>12. Matches(from2, clones, y, v)
    BY <1>4, SortsOfWords DEF Matches
  <1>13. /\ c.index \in DOMAIN src[from2[c.addr]].words
         /\ Matches(from2, clones, y, src[from2[c.addr]].words[c.index])
    BY <1>10, <1>11, <1>12 DEF OldWords
  <1>14. Copying(src, Written(m2, c.addr, c.index, y), from2, << >> \o Tail(tasks), clones)
    BY <1>8, <1>10, <1>13, CopyWrites DEF NextIs
  <1>15. QED
    BY <1>14 DEF from2

(* A list or array.                                                         *)
ListOf(h, cell, item) ==
  /\ cell.count \in Nat
  /\ cell.count # 0 => cell.itemSize = SizeOf(item)
  /\ DOMAIN cell.words = 1 .. (cell.count * SizeOf(item))
  /\ \A j \in 1 .. cell.count : Holds(h, cell.words, (j - 1) * SizeOf(item) + 1, item)

LEMMA Multiples ==
  ASSUME NEW n \in Nat, NEW s \in Nat
  PROVE  /\ Rising([k \in 0 .. n |-> k * s + 1], n)
         /\ \A k \in 1 .. n : ((k - 1) * s + 1) + s = k * s + 1
  <1>1. ASSUME NEW k \in 1 .. n PROVE ((k - 1) * s + 1) + s = k * s + 1
    OBVIOUS
  <1>2. \A k \in 0 .. n : k * s + 1 \in Nat
    OBVIOUS
  <1> DEFINE E == [k \in 0 .. n |-> k * s + 1]
  <1>3. ASSUME NEW k \in 1 .. n PROVE E[k - 1] <= E[k]
    <2>1. E[k - 1] = (k - 1) * s + 1 /\ E[k] = k * s + 1
      OBVIOUS
    <2>2. (k - 1) * s + 1 \in Nat
      BY <1>2
    <2>3. QED
      BY <1>1, <2>1, <2>2
  <1>4. E \in [0 .. n -> Nat]
    BY <1>2
  <1>5. QED
    BY <1>1, <1>3, <1>4 DEF Rising

ListCalls(calls, y, cell, item) ==
  /\ DOMAIN calls = 1 .. cell.count
  /\ \A k \in 1 .. cell.count : calls[k] = Visit(y, (k - 1) * cell.itemSize + 1, item)

LEMMA CopyList ==
  ASSUME NEW src, NEW m, NEW from, NEW S, NEW tasks \in Seq(S), NEW clones,
         Copying(src, m, from, tasks, clones),
         NEW c, NextIs(c, tasks), c.op = "visit", Kind(c.type) = "list",
         NEW v \in Pointers, v = OldWords(src, from, c)[c.index],
         NEW y, NEW m2, AddsCell(src, m, m2, y, v),
         ListOf(src, src[v], TypeInfo[c.type].item),
         NEW items \in Seq(S), ListCalls(items, y, src[v], TypeInfo[c.type].item),
         NEW store \in S, store = Store(c.addr, c.index, c.type, y)
  PROVE  Copying(src, m2, WithOrigin(from, y, v), (items \o <<store>>) \o Tail(tasks), clones)
  <1> DEFINE item == TypeInfo[c.type].item
             n == src[v].count
             s == SizeOf(item)
             E == [k \in 0 .. n |-> k * s + 1]
             from2 == WithOrigin(from, y, v)
             one == <<store>>
  <1>1. TaskOK(src, from, c)
    BY NextTask DEF NextIs
  <1>2. /\ c.addr \in DOMAIN from /\ c.index \in Nat /\ c.type \in Types
        /\ Holds(src, OldWords(src, from, c), c.index, c.type)
    BY <1>1 DEF TaskOK, OldWords
  <1>3. item \in Types /\ s \in Nat /\ SizeOf(c.type) = 1 /\ n \in Nat
    <2>1. item \in Types /\ SizeOf(c.type) = 1
      BY <1>2, FieldsOfTypes
    <2>2. s \in Nat
      BY <2>1, FieldsOfTypes
    <2>3. QED
      BY <2>1, <2>2 DEF ListOf
  <1>4. c.index \in DOMAIN OldWords(src, from, c)
    <2>1. Proper(src, OldWords(src, from, c), Held(src, OldWords(src, from, c)), c.index, c.type)
      BY <1>2, HoldsUnfolds
    <2>2. QED
      BY <2>1 DEF Proper
  <1>5. DOMAIN from \subseteq DOMAIN m
    BY DEF Copying
  <1>6. /\ DOMAIN from2 = DOMAIN from \cup {y} /\ from2[y] = v
        /\ \A x \in DOMAIN from : from2[x] = from[x]
        /\ y \notin DOMAIN from
    BY <1>5 DEF WithOrigin, AddsCell
  <1>7. one \in Seq(S) /\ DOMAIN one = {1} /\ one[1] = store
    OBVIOUS
  <1>8. /\ store.addr = c.addr /\ store.index = c.index /\ store.type = c.type /\ store.op = "store" /\ store.cell = y
    BY DEF Store
  <1>9. Rising(E, n) /\ E[0] = 1 /\ E[n] = n * s + 1
        /\ \A k \in 1 .. n : E[k - 1] = (k - 1) * s + 1 /\ E[k - 1] + s = E[k]
    <2>1. Rising(E, n) /\ \A k \in 1 .. n : ((k - 1) * s + 1) + s = k * s + 1
      BY <1>3, Multiples
    <2>2. \A k \in 0 .. n : E[k] = k * s + 1
      OBVIOUS
    <2>3. 0 \in 0 .. n /\ n \in 0 .. n /\ \A k \in 1 .. n : k - 1 \in 0 .. n /\ k \in 0 .. n
      BY <1>3
    <2>4. 0 * s + 1 = 1
      BY <1>3
    <2> HIDE DEF E, s, n
    <2>5. QED
      BY <2>1, <2>2, <2>3, <2>4
  <1>10. ListOf(src, src[v], item) /\ ListCalls(items, y, src[v], item)
    OBVIOUS
  <1> HIDE DEF item, n, s, E, from2, one
  <1>11. ASSUME NEW k \in 1 .. n
         PROVE  /\ items[k].addr = y /\ items[k].index = E[k - 1] /\ items[k].type = item /\ items[k].op = "visit"
                /\ E[k - 1] \in Nat /\ Holds(src, src[v].words, E[k - 1], item)
    <2>1. src[v].itemSize = s /\ items[k] = Visit(y, (k - 1) * src[v].itemSize + 1, item)
          /\ Holds(src, src[v].words, (k - 1) * s + 1, item)
      <3>1. n # 0
        BY <1>3
      <3>2. src[v].itemSize = s /\ Holds(src, src[v].words, (k - 1) * s + 1, item)
        BY <1>10, <3>1 DEF ListOf, n, s
      <3>3. items[k] = Visit(y, (k - 1) * src[v].itemSize + 1, item)
        BY <1>10 DEF ListCalls, n
      <3>4. QED
        BY <3>2, <3>3
    <2>2. E[k - 1] = (k - 1) * s + 1
      BY <1>9
    <2>3. k - 1 \in 0 .. n
      BY <1>3
    <2>4. E[k - 1] \in Nat
      BY <1>9, <2>3 DEF Rising
    <2>5. items[k] = Visit(y, E[k - 1], item)
      BY <2>1, <2>2
    <2>6. QED
      BY <2>1, <2>2, <2>4, <2>5 DEF Visit
  <1>12. Apart(items) /\ Spans(items) = {y} \X Between(1, n * s + 1)
    <2>1. DOMAIN items = 1 .. n
      BY <1>10 DEF ListCalls, n
    <2>2. \A k \in 1 .. n : Span(items[k]) = {y} \X Between(E[k - 1], E[k])
      BY <1>9, <1>11 DEF Span, s
    <2>3. Rising(E, n) /\ n \in Nat
      BY <1>3, <1>9
    <2>4. Apart(items) /\ Spans(items) = {y} \X Between(E[0], E[n])
      BY <2>1, <2>2, <2>3, Tiles
    <2>5. QED
      BY <1>9, <2>4
  <1>13. Apart(one) /\ Spans(one) = Span(c)
    BY <1>7, <1>8 DEF Apart, Spans, Span
  <1>14. Spans(items) \cap Spans(one) = {}
    <2>1. \A p \in Spans(one) : p[1] = c.addr
      BY <1>13 DEF Span
    <2>2. \A p \in Spans(items) : p[1] = y
      BY <1>12
    <2>3. y # c.addr
      BY <1>2, <1>6
    <2>4. QED
      BY <2>1, <2>2, <2>3
  <1> DEFINE calls == items \o one
  <1>15. Apart(calls) /\ Spans(calls) = Spans(items) \cup Spans(one)
    BY <1>7, <1>12, <1>13, <1>14, ConcatApart
  <1>16. calls \in Seq(S)
    BY <1>7
  <1>17. ASSUME NEW k \in DOMAIN calls PROVE TaskOK(src, from2, calls[k])
    <2>1. \/ k \in DOMAIN items /\ calls[k] = items[k]
          \/ k - Len(items) \in DOMAIN one /\ calls[k] = one[k - Len(items)]
      BY <1>7, ConcatParts
    <2>2. ASSUME NEW j \in DOMAIN items PROVE TaskOK(src, from2, items[j])
      <3>1. j \in 1 .. n
        BY <1>10 DEF ListCalls, n
      <3>2. QED
        BY <1>3, <1>6, <1>11, <3>1 DEF TaskOK
    <2>3. TaskOK(src, from2, store)
      <3>1. c.addr \in DOMAIN from2 /\ from2[c.addr] = from[c.addr]
        BY <1>2, <1>6
      <3>2. src[from2[c.addr]].words[c.index] = v /\ c.index \in DOMAIN src[from2[c.addr]].words
        BY <1>4, <3>1 DEF OldWords
      <3>3. y \in DOMAIN from2 /\ from2[y] = v
        BY <1>6
      <3>4. QED
        BY <1>2, <1>8, <3>1, <3>2, <3>3 DEF TaskOK
    <2> HIDE DEF calls
    <2>4. QED
      BY <1>7, <2>1, <2>2, <2>3
  <1> HIDE DEF calls
  <1>18. \A i \in DOMAIN src[v].words : <<y, i>> \in Spans(calls)
    <2>1. ASSUME NEW i \in DOMAIN src[v].words PROVE i \in Between(1, n * s + 1)
      <3>1. i \in 1 .. (n * s)
        BY <1>10 DEF ListOf, n, s
      <3>2. n * s \in Nat
        BY <1>3
      <3>3. QED
        BY <3>1, <3>2 DEF Between
    <2>2. QED
      BY <1>12, <1>15, <2>1
  <1>19. \A p \in Spans(calls) : p \in Span(c) \/ p[1] = y
    BY <1>12, <1>13, <1>15
  <1>20. AddsTasks(src, from2, c, y, v, calls)
    BY <1>13, <1>15, <1>17, <1>18, <1>19 DEF AddsTasks
  <1>21. Copying(src, m2, from2, calls \o Tail(tasks), clones)
    BY <1>16, <1>20, CopyAdds DEF from2
  <1>22. QED
    BY <1>21 DEF calls, one, from2

(* The word the next call is about.                                         *)
OneWord == {"scalar", "octets", "list", "unmanaged", "function", "unsupported"}

HasItsWord(src, m, from, c) ==
  /\ c.addr \in DOMAIN from /\ c.index \in Nat /\ c.type \in Types
  /\ from[c.addr] \in DOMAIN src
  /\ Kind(c.type) \in OneWord => SizeOf(c.type) = 1
  /\ Kind(c.type) \in OneWord \cup {"custom"} =>
       /\ c.index \in DOMAIN OldWords(src, from, c)
       /\ m[c.addr].words[c.index] = OldWords(src, from, c)[c.index]
  /\ Kind(c.type) \in {"scalar", "custom"} => OldWords(src, from, c)[c.index] \in Numbers
  /\ Kind(c.type) \in {"octets", "list"} =>
       /\ OldWords(src, from, c)[c.index] \in Pointers
       /\ OldWords(src, from, c)[c.index] \in DOMAIN src
       /\ src[OldWords(src, from, c)[c.index]].type = c.type
  /\ Kind(c.type) = "unmanaged" => OldWords(src, from, c)[c.index] \in Objects

LEMMA NextWord ==
  ASSUME NEW src, NEW m, NEW from, NEW S, NEW tasks \in Seq(S), NEW clones,
         Copying(src, m, from, tasks, clones),
         NEW c, NextIs(c, tasks), c.op = "visit"
  PROVE  HasItsWord(src, m, from, c)
  <1> DEFINE w == OldWords(src, from, c)
             t == c.type
             i == c.index
  <1>1. TaskOK(src, from, c) /\ AsInState(src, m, from, c)
    BY NextTask DEF NextIs
  <1>2. c.addr \in DOMAIN from /\ i \in Nat /\ t \in Types /\ Holds(src, w, i, t)
    BY <1>1 DEF TaskOK, OldWords
  <1>3. from[c.addr] \in DOMAIN src
    BY <1>2 DEF Copying
  <1>4. Proper(src, w, Held(src, w), i, t)
    BY <1>2, HoldsUnfolds
  <1>5. SizeOf(t) \in Nat /\ (Kind(t) \in OneWord => SizeOf(t) = 1)
    BY <1>2, FieldsOfTypes DEF OneWord
  <1> HIDE DEF w, t
  <1>6. CASE Kind(t) \in OneWord
    <2>1. i \in DOMAIN w
      BY <1>4, <1>6 DEF Proper, OneWord
    <2>2. <<c.addr, i>> \in Span(c)
      BY <1>2, <1>5, <1>6, SpanOfOne DEF t
    <2>3. m[c.addr].words[i] = w[i]
      BY <1>1, <2>1, <2>2 DEF AsInState, w, OldWords
    <2>4. /\ Kind(t) = "scalar" => w[i] \in Numbers
          /\ Kind(t) \in {"octets", "list"} => w[i] \in Pointers /\ w[i] \in DOMAIN src /\ src[w[i]].type = t
          /\ Kind(t) = "unmanaged" => w[i] \in Objects
      BY <1>4 DEF Proper
    <2>5. Kind(t) # "custom"
      BY <1>6 DEF OneWord
    <2>6. QED
      BY <1>2, <1>3, <1>5, <2>1, <2>3, <2>4, <2>5 DEF w, t, HasItsWord
  <1>7. CASE Kind(t) = "custom"
    <2>1. PICK u \in DOMAIN TypeInfo[t].variants : IsVariant(w, Held(src, w), i, t, u)
      BY <1>4, <1>7 DEF Proper
    <2>2. i \in DOMAIN w /\ w[i] = Number(u - 1)
      BY <2>1 DEF IsVariant
    <2>3. u - 1 \in Nat
      <3>1. TypeInfo[t].variants \in Seq(FieldList)
        BY <1>2, <1>7, TypeInfoAssumption DEF Kind, t
      <3>2. QED
        BY <3>1
    <2>4. w[i] \in Numbers
      BY <2>2, <2>3 DEF Numbers
    <2>5. SizeOf(t) >= 1
      <3> DEFINE fields == TypeInfo[t].variants[u]
                 e == EndOf(fields, 1, Len(fields))
      <3>1. fields \in FieldList
        BY <1>2, <1>7, FieldsOfTypes DEF t
      <3>2. Follow(fields, 1) /\ SizeOf(t) >= e
        BY <1>2, <1>7, LayoutAssumption DEF Kind, SizeOf, t
      <3> HIDE DEF fields
      <3>3. e \in Nat /\ e >= 1
        BY <3>1, <3>2, EndIsPast
      <3> HIDE DEF e
      <3>4. QED
        BY <1>5, <3>2, <3>3
    <2>6. <<c.addr, i>> \in Span(c)
      <3>1. i \in Between(i, i + SizeOf(t))
        BY <1>2, <1>5, <2>5 DEF Between
      <3>2. QED
        BY <3>1 DEF Span, t
    <2>7. m[c.addr].words[i] = w[i]
      BY <1>1, <2>2, <2>6 DEF AsInState, w, OldWords
    <2>8. QED
      BY <1>2, <1>3, <1>5, <1>7, <2>2, <2>4, <2>7 DEF w, t, OneWord, HasItsWord
  <1>8. CASE Kind(t) \notin OneWord /\ Kind(t) # "custom"
    BY <1>2, <1>3, <1>8 DEF t, OneWord, HasItsWord
  <1>9. QED
    BY <1>6, <1>7, <1>8

(* What stays: a scalar, and an object that is moved.                       *)
LEMMA CopyScalar ==
  ASSUME NEW src, NEW m, NEW from, NEW S, NEW tasks \in Seq(S), NEW clones,
         Copying(src, m, from, tasks, clones),
         NEW c, NextIs(c, tasks), c.op = "visit", Kind(c.type) = "scalar"
  PROVE  Copying(src, m, from, << >> \o Tail(tasks), clones)
  <1>0. HasItsWord(src, m, from, c)
    BY NextWord
  <1>1. SizeOf(c.type) = 1 /\ OldWords(src, from, c)[c.index] \in Numbers
    BY <1>0 DEF OneWord, HasItsWord
  <1>2. Matches(from, clones, OldWords(src, from, c)[c.index], OldWords(src, from, c)[c.index])
    BY <1>1, SortsOfWords DEF Matches
  <1>3. QED
    BY <1>1, <1>2, CopyLeaves

LEMMA CopyMoves ==
  ASSUME NEW src, NEW m, NEW from, NEW S, NEW tasks \in Seq(S), NEW clones,
         Copying(src, m, from, tasks, clones),
         NEW c, NextIs(c, tasks), c.op = "visit", Kind(c.type) = "unmanaged",
         NEW clones2, clones \subseteq clones2,
         <<m[c.addr].words[c.index], m[c.addr].words[c.index]>> \in clones2
  PROVE  Copying(src, m, from, << >> \o Tail(tasks), clones2)
  <1> DEFINE v == OldWords(src, from, c)[c.index]
  <1>0. HasItsWord(src, m, from, c)
    BY NextWord
  <1>1. SizeOf(c.type) = 1 /\ v \in Objects /\ <<v, v>> \in clones2
    BY <1>0 DEF OneWord, HasItsWord
  <1>2. Matches(from, clones2, v, v)
    BY <1>1, SortsOfWords DEF Matches
  <1>3. QED
    BY <1>1, <1>2, CopyLeaves

(* An object that is cloned, and the pointer to a list after its items.     *)
LEMMA CopyClones ==
  ASSUME NEW src, NEW m, NEW from, NEW S, NEW tasks \in Seq(S), NEW clones,
         Copying(src, m, from, tasks, clones),
         NEW c, NextIs(c, tasks), c.op = "visit", Kind(c.type) = "unmanaged", IsCell(m[c.addr]),
         NEW clones2, clones \subseteq clones2,
         NEW o, <<o, m[c.addr].words[c.index]>> \in clones2
  PROVE  Copying(src, Written(m, c.addr, c.index, o), from, << >> \o Tail(tasks), clones2)
  <1> DEFINE v == OldWords(src, from, c)[c.index]
  <1>0. HasItsWord(src, m, from, c)
    BY NextWord
  <1>1. /\ SizeOf(c.type) = 1 /\ v \in Objects /\ <<o, v>> \in clones2
        /\ c.index \in DOMAIN OldWords(src, from, c)
    BY <1>0 DEF OneWord, HasItsWord
  <1>2. Matches(from, clones2, o, v)
    BY <1>1, SortsOfWords DEF Matches
  <1>3. QED
    BY <1>1, <1>2, CopyWrites DEF NextIs, OldWords

LEMMA CopyStores ==
  ASSUME NEW src, NEW m, NEW from, NEW S, NEW tasks \in Seq(S), NEW clones,
         Copying(src, m, from, tasks, clones),
         NEW c, NextIs(c, tasks), c.op = "store", IsCell(m[c.addr])
  PROVE  Copying(src, Written(m, c.addr, c.index, c.cell), from, << >> \o Tail(tasks), clones)
  <1>1. TaskOK(src, from, c)
    BY NextTask DEF NextIs
  <1>2. /\ c.type \in Types /\ Kind(c.type) = "list"
        /\ c.index \in DOMAIN OldWords(src, from, c) /\ c.cell \in DOMAIN from
        /\ OldWords(src, from, c)[c.index] = from[c.cell] /\ from[c.cell] \in Pointers
    BY <1>1 DEF TaskOK, OldWords
  <1>3. SizeOf(c.type) = 1
    BY <1>2, FieldsOfTypes
  <1>4. Matches(from, clones, c.cell, OldWords(src, from, c)[c.index])
    BY <1>2, SortsOfWords DEF Matches
  <1>5. QED
    BY <1>2, <1>3, <1>4, CopyWrites DEF NextIs, OldWords

-----------------------------------------------------------------------------
(* The values a program makes: each holds what its type says, and refers to *)
(* nothing but the cells of the heap h and the objects of L.                *)
Alive(h, L, w) ==
  \A i \in DOMAIN w : (w[i] \in Pointers => w[i] \in DOMAIN h) /\ (w[i] \in Objects => w[i] \in L)

GoodValue(h, L, w, t) ==
  w \in Seq(Word) /\ Len(w) = SizeOf(t) /\ Holds(h, w, 1, t) /\ Alive(h, L, w)

LEMMA HoldsInConcat ==
  ASSUME NEW h, NEW a \in Seq(Word), NEW b \in Seq(Word), NEW i, NEW t
  PROVE  /\ Holds(h, a, i, t) => Holds(h, a \o b, i, t)
         /\ Holds(h, b, i, t) => Holds(h, a \o b, i + Len(a), t)
  <1> DEFINE c == a \o b
             n == Len(a)
  <1>1. /\ \A k \in DOMAIN a : k \in DOMAIN c /\ c[k] = a[k]
        /\ \A k \in DOMAIN b : k + n \in DOMAIN c /\ c[k + n] = b[k]
    BY ConcatParts
  <1>2. n \in Nat /\ \A k \in DOMAIN a : k \in Nat
    OBVIOUS
  <1> HIDE DEF c, n
  <1>3. \A x : Similar(h, x, h, x)
    BY DEF Similar
  <1>4. ASSUME Holds(h, a, i, t) PROVE Holds(h, c, i, t)
    <2>1. \A k \in DOMAIN a : k + 0 \in DOMAIN c /\ Similar(h, a[k], h, c[k + 0])
      <3>1. \A k \in DOMAIN a : k + 0 = k
        BY <1>2
      <3>2. QED
        BY <1>1, <1>3, <3>1
    <2>2. Holds(h, c, i + 0, t)
      BY <1>4, <2>1, Transfer
    <2>3. i + 0 = i
      BY <1>4, HoldsUnfolds
    <2>4. QED
      BY <2>2, <2>3
  <1>5. ASSUME Holds(h, b, i, t) PROVE Holds(h, c, i + n, t)
    <2>1. \A k \in DOMAIN b : k + n \in DOMAIN c /\ Similar(h, b[k], h, c[k + n])
      BY <1>1, <1>3
    <2>2. QED
      BY <1>2, <1>5, <2>1, Transfer
  <1>6. QED
    BY <1>4, <1>5 DEF c, n

LEMMA AliveInConcat ==
  ASSUME NEW h, NEW L, NEW a \in Seq(Word), NEW b \in Seq(Word), Alive(h, L, a), Alive(h, L, b)
  PROVE  Alive(h, L, a \o b)
  <1>1. \A k \in DOMAIN (a \o b) :
              \/ k \in DOMAIN a /\ (a \o b)[k] = a[k]
              \/ k - Len(a) \in DOMAIN b /\ (a \o b)[k] = b[k - Len(a)]
    BY ConcatParts
  <1>2. QED
    BY <1>1 DEF Alive

(* Concatenations of one value of each of a row of sets, as FieldValues and *)
(* NewList make them.                                                       *)
Gathers(g, W, n) == g = [k \in 0 .. n |-> IF k = 0 THEN {<< >>} ELSE Concatenations(g[k - 1], W[k])]

LEMMA GatherExists ==
  ASSUME NEW W, NEW n \in Nat
  PROVE  \E g : Gathers(g, W, n)
  <1> DEFINE Bad == {m \in Nat : ~ \E g : Gathers(g, W, m)}
  <1>1. SUFFICES ASSUME Bad # {} PROVE FALSE
    OBVIOUS
  <1>2. PICK m \in Bad : \A j \in Bad : m <= j
    BY <1>1, LeastNumber
  <1>3. CASE m = 0
    <2> DEFINE g == [k \in 0 .. 0 |-> {<< >>}]
    <2>1. g = [k \in 0 .. 0 |-> IF k = 0 THEN {<< >>} ELSE Concatenations(g[k - 1], W[k])]
      OBVIOUS
    <2>2. Gathers(g, W, 0)
      BY <2>1 DEF Gathers
    <2>3. QED
      BY <1>3, <2>2
  <1>4. CASE m # 0
    <2>1. m \in Nat /\ m - 1 \in Nat /\ m - 1 \notin Bad
      BY <1>2, <1>4
    <2>2. PICK g : Gathers(g, W, m - 1)
      BY <2>1
    <2> DEFINE h == [k \in 0 .. m |-> IF k = m THEN Concatenations(g[m - 1], W[m]) ELSE g[k]]
    <2>3. ASSUME NEW k \in 0 .. m
          PROVE  h[k] = IF k = 0 THEN {<< >>} ELSE Concatenations(h[k - 1], W[k])
      <3>1. CASE k = m
        BY <1>4, <2>1, <3>1
      <3>2. CASE k # m
        <4>1. k \in 0 .. m - 1
          BY <2>1, <3>2
        <4>2. g[k] = IF k = 0 THEN {<< >>} ELSE Concatenations(g[k - 1], W[k])
          BY <2>2, <4>1 DEF Gathers
        <4>3. h[k] = g[k] /\ (k # 0 => h[k - 1] = g[k - 1])
          BY <2>1, <3>2
        <4>4. QED
          BY <4>2, <4>3
      <3>3. QED
        BY <3>1, <3>2
    <2>4. h = [k \in 0 .. m |-> h[k]]
      OBVIOUS
    <2> HIDE DEF h
    <2>5. Gathers(h, W, m)
      BY <2>3, <2>4 DEF Gathers
    <2>6. QED
      BY <2>5
  <1>5. QED
    BY <1>3, <1>4

Concatenates(w, A, B) == \E a \in A, b \in B : w = a \o b

LEMMA PartsOfConcatenation ==
  ASSUME NEW A, NEW B, NEW w, w \in Concatenations(A, B)
  PROVE  Concatenates(w, A, B)
  BY DEF Concatenations, Concatenates

(* E are the ends of the values.                                            *)
GoodRow(h, L, w, E, T, k) ==
  /\ w \in Seq(Word) /\ Len(w) = E[k] /\ Alive(h, L, w)
  /\ \A j \in 1 .. k : Holds(h, w, E[j - 1] + 1, T[j])

LEMMA GatherGood ==
  ASSUME NEW h, NEW L, NEW W, NEW n \in Nat, NEW g, Gathers(g, W, n), NEW T, NEW E \in [0 .. n -> Nat],
         E[0] = 0, \A k \in 1 .. n : E[k] = E[k - 1] + SizeOf(T[k]),
         \A k \in 1 .. n : \A w \in W[k] : GoodValue(h, L, w, T[k])
  PROVE  \A k \in 0 .. n : \A w \in g[k] : GoodRow(h, L, w, E, T, k)
  <1> DEFINE Bad == {k \in 0 .. n : ~ \A w \in g[k] : GoodRow(h, L, w, E, T, k)}
  <1>1. SUFFICES ASSUME Bad # {} PROVE FALSE
    OBVIOUS
  <1>2. PICK m \in Bad : \A j \in Bad : m <= j
    <2>1. Bad \in SUBSET Nat
      OBVIOUS
    <2> HIDE DEF Bad
    <2>2. QED
      BY <1>1, <2>1, LeastNumber
  <1>3. m \in 0 .. n /\ m \in Nat
    BY <1>2
  <1>4. PICK w \in g[m] : ~ GoodRow(h, L, w, E, T, m)
    BY <1>2
  <1> HIDE DEF Bad
  <1>5. CASE m = 0
    <2>1. g[0] = {<< >>}
      BY DEF Gathers
    <2>2. w = << >>
      BY <1>4, <1>5, <2>1
    <2>3. GoodRow(h, L, << >>, E, T, 0)
      <3>1. << >> \in Seq(Word) /\ Len(<< >>) = 0 /\ DOMAIN << >> = {}
        OBVIOUS
      <3>2. Alive(h, L, << >>)
        BY <3>1 DEF Alive
      <3>3. 1 .. 0 = {}
        OBVIOUS
      <3>4. QED
        BY <3>1, <3>2, <3>3 DEF GoodRow
    <2>4. QED
      BY <1>4, <1>5, <2>2, <2>3
  <1>6. CASE m # 0
    <2>1. m - 1 \in 0 .. n /\ m \in 1 .. n /\ m - 1 \notin Bad
      BY <1>2, <1>3, <1>6
    <2>2. g[m] = Concatenations(g[m - 1], W[m])
      BY <1>3, <1>6 DEF Gathers
    <2>3. PICK a \in g[m - 1], b \in W[m] : w = a \o b
      <3>1. w \in Concatenations(g[m - 1], W[m])
        BY <1>4, <2>2
      <3>2. Concatenates(w, g[m - 1], W[m])
        BY <3>1, PartsOfConcatenation
      <3>3. QED
        BY <3>2 DEF Concatenates
    <2>4. GoodRow(h, L, a, E, T, m - 1) /\ GoodValue(h, L, b, T[m])
      BY <2>1 DEF Bad
    <2>5. a \in Seq(Word) /\ b \in Seq(Word) /\ Len(a) = E[m - 1] /\ Len(b) = SizeOf(T[m])
          /\ Alive(h, L, a) /\ Alive(h, L, b) /\ Holds(h, b, 1, T[m])
      BY <2>4 DEF GoodRow, GoodValue
    <2>6. w \in Seq(Word) /\ Len(w) = E[m]
      <3>1. w \in Seq(Word) /\ Len(w) = Len(a) + Len(b)
        BY <2>3, <2>5, ConcatProperties
      <3>2. E[m] = E[m - 1] + SizeOf(T[m])
        BY <2>1
      <3>3. QED
        BY <2>5, <3>1, <3>2
    <2>7. Alive(h, L, w)
      BY <2>3, <2>5, AliveInConcat
    <2>8. ASSUME NEW j \in 1 .. m PROVE Holds(h, w, E[j - 1] + 1, T[j])
      <3>1. CASE j = m
        <4>1. Holds(h, w, 1 + Len(a), T[m])
          BY <2>3, <2>5, HoldsInConcat
        <4>2. 1 + Len(a) = E[m - 1] + 1
          BY <2>1, <2>5
        <4>3. QED
          BY <3>1, <4>1, <4>2
      <3>2. CASE j # m
        <4>1. j \in 1 .. m - 1
          BY <1>3, <3>2
        <4>2. Holds(h, a, E[j - 1] + 1, T[j])
          BY <2>4, <4>1 DEF GoodRow
        <4>3. QED
          BY <2>3, <2>5, <4>2, HoldsInConcat
      <3>3. QED
        BY <3>1, <3>2
    <2>9. GoodRow(h, L, w, E, T, m)
      BY <2>6, <2>7, <2>8 DEF GoodRow
    <2>10. QED
      BY <1>4, <2>9
  <1>7. QED
    BY <1>5, <1>6

(* The values of fields.                                                    *)
GoodFields(h, L, w, fields, start) ==
  /\ w \in Seq(Word) /\ Len(w) + start = EndOf(fields, start, Len(fields)) /\ Alive(h, L, w)
  /\ \A k \in DOMAIN fields :
       /\ fields[k].offset - start \in Nat
       /\ Holds(h, w, (fields[k].offset - start) + 1, fields[k].type)

GatherFields(g, fields, V) ==
  g = [n \in 0 .. Len(fields) |-> IF n = 0 THEN {<< >>} ELSE Concatenations(g[n - 1], V[fields[n].type])]

LEMMA FieldValuesGather ==
  ASSUME NEW fields \in FieldList, NEW V
  PROVE  \E g : Gathers(g, [k \in 1 .. Len(fields) |-> V[fields[k].type]], Len(fields))
                /\ FieldValues(fields, V) = g[Len(fields)]
  <1> DEFINE n == Len(fields)
             W == [k \in 1 .. n |-> V[fields[k].type]]
  <1>1. n \in Nat
    BY AField
  <1>2. \A g : Gathers(g, W, n) <=> GatherFields(g, fields, V)
    <2> TAKE g
    <2>1. \A k \in 0 .. n : (IF k = 0 THEN {<< >>} ELSE Concatenations(g[k - 1], W[k]))
                            = (IF k = 0 THEN {<< >>} ELSE Concatenations(g[k - 1], V[fields[k].type]))
      <3>1. ASSUME NEW k \in 0 .. n, k # 0 PROVE W[k] = V[fields[k].type]
        <4>1. k \in 1 .. n
          BY <1>1, <3>1
        <4>2. QED
          BY <4>1
      <3> HIDE DEF W
      <3>2. QED
        BY <3>1
    <2> HIDE DEF W
    <2>2. [k \in 0 .. n |-> IF k = 0 THEN {<< >>} ELSE Concatenations(g[k - 1], W[k])]
          = [k \in 0 .. n |-> IF k = 0 THEN {<< >>} ELSE Concatenations(g[k - 1], V[fields[k].type])]
      BY <2>1
    <2>3. QED
      BY <2>2 DEF Gathers, GatherFields
  <1> DEFINE f == CHOOSE g : GatherFields(g, fields, V)
  <1>3. \E g : Gathers(g, W, n)
    <2> HIDE DEF W
    <2>1. QED
      BY <1>1, GatherExists
  <1>4. GatherFields(f, fields, V)
    BY <1>2, <1>3
  <1>5. FieldValues(fields, V) = f[n]
    BY DEF FieldValues, GatherFields
  <1>6. QED
    BY <1>2, <1>4, <1>5

LEMMA FieldsAboveStart ==
  ASSUME NEW fields \in FieldList, NEW start \in Nat, Follow(fields, start)
  PROVE  \A k \in 0 .. Len(fields) : EndOf(fields, start, k) - start \in Nat
  <1> DEFINE E == Ends(fields, start, 0)
             n == Len(fields)
  <1>1. n \in Nat /\ 0 \in 0 .. n
    BY AField
  <1>2. Rising(E, n) /\ E[0] = start /\ \A k \in 0 .. n : E[k] = EndOf(fields, start, k)
    <2>1. Rising(E, n)
      BY FieldsRise
    <2>2. \A k \in 0 .. n : EndOf(fields, start, k) \in Nat
      BY EndIsNat
    <2>3. \A k \in 0 .. n : E[k] = 0 + EndOf(fields, start, k)
      BY DEF Ends
    <2> HIDE DEF E, n
    <2>4. \A k \in 0 .. n : E[k] = EndOf(fields, start, k)
      BY <2>2, <2>3
    <2>5. EndOf(fields, start, 0) = start
      BY DEF EndOf
    <2>6. QED
      BY <1>1, <2>1, <2>4, <2>5
  <1> HIDE DEF E, n
  <1>3. ASSUME NEW k \in 0 .. n PROVE EndOf(fields, start, k) - start \in Nat
    <2>1. E[0] <= E[k]
      <3>1. 0 \in 0 .. k
        OBVIOUS
      <3>2. QED
        BY <1>1, <1>2, <3>1, RisingBounds
    <2>2. E[k] \in Nat
      BY <1>2 DEF Rising
    <2>3. QED
      BY <1>2, <2>1, <2>2
  <1>4. QED
    BY <1>3 DEF n

LEMMA FieldValuesGood ==
  ASSUME NEW h, NEW L, NEW V, NEW fields \in FieldList, NEW start \in Nat, Follow(fields, start),
         \A k \in DOMAIN fields : \A w \in V[fields[k].type] : GoodValue(h, L, w, fields[k].type),
         NEW w \in FieldValues(fields, V)
  PROVE  GoodFields(h, L, w, fields, start)
  <1> DEFINE n == Len(fields)
             W == [k \in 1 .. n |-> V[fields[k].type]]
             T == [k \in 1 .. n |-> fields[k].type]
             E == [k \in 0 .. n |-> EndOf(fields, start, k) - start]
  <1>1. n \in Nat /\ n \in 0 .. n /\ 0 \in 0 .. n /\ DOMAIN fields = 1 .. n
        /\ \A k \in 1 .. n : fields[k].offset \in Nat /\ fields[k].type \in Types
    BY AField
  <1>2. PICK g : Gathers(g, W, n) /\ FieldValues(fields, V) = g[n]
    BY FieldValuesGather
  <1>3. \A k \in 0 .. n : E[k] = EndOf(fields, start, k) - start
    OBVIOUS
  <1>4. E \in [0 .. n -> Nat]
    BY FieldsAboveStart
  <1>5. \A k \in 1 .. n : W[k] = V[fields[k].type] /\ T[k] = fields[k].type
    OBVIOUS
  <1> HIDE DEF n, W, T, E
  <1>6. E[0] = 0
    BY <1>1, <1>3 DEF EndOf
  <1>7. ASSUME NEW k \in 1 .. n
        PROVE  E[k] = E[k - 1] + SizeOf(T[k]) /\ E[k - 1] = fields[k].offset - start /\ E[k - 1] \in Nat
    <2>1. k - 1 \in 0 .. n /\ k \in 0 .. n /\ k # 0
      BY <1>1
    <2>2. fields[k].offset = EndOf(fields, start, k - 1)
      BY <1>1 DEF Follow
    <2>3. EndOf(fields, start, k) = fields[k].offset + SizeOf(fields[k].type)
      BY <2>1 DEF EndOf, SizeOf
    <2>4. SizeOf(fields[k].type) \in Nat /\ fields[k].offset \in Nat
      BY <1>1, FieldsOfTypes
    <2>5. E[k - 1] = EndOf(fields, start, k - 1) - start /\ E[k] = EndOf(fields, start, k) - start
      BY <1>3, <2>1
    <2>6. E[k - 1] \in Nat
      BY <1>4, <2>1
    <2>7. QED
      BY <1>5, <2>2, <2>3, <2>4, <2>5, <2>6
  <1>8. \A k \in 1 .. n : \A x \in W[k] : GoodValue(h, L, x, T[k])
    BY <1>1, <1>5
  <1>9. \A k \in 0 .. n : \A x \in g[k] : GoodRow(h, L, x, E, T, k)
    <2>1. \A k \in 1 .. n : E[k] = E[k - 1] + SizeOf(T[k])
      BY <1>7
    <2>2. QED
      BY <1>1, <1>2, <1>4, <1>6, <1>8, <2>1, GatherGood
  <1>10. GoodRow(h, L, w, E, T, n)
    BY <1>1, <1>2, <1>9
  <1>11. w \in Seq(Word) /\ Len(w) = E[n] /\ Alive(h, L, w)
         /\ \A j \in 1 .. n : Holds(h, w, E[j - 1] + 1, T[j])
    BY <1>10 DEF GoodRow
  <1>12. Len(w) + start = EndOf(fields, start, n)
    <2>1. EndOf(fields, start, n) \in Nat /\ E[n] = EndOf(fields, start, n) - start
      BY <1>1, <1>3, EndIsNat DEF n
    <2>2. QED
      BY <1>11, <2>1
  <1>13. ASSUME NEW k \in DOMAIN fields
         PROVE  fields[k].offset - start \in Nat /\ Holds(h, w, (fields[k].offset - start) + 1, fields[k].type)
    <2>1. k \in 1 .. n
      BY <1>1
    <2>2. E[k - 1] = fields[k].offset - start /\ E[k - 1] \in Nat
      BY <1>7, <2>1
    <2>3. Holds(h, w, E[k - 1] + 1, fields[k].type)
      BY <1>5, <1>11, <2>1
    <2>4. QED
      BY <2>2, <2>3
  <1>14. QED
    BY <1>11, <1>12, <1>13 DEF GoodFields, n

(* The items of a list.                                                     *)
GatherItems(g, V) ==
  g = [n \in 0 .. MaxItems |-> IF n = 0 THEN {<< >>} ELSE Concatenations(g[n - 1], V)]

ItemsOfList(V) == CHOOSE g : GatherItems(g, V)

LEMMA ItemsGather ==
  ASSUME NEW V
  PROVE  Gathers(ItemsOfList(V), [k \in 1 .. MaxItems |-> V], MaxItems)
  <1> DEFINE W == [k \in 1 .. MaxItems |-> V]
  <1>1. MaxItems \in Nat
    BY BoundsAssumption
  <1>2. \A g : Gathers(g, W, MaxItems) <=> GatherItems(g, V)
    <2> TAKE g
    <2>1. \A k \in 0 .. MaxItems : (IF k = 0 THEN {<< >>} ELSE Concatenations(g[k - 1], W[k]))
                                   = (IF k = 0 THEN {<< >>} ELSE Concatenations(g[k - 1], V))
      <3>1. ASSUME NEW k \in 0 .. MaxItems, k # 0 PROVE W[k] = V
        <4>1. k \in 1 .. MaxItems
          BY <1>1, <3>1
        <4>2. QED
          BY <4>1
      <3> HIDE DEF W
      <3>2. QED
        BY <3>1
    <2> HIDE DEF W
    <2>2. [k \in 0 .. MaxItems |-> IF k = 0 THEN {<< >>} ELSE Concatenations(g[k - 1], W[k])]
          = [k \in 0 .. MaxItems |-> IF k = 0 THEN {<< >>} ELSE Concatenations(g[k - 1], V)]
      BY <2>1
    <2>3. QED
      BY <2>2 DEF Gathers, GatherItems
  <1> HIDE DEF W
  <1>3. \E g : Gathers(g, W, MaxItems)
    BY <1>1, GatherExists
  <1>4. GatherItems(ItemsOfList(V), V)
    BY <1>2, <1>3 DEF ItemsOfList
  <1>5. QED
    BY <1>2, <1>4 DEF W

LEMMA ItemsGood ==
  ASSUME NEW h, NEW L, NEW V, NEW item \in Types, \A w \in V : GoodValue(h, L, w, item),
         NEW n \in 0 .. MaxItems, NEW w \in ItemsOfList(V)[n], NEW t
  PROVE  /\ w \in Seq(Word) /\ Alive(h, L, w)
         /\ ListOf(h, CellOf(t, w, n, SizeOf(item), 1), item)
  <1> DEFINE s == SizeOf(item)
             E == [k \in 0 .. MaxItems |-> k * s]
             T == [k \in 1 .. MaxItems |-> item]
             W == [k \in 1 .. MaxItems |-> V]
             g == ItemsOfList(V)
             c == CellOf(t, w, n, s, 1)
  <1>1. MaxItems \in Nat /\ s \in Nat /\ 0 \in 0 .. MaxItems /\ n \in Nat
    BY BoundsAssumption, FieldsOfTypes
  <1>2. Gathers(g, W, MaxItems)
    BY ItemsGather
  <1>3. \A k \in 1 .. MaxItems : T[k] = item /\ W[k] = V /\ k - 1 \in 0 .. MaxItems /\ k \in 0 .. MaxItems
    BY <1>1
  <1>4. c.count = n /\ c.itemSize = s /\ c.words = w
    BY DEF CellOf
  <1>5. \A k \in 0 .. MaxItems : E[k] = k * s
    OBVIOUS
  <1> HIDE DEF s, T, W, g, c
  <1>6. E \in [0 .. MaxItems -> Nat]
    <2>1. \A k \in 0 .. MaxItems : k * s \in Nat
      BY <1>1
    <2>2. QED
      BY <2>1
  <1> HIDE DEF E
  <1>7. E[0] = 0
    <2>1. 0 * s = 0
      BY <1>1
    <2>2. QED
      BY <1>1, <1>5, <2>1
  <1>8. \A k \in 1 .. MaxItems : E[k] = E[k - 1] + SizeOf(T[k])
    <2>1. ASSUME NEW k \in 1 .. MaxItems PROVE k * s = (k - 1) * s + s
      BY <1>1
    <2>2. QED
      BY <1>3, <1>5, <2>1 DEF s
  <1>9. \A k \in 1 .. MaxItems : \A x \in W[k] : GoodValue(h, L, x, T[k])
    BY <1>3
  <1>10. \A k \in 0 .. MaxItems : \A x \in g[k] : GoodRow(h, L, x, E, T, k)
    BY <1>1, <1>2, <1>6, <1>7, <1>8, <1>9, GatherGood
  <1>11. GoodRow(h, L, w, E, T, n)
    BY <1>10 DEF g
  <1>12. w \in Seq(Word) /\ Len(w) = n * s /\ Alive(h, L, w)
         /\ \A j \in 1 .. n : Holds(h, w, E[j - 1] + 1, T[j])
    BY <1>5, <1>11 DEF GoodRow
  <1>13. DOMAIN w = 1 .. (n * s)
    BY <1>12
  <1>14. ASSUME NEW j \in 1 .. n PROVE Holds(h, w, (j - 1) * s + 1, item)
    <2>1. j \in 1 .. MaxItems
      BY <1>1
    <2>2. T[j] = item /\ E[j - 1] = (j - 1) * s
      BY <1>3, <1>5, <2>1
    <2>3. QED
      BY <1>12, <2>2
  <1>15. ListOf(h, c, item)
    BY <1>1, <1>4, <1>13, <1>14 DEF ListOf, s
  <1>16. QED
    BY <1>12, <1>15 DEF c, s

(* The values of one level, made of those of the level below.               *)
Heap(m, a) == [x \in {y \in DOMAIN m : y[1] = a} |-> m[x]]
H == Heap(mem, current)

LEMMA OneWordGood ==
  ASSUME NEW h, NEW L, NEW x \in Word, NEW t \in Types, SizeOf(t) = 1,
         Proper(h, <<x>>, Held(h, <<x>>), 1, t),
         x \in Pointers => x \in DOMAIN h, x \in Objects => x \in L
  PROVE  GoodValue(h, L, <<x>>, t)
  <1>1. <<x>> \in Seq(Word) /\ Len(<<x>>) = 1 /\ DOMAIN <<x>> = {1} /\ <<x>>[1] = x
    OBVIOUS
  <1>2. Holds(h, <<x>>, 1, t)
    BY HoldsFolds
  <1>3. QED
    BY <1>1, <1>2 DEF GoodValue, Alive

LEMMA RecordGood ==
  ASSUME NEW h, NEW L, NEW V, NEW t \in Types, Kind(t) = "record",
         \A u \in Types : \A w \in V[u] : GoodValue(h, L, w, u),
         NEW w \in FieldValues(TypeInfo[t].fields, V)
  PROVE  GoodValue(h, L, w, t)
  <1> DEFINE fields == TypeInfo[t].fields
  <1>1. fields \in FieldList
    BY FieldsOfTypes
  <1>2. Follow(fields, 0) /\ SizeOf(t) = EndOf(fields, 0, Len(fields))
    BY LayoutAssumption DEF Kind, SizeOf
  <1>3. w \in FieldValues(fields, V) /\ (Kind(t) = "record" => TypeInfo[t].fields = fields)
    OBVIOUS
  <1> HIDE DEF fields
  <1>4. /\ DOMAIN fields = 1 .. Len(fields)
        /\ \A k \in DOMAIN fields : fields[k].offset \in Nat /\ fields[k].type \in Types
    BY <1>1, AField
  <1>5. \A k \in DOMAIN fields : \A x \in V[fields[k].type] : GoodValue(h, L, x, fields[k].type)
    BY <1>4
  <1>6. GoodFields(h, L, w, fields, 0)
    BY <1>1, <1>2, <1>3, <1>5, FieldValuesGood
  <1>7. w \in Seq(Word) /\ Len(w) = SizeOf(t) /\ Alive(h, L, w)
    <2>1. w \in Seq(Word) /\ Len(w) + 0 = SizeOf(t) /\ Alive(h, L, w)
      BY <1>2, <1>6 DEF GoodFields
    <2>2. QED
      BY <2>1
  <1>8. FieldsIn(Held(h, w), 1, fields)
    <2>1. ASSUME NEW k \in DOMAIN fields PROVE <<1 + fields[k].offset, fields[k].type>> \in Held(h, w)
      <3>1. Holds(h, w, (fields[k].offset - 0) + 1, fields[k].type)
        BY <1>6 DEF GoodFields
      <3>2. (fields[k].offset - 0) + 1 = 1 + fields[k].offset
        BY <1>4
      <3>3. QED
        BY <3>1, <3>2, HeldHolds
    <2>2. QED
      BY <2>1 DEF FieldsIn
  <1>9. Proper(h, w, Held(h, w), 1, t)
    BY <1>3, <1>8 DEF Proper
  <1>10. Holds(h, w, 1, t)
    BY <1>9, HoldsFolds
  <1>11. QED
    BY <1>7, <1>10 DEF GoodValue

LEMMA PaddedWords ==
  ASSUME NEW w \in Seq(Word), NEW size \in Nat, Len(w) <= size
  PROVE  /\ Padded(w, size) \in Seq(Word) /\ Len(Padded(w, size)) = size
         /\ \E z \in Seq(Word) : Padded(w, size) = w \o z /\ \A i \in DOMAIN z : z[i] = NoObject
         /\ \A i \in 1 .. Len(w) : Padded(w, size)[i] = w[i]
         /\ \A i \in (Len(w) + 1) .. size : Padded(w, size)[i] = NoObject
  <1> DEFINE n == size - Len(w)
             z == [i \in 1 .. n |-> NoObject]
             p == Padded(w, size)
  <1>1. n \in Nat /\ Len(w) \in Nat
    OBVIOUS
  <1>2. p = w \o z
    BY DEF Padded
  <1>3. z \in Seq(Word) /\ Len(z) = n /\ \A i \in 1 .. n : z[i] = NoObject
    BY <1>1 DEF Word
  <1> HIDE DEF z, p
  <1>4. p \in Seq(Word) /\ Len(p) = Len(w) + n
        /\ \A i \in 1 .. Len(w) + n : p[i] = IF i <= Len(w) THEN w[i] ELSE z[i - Len(w)]
    BY <1>2, <1>3, ConcatProperties
  <1>5. Len(w) + n = size
    BY <1>1
  <1>6. \A i \in 1 .. Len(w) : p[i] = w[i]
    BY <1>1, <1>4, <1>5
  <1>7. \A i \in (Len(w) + 1) .. size : p[i] = NoObject
    <2>1. ASSUME NEW i \in (Len(w) + 1) .. size PROVE p[i] = NoObject
      <3>1. i - Len(w) \in 1 .. n /\ i \in 1 .. size /\ ~ (i <= Len(w))
        BY <1>1
      <3>2. p[i] = z[i - Len(w)]
        BY <1>4, <1>5, <3>1
      <3>3. QED
        BY <1>3, <3>1, <3>2
    <2>2. QED
      BY <2>1
  <1>8. \A i \in DOMAIN z : z[i] = NoObject
    BY <1>3 DEF z
  <1>9. QED
    BY <1>2, <1>3, <1>4, <1>5, <1>6, <1>7, <1>8 DEF p

Joins(w, a, b) ==
  /\ w \in Seq(Word) /\ Len(w) = Len(a) + Len(b)
  /\ \A i \in 1 .. Len(a) + Len(b) : w[i] = IF i <= Len(a) THEN a[i] ELSE b[i - Len(a)]

LEMMA WordsJoined ==
  ASSUME NEW a \in Seq(Word), NEW b \in Seq(Word)
  PROVE  Joins(a \o b, a, b)
  <1> DEFINE W == Word
  <1>1. a \in Seq(W) /\ b \in Seq(W)
    OBVIOUS
  <1> HIDE DEF W
  <1>2. /\ a \o b \in Seq(W) /\ Len(a \o b) = Len(a) + Len(b)
        /\ \A i \in 1 .. Len(a) + Len(b) : (a \o b)[i] = IF i <= Len(a) THEN a[i] ELSE b[i - Len(a)]
    BY <1>1, ConcatProperties
  <1>3. QED
    BY <1>2 DEF Joins, W

LEMMA CustomGood ==
  ASSUME NEW h, NEW L, NEW V, NEW t \in Types, Kind(t) = "custom",
         \A u \in Types : \A w \in V[u] : GoodValue(h, L, w, u),
         NEW v \in DOMAIN TypeInfo[t].variants,
         NEW w \in FieldValues(TypeInfo[t].variants[v], V)
  PROVE  GoodValue(h, L, Padded(<<Number(v - 1)>> \o w, SizeOf(t)), t)
  <1> DEFINE fields == TypeInfo[t].variants[v]
             n == Len(fields)
             e == EndOf(fields, 1, n)
             first == <<Number(v - 1)>>
             body == first \o w
             all == Padded(body, SizeOf(t))
  <1>1. fields \in FieldList /\ SizeOf(t) \in Nat /\ v \in Nat /\ TypeInfo[t].variants \in Seq(FieldList)
    BY FieldsOfTypes, TypeInfoAssumption DEF Kind
  <1>2. Follow(fields, 1) /\ SizeOf(t) >= e
    BY LayoutAssumption DEF Kind, SizeOf
  <1>3. v - 1 \in Nat
    BY <1>1
  <1>4. Number(v - 1) \in Numbers /\ Number(v - 1) \in Word
    BY <1>3 DEF Numbers, Word
  <1>5. first \in Seq(Word) /\ Len(first) = 1 /\ DOMAIN first = {1} /\ first[1] = Number(v - 1)
    BY <1>4
  <1>6. w \in FieldValues(fields, V) /\ fields = TypeInfo[t].variants[v]
    OBVIOUS
  <1> HIDE DEF fields, first, all, e, n
  <1>7. /\ n \in Nat /\ DOMAIN fields = 1 .. n
        /\ \A k \in DOMAIN fields : fields[k].offset \in Nat /\ fields[k].type \in Types
    BY <1>1, AField DEF n
  <1>8. e \in Nat
    BY <1>1, <1>2, EndIsPast DEF e, n
  <1>9. GoodFields(h, L, w, fields, 1)
    <2>1. \A k \in DOMAIN fields : \A x \in V[fields[k].type] : GoodValue(h, L, x, fields[k].type)
      BY <1>7
    <2>2. QED
      BY <1>1, <1>2, <1>6, <2>1, FieldValuesGood
  <1>10. w \in Seq(Word) /\ Len(w) + 1 = e /\ Alive(h, L, w)
    BY <1>9 DEF GoodFields, e, n
  <1>11. body \in Seq(Word) /\ Len(body) = e /\ body[1] = Number(v - 1)
    <2>1. /\ body \in Seq(Word) /\ Len(body) = Len(first) + Len(w)
          /\ \A i \in 1 .. Len(first) + Len(w) : body[i] = IF i <= Len(first) THEN first[i] ELSE w[i - Len(first)]
      <3>1. first \in Seq(Word) /\ w \in Seq(Word)
        BY <1>5, <1>10
      <3>2. Joins(first \o w, first, w)
        BY <3>1, WordsJoined
      <3>3. QED
        BY <3>2 DEF Joins
    <2>2. Len(first) + Len(w) = e /\ 1 \in 1 .. Len(first) + Len(w) /\ 1 <= Len(first)
      BY <1>5, <1>10
    <2>3. QED
      BY <1>5, <2>1, <2>2
  <1>12. Alive(h, L, body)
    <2>1. Alive(h, L, first)
      BY <1>4, <1>5, SortsOfWords DEF Alive
    <2>2. QED
      BY <1>5, <1>10, <2>1, AliveInConcat
  <1>13. ASSUME NEW k \in DOMAIN fields PROVE Holds(h, body, 1 + fields[k].offset, fields[k].type)
    <2>1. fields[k].offset - 1 \in Nat /\ Holds(h, w, (fields[k].offset - 1) + 1, fields[k].type)
      BY <1>9 DEF GoodFields
    <2>2. Holds(h, body, ((fields[k].offset - 1) + 1) + 1, fields[k].type)
      BY <1>5, <1>10, <2>1, HoldsInConcat
    <2>3. ((fields[k].offset - 1) + 1) + 1 = 1 + fields[k].offset
      BY <1>7
    <2>4. QED
      BY <2>2, <2>3
  <1> HIDE DEF body
  <1>14. /\ all \in Seq(Word) /\ Len(all) = SizeOf(t)
         /\ \A i \in 1 .. Len(body) : all[i] = body[i]
         /\ \A i \in (Len(body) + 1) .. SizeOf(t) : all[i] = NoObject
    BY <1>1, <1>2, <1>8, <1>11, PaddedWords DEF all
  <1>15. PICK z \in Seq(Word) : all = body \o z /\ \A i \in DOMAIN z : z[i] = NoObject
    BY <1>1, <1>2, <1>8, <1>11, PaddedWords DEF all
  <1>16. Alive(h, L, all)
    <2>1. Alive(h, L, z)
      BY <1>15, SortsOfWords DEF Alive
    <2>2. QED
      BY <1>11, <1>12, <1>15, <2>1, AliveInConcat
  <1>17. FieldsIn(Held(h, all), 1, fields)
    <2>1. ASSUME NEW k \in DOMAIN fields PROVE <<1 + fields[k].offset, fields[k].type>> \in Held(h, all)
      <3>1. Holds(h, all, 1 + fields[k].offset, fields[k].type)
        BY <1>11, <1>13, <1>15, HoldsInConcat
      <3>2. QED
        BY <3>1, HeldHolds
    <2>2. QED
      BY <2>1 DEF FieldsIn
  <1>18. e >= 1
    BY <1>1, <1>2, EndIsPast DEF e, n
  <1>19. 1 \in DOMAIN all /\ all[1] = Number(v - 1)
    <2>1. 1 \in 1 .. Len(body) /\ 1 \in 1 .. SizeOf(t)
      BY <1>1, <1>2, <1>8, <1>11, <1>18
    <2>2. QED
      BY <1>11, <1>14, <2>1
  <1>20. ASSUME NEW k \in (1 + e) .. (1 + SizeOf(t) - 1) PROVE k \in DOMAIN all /\ all[k] = NoObject
    <2>1. k \in (Len(body) + 1) .. SizeOf(t) /\ k \in 1 .. SizeOf(t)
      BY <1>1, <1>8, <1>11
    <2>2. QED
      BY <1>14, <2>1
  <1>21. IsVariant(all, Held(h, all), 1, t, v)
    BY <1>6, <1>17, <1>19, <1>20 DEF IsVariant, e, n
  <1>22. Proper(h, all, Held(h, all), 1, t)
    BY <1>21 DEF Proper
  <1>23. Holds(h, all, 1, t)
    BY <1>22, HoldsFolds
  <1>24. QED
    BY <1>14, <1>16, <1>23 DEF GoodValue, all, body, first

\* What the values of a program are made of.
Sound ==
  /\ DOMAIN mem \subseteq Pointers
  /\ Registry!Live \subseteq Objects
  /\ Objects \cap StateWords \subseteq Registry!Live

LEMMA InlineGood ==
  ASSUME Sound, NEW V, \A u \in Types : \A w \in V[u] : GoodValue(H, Registry!Live, w, u),
         NEW t \in Types, NEW w \in InlineValues(t, V)
  PROVE  GoodValue(H, Registry!Live, w, t)
  <1>1. /\ SizeOf(t) \in Nat
        /\ Kind(t) \in {"scalar", "octets", "record", "custom", "list", "alias", "function", "unmanaged", "unsupported"}
        /\ Kind(t) \in {"scalar", "octets", "list", "function", "unmanaged", "unsupported"} => SizeOf(t) = 1
    BY FieldsOfTypes
  <1> DEFINE L == Registry!Live
  <1>2. ASSUME NEW x PROVE 1 \in DOMAIN <<x>> /\ <<x>>[1] = x
    OBVIOUS
  <1> HIDE DEF L
  <1>3. CASE Kind(t) = "scalar"
    <2>1. w = <<Number(0)>>
      BY <1>3 DEF InlineValues
    <2>2. Number(0) \in Numbers /\ Number(0) \in Word
      BY DEF Numbers, Word
    <2>3. Number(0) \notin Pointers /\ Number(0) \notin Objects
      BY <2>2, SortsOfWords
    <2>4. Proper(H, w, Held(H, w), 1, t)
      BY <1>2, <1>3, <2>1, <2>2 DEF Proper
    <2>5. QED
      BY <1>1, <1>3, <2>1, <2>2, <2>3, <2>4, OneWordGood DEF L
  <1>4. CASE Kind(t) \in {"octets", "list"}
    <2>1. PICK x \in DOMAIN mem : x[1] = current /\ mem[x].type = t /\ w = <<x>>
      <3>1. w \in {<<x>> : x \in {y \in DOMAIN mem : y[1] = current /\ mem[y].type = t}}
        BY <1>4 DEF InlineValues
      <3>2. QED
        BY <3>1
    <2>2. x \in DOMAIN H /\ H[x] = mem[x] /\ x \in Pointers /\ x \in Word /\ x \notin Objects
      BY <2>1, SortsOfWords DEF H, Heap, Sound, Word
    <2>3. Proper(H, w, Held(H, w), 1, t)
      BY <1>2, <1>4, <2>1, <2>2 DEF Proper
    <2>4. QED
      BY <1>1, <1>4, <2>1, <2>2, <2>3, OneWordGood DEF L
  <1>5. CASE Kind(t) = "unmanaged"
    <2>1. PICK o : o \in Registry!Live \cup (Objects \cap StateWords) /\ w = <<o>>
      <3>1. w \in {<<o>> : o \in Registry!Live \cup (Objects \cap StateWords)}
        BY <1>5 DEF InlineValues
      <3>2. QED
        BY <3>1
    <2>2. o \in L /\ o \in Objects /\ o \in Word /\ o \notin Pointers
      BY <2>1, SortsOfWords DEF Sound, Word, L
    <2>3. Proper(H, w, Held(H, w), 1, t)
      BY <1>2, <1>5, <2>1, <2>2 DEF Proper
    <2>4. QED
      BY <1>1, <1>5, <2>1, <2>2, <2>3, OneWordGood DEF L
  <1>6. CASE Kind(t) \in {"function", "unsupported"}
    <2>1. w = <<NoObject>>
      BY <1>6 DEF InlineValues
    <2>2. NoObject \in Word /\ NoObject \notin Objects /\ NoObject \notin Pointers
      BY SortsOfWords DEF Word
    <2>3. Proper(H, w, Held(H, w), 1, t)
      BY <1>2, <1>6, <2>1 DEF Proper
    <2>4. QED
      BY <1>1, <1>6, <2>1, <2>2, <2>3, OneWordGood DEF L
  <1>7. CASE Kind(t) = "alias"
    <2> DEFINE u == TypeInfo[t].item
    <2>1. u \in Types /\ SizeOf(u) = SizeOf(t)
      BY <1>7, FieldsOfTypes
    <2>2. w \in V[u]
      BY <1>7 DEF InlineValues
    <2>3. GoodValue(H, L, w, u)
      BY <2>1, <2>2 DEF L
    <2>4. <<1, u>> \in Held(H, w)
      BY <2>3, HeldHolds DEF GoodValue
    <2>5. Proper(H, w, Held(H, w), 1, t)
      BY <1>7, <2>4 DEF Proper
    <2>6. Holds(H, w, 1, t)
      BY <2>5, HoldsFolds
    <2> HIDE DEF u
    <2>7. QED
      BY <2>1, <2>3, <2>6 DEF GoodValue, L
  <1>8. CASE Kind(t) = "record"
    <2>1. w \in FieldValues(TypeInfo[t].fields, V)
      BY <1>8 DEF InlineValues
    <2>2. QED
      BY <1>8, <2>1, RecordGood
  <1>9. CASE Kind(t) = "custom"
    <2>1. PICK v \in DOMAIN TypeInfo[t].variants :
            w \in {Padded(<<Number(v - 1)>> \o x, SizeOf(t)) : x \in FieldValues(TypeInfo[t].variants[v], V)}
      <3>1. w \in UNION {{Padded(<<Number(i - 1)>> \o x, SizeOf(t)) : x \in FieldValues(TypeInfo[t].variants[i], V)} :
                           i \in DOMAIN TypeInfo[t].variants}
        BY <1>9 DEF InlineValues
      <3>2. QED
        BY <3>1
    <2>2. PICK x \in FieldValues(TypeInfo[t].variants[v], V) : w = Padded(<<Number(v - 1)>> \o x, SizeOf(t))
      BY <2>1
    <2>3. QED
      BY <1>9, <2>2, CustomGood
  <1>10. QED
    BY <1>1, <1>3, <1>4, <1>5, <1>6, <1>7, <1>8, <1>9

(* All levels.                                                              *)
Nests(g, n) ==
  g = [k \in 0 .. n |-> IF k = 0 THEN [t \in Types |-> {}]
                        ELSE LET V == g[k - 1] IN [t \in Types |-> InlineValues(t, V)]]

LEMMA NestsExists ==
  ASSUME NEW n \in Nat
  PROVE  \E g : Nests(g, n)
  <1> DEFINE zero == [t \in Types |-> {}]
             above(V) == [t \in Types |-> InlineValues(t, V)]
             Bad == {m \in Nat : ~ \E g : Nests(g, m)}
  <1>0. \A g, m : Nests(g, m) <=> g = [k \in 0 .. m |-> IF k = 0 THEN zero ELSE above(g[k - 1])]
    BY DEF Nests
  <1> HIDE DEF zero, above
  <1>1. SUFFICES ASSUME Bad # {} PROVE FALSE
    OBVIOUS
  <1>2. PICK m \in Bad : \A j \in Bad : m <= j
    BY <1>1, LeastNumber
  <1>3. CASE m = 0
    <2> DEFINE g == [k \in 0 .. 0 |-> zero]
    <2>1. g = [k \in 0 .. 0 |-> IF k = 0 THEN zero ELSE above(g[k - 1])]
      OBVIOUS
    <2> HIDE DEF g
    <2>2. Nests(g, 0)
      BY <1>0, <2>1
    <2>3. QED
      BY <1>3, <2>2
  <1>4. CASE m # 0
    <2>1. m \in Nat /\ m - 1 \in Nat /\ m - 1 \notin Bad
      BY <1>2, <1>4
    <2>2. PICK g : Nests(g, m - 1)
      BY <2>1
    <2> DEFINE h == [k \in 0 .. m |-> IF k = m THEN above(g[m - 1]) ELSE g[k]]
    <2>3. ASSUME NEW k \in 0 .. m PROVE h[k] = IF k = 0 THEN zero ELSE above(h[k - 1])
      <3>1. CASE k = m
        BY <1>4, <2>1, <3>1
      <3>2. CASE k # m
        <4>1. k \in 0 .. m - 1
          BY <2>1, <3>2
        <4>2. g = [i \in 0 .. m - 1 |-> IF i = 0 THEN zero ELSE above(g[i - 1])]
          BY <1>0, <2>2
        <4>3. g[k] = IF k = 0 THEN zero ELSE above(g[k - 1])
          BY <4>1, <4>2
        <4>4. h[k] = g[k] /\ (k # 0 => h[k - 1] = g[k - 1])
          BY <2>1, <3>2
        <4>5. QED
          BY <4>3, <4>4
      <3>3. QED
        BY <3>1, <3>2
    <2>4. h = [k \in 0 .. m |-> h[k]]
      OBVIOUS
    <2> HIDE DEF h
    <2>5. h = [k \in 0 .. m |-> IF k = 0 THEN zero ELSE above(h[k - 1])]
      BY <2>3, <2>4
    <2>6. Nests(h, m)
      BY <1>0, <2>5
    <2>7. QED
      BY <2>6
  <1>5. QED
    BY <1>3, <1>4

LEMMA ValuesGood ==
  ASSUME Sound
  PROVE  \A t \in Types : \A w \in ValuesOf[t] : GoodValue(H, Registry!Live, w, t)
  <1> DEFINE n == MaxNesting
             g == CHOOSE f : Nests(f, n)
             Good(V) == \A t \in Types : \A w \in V[t] : GoodValue(H, Registry!Live, w, t)
             Bad == {k \in 0 .. n : ~ Good(g[k])}
  <1>1. n \in Nat
    BY BoundsAssumption
  <1>2. ValuesOf = g[n]
    BY DEF ValuesOf, Nests
  <1>3. Nests(g, n)
    BY <1>1, NestsExists
  <1>4. g[0] = [t \in Types |-> {}]
    <2>1. \A k \in 0 .. n : k = 0 => g[k] = [t \in Types |-> {}]
      BY <1>3 DEF Nests
    <2>2. 0 \in 0 .. n
      BY <1>1
    <2> HIDE DEF g, n
    <2>3. QED
      BY <2>1, <2>2
  <1>5. \A k \in 0 .. n : k # 0 => g[k] = [t \in Types |-> InlineValues(t, g[k - 1])]
    BY <1>3 DEF Nests
  <1> HIDE DEF g
  <1>6. Good(g[0])
    BY <1>4
  <1>7. ASSUME NEW k \in 0 .. n, k # 0, Good(g[k - 1]) PROVE Good(g[k])
    <2>1. \A t \in Types : g[k][t] = InlineValues(t, g[k - 1])
      BY <1>5, <1>7
    <2>2. QED
      BY <1>7, <2>1, InlineGood
  <1> HIDE DEF Good
  <1>8. Bad = {}
    <2>1. SUFFICES ASSUME Bad # {} PROVE FALSE
      OBVIOUS
    <2>2. PICK m \in Bad : \A j \in Bad : m <= j
      <3>1. Bad \in SUBSET Nat
        OBVIOUS
      <3> HIDE DEF Bad
      <3>2. QED
        BY <2>1, <3>1, LeastNumber
    <2>3. m # 0
      BY <1>6, <2>2
    <2>4. m - 1 \in 0 .. n /\ m - 1 \notin Bad
      BY <1>1, <2>2, <2>3
    <2>5. Good(g[m - 1])
      BY <2>4
    <2>6. QED
      BY <1>7, <2>2, <2>3, <2>5
  <1>9. n \in 0 .. n
    BY <1>1
  <1>10. Good(g[n])
    BY <1>8, <1>9
  <1>11. QED
    BY <1>2, <1>10 DEF Good

-----------------------------------------------------------------------------
(* The cells of an arena.                                                   *)
GoodCell(h, L, c) ==
  /\ \A i \in DOMAIN c.words : i \in Nat
  /\ Alive(h, L, c.words)
  /\ Kind(c.type) = "octets" => \A i \in DOMAIN c.words : c.words[i] \in Characters
  /\ Kind(c.type) = "list" => ListOf(h, c, TypeInfo[c.type].item)

Within(h, g) == \A x \in DOMAIN h : x \in DOMAIN g /\ g[x].type = h[x].type

(* What is good stays good in more cells and among more objects.            *)
LEMMA GoodInMore ==
  ASSUME NEW h, NEW g, Within(h, g), NEW L, NEW M, L \subseteq M
  PROVE  /\ \A w : Alive(h, L, w) => Alive(g, M, w)
         /\ \A w, t : GoodValue(h, L, w, t) => GoodValue(g, M, w, t)
         /\ \A c : GoodCell(h, L, c) => GoodCell(g, M, c)
  <1>1. ASSUME NEW w, Alive(h, L, w) PROVE Alive(g, M, w)
    BY <1>1 DEF Alive, Within
  <1>2. ASSUME NEW w, \A i \in DOMAIN w : i \in Nat, NEW n, NEW u, Holds(h, w, n, u) PROVE Holds(g, w, n, u)
    BY <1>2, HoldsInMore DEF Within
  <1>3. ASSUME NEW w, NEW t, GoodValue(h, L, w, t) PROVE GoodValue(g, M, w, t)
    <2>1. w \in Seq(Word) /\ Len(w) = SizeOf(t) /\ Holds(h, w, 1, t) /\ Alive(h, L, w)
      BY <1>3 DEF GoodValue
    <2>2. \A i \in DOMAIN w : i \in Nat
      BY <2>1
    <2>3. Holds(g, w, 1, t) /\ Alive(g, M, w)
      BY <1>1, <1>2, <2>1, <2>2
    <2>4. QED
      BY <2>1, <2>3 DEF GoodValue
  <1>4. ASSUME NEW c, GoodCell(h, L, c) PROVE GoodCell(g, M, c)
    <2>1. /\ \A i \in DOMAIN c.words : i \in Nat
          /\ Alive(g, M, c.words)
          /\ Kind(c.type) = "octets" => \A i \in DOMAIN c.words : c.words[i] \in Characters
      BY <1>1, <1>4 DEF GoodCell
    <2>2. ASSUME NEW item, ListOf(h, c, item) PROVE ListOf(g, c, item)
      BY <1>2, <2>1, <2>2 DEF ListOf
    <2>3. QED
      BY <1>4, <2>1, <2>2 DEF GoodCell
  <1>5. QED
    BY <1>1, <1>3, <1>4

(* The invariant, over the variables it is about: the cells of the arena    *)
(* the state is in and the state are good, ...                              *)
CellsOfArena(m, a) == {x \in DOMAIN m : x[1] = a}

GoodState(m, a, L, t, s, ph) ==
  /\ \A x \in CellsOfArena(m, a) : GoodCell(Heap(m, a), L, m[x])
  /\ \A i \in DOMAIN s : i \in Nat
  /\ Alive(Heap(m, a), L, s)
  /\ ph # "main" => GoodValue(Heap(m, a), L, s, t)

(* ... the copy is one of them as far as it has come ...                    *)
OwnsIn(sl, r, o) == \E i \in Registry!Slots : sl[r][i] = o

SourceOf(m, a, t, s) ==
  [x \in CellsOfArena(m, a) \cup {<< >>} |-> IF x = << >> THEN CellOf(t, s, 1, SizeOf(t), 1) ELSE m[x]]

PairsOf(sl, al, org, r, clone) ==
  {p \in Objects \X Objects :
     OwnsIn(sl, r, p[1]) /\ org[p[1]] = org[p[2]] /\ (~clone => p[1] = p[2]) /\ p[2] \in al}

CopiedTo(src, m, b, rt, tasks, clones, from) ==
  /\ DOMAIN from = CellsOfArena(m, b) /\ rt \in DOMAIN from /\ from[rt] = << >>
  /\ Copying(src, m, from, tasks, clones)

(* ... and, where objects are cloned, none of the state's is in the         *)
(* registry of the copy.                                                    *)
KeepsObjects(src, sl, a) ==
  \A x \in DOMAIN src : \A i \in DOMAIN src[x].words :
    src[x].words[i] \in Objects => OwnsIn(sl, a, src[x].words[i])

Source == SourceOf(mem, current, stateType, state)
Pairs == PairsOf(slots, allocated, origin, target, doClone)
NothingOwned(sl, r) == \A o \in Objects : ~OwnsIn(sl, r, o)

FaithInv ==
  status = "running" =>
    /\ GoodState(mem, current, allocated \ destroyed, stateType, state, phase)
    /\ used[target] = 0 => NothingOwned(slots, target)
    /\ phase \in {"walk", "done"} =>
         /\ \E from : CopiedTo(Source, mem, target, root, work, Pairs, from)
         /\ doClone => KeepsObjects(Source, slots, current)

IInv == TypeInv /\ SoundInv /\ FaithInv

(* A step that keeps or adds to the memory and the live objects.            *)
LEMMA GoodStateGrows ==
  ASSUME NEW m, NEW m2, NEW a, NEW L, NEW M, L \subseteq M, NEW t, NEW s, NEW ph, NEW ph2,
         \A x \in CellsOfArena(m, a) : x \in DOMAIN m2 /\ m2[x] = m[x],
         GoodState(m, a, L, t, s, ph), ph2 # "main" => ph # "main",
         \A x \in CellsOfArena(m2, a) : x \notin DOMAIN m => GoodCell(Heap(m2, a), M, m2[x])
  PROVE  GoodState(m2, a, M, t, s, ph2)
  <1>1. /\ DOMAIN Heap(m, a) = CellsOfArena(m, a) /\ DOMAIN Heap(m2, a) = CellsOfArena(m2, a)
        /\ \A x \in CellsOfArena(m, a) : Heap(m, a)[x] = m[x]
        /\ \A x \in CellsOfArena(m2, a) : Heap(m2, a)[x] = m2[x]
    BY DEF Heap, CellsOfArena
  <1>2. \A x \in CellsOfArena(m, a) : x \in CellsOfArena(m2, a)
    BY DEF CellsOfArena
  <1>3. Within(Heap(m, a), Heap(m2, a))
    BY <1>1, <1>2 DEF Within
  <1> DEFINE h == Heap(m, a)
             g == Heap(m2, a)
  <1>4. /\ \A w : Alive(h, L, w) => Alive(g, M, w)
        /\ \A w, u : GoodValue(h, L, w, u) => GoodValue(g, M, w, u)
        /\ \A c : GoodCell(h, L, c) => GoodCell(g, M, c)
    <2> HIDE DEF h, g
    <2>1. Within(h, g)
      BY <1>3 DEF h, g
    <2>2. QED
      BY <2>1, GoodInMore
  <1>5. ASSUME NEW x \in CellsOfArena(m2, a) PROVE GoodCell(g, M, m2[x])
    <2>1. CASE x \in DOMAIN m
      <3>1. x \in CellsOfArena(m, a) /\ m2[x] = m[x]
        BY <2>1 DEF CellsOfArena
      <3>2. GoodCell(h, L, m[x])
        BY <3>1 DEF GoodState
      <3>3. QED
        BY <1>4, <3>1, <3>2
    <2>2. CASE x \notin DOMAIN m
      BY <2>2
    <2>3. QED
      BY <2>1, <2>2
  <1> HIDE DEF h, g
  <1>6. QED
    BY <1>4, <1>5 DEF GoodState, h, g

-----------------------------------------------------------------------------
(* What the other invariants give.                                          *)
LEMMA TwoArenas ==
  ASSUME NEW a \in Arenas, NEW b \in Arenas
  PROVE  b = a \/ b = Other(a)
  <1>1. Other(a) \in Arenas /\ Other(a) # a
    BY OtherArena
  <1>2. IsFiniteSet(Arenas) /\ Cardinality(Arenas) = 2
    BY ArenasAssumption
  <1> DEFINE one == Arenas \ {a}
             none == one \ {Other(a)}
  <1>3. IsFiniteSet(one) /\ Cardinality(one) = 1
    BY <1>2, FS_RemoveElement
  <1>4. IsFiniteSet(none) /\ Cardinality(none) = 0
    <2>1. Other(a) \in one
      BY <1>1
    <2> HIDE DEF one
    <2>2. QED
      BY <1>3, <2>1, FS_RemoveElement
  <1>5. none = {}
    <2> HIDE DEF none
    <2>1. QED
      BY <1>4, FS_EmptySet
  <1>6. QED
    BY <1>5

LEMMA ArenaFacts ==
  ASSUME CopyInv
  PROVE  /\ current \in Arenas /\ target \in Arenas /\ target # current
         /\ \A a \in Arenas : a = current \/ a = target
         /\ stateType \in Types /\ Kind(stateType) \notin {"octets", "list"}
         /\ SizeOf(stateType) \in Nat
  <1>1. current \in Arenas /\ stateType \in StateTypes
    BY DEF CopyInv
  <1>2. stateType \in Types /\ Kind(stateType) \notin {"octets", "list"}
    BY <1>1, StateTypesAssumption DEF Kind
  <1>3. SizeOf(stateType) \in Nat
    BY <1>2, FieldsOfTypes
  <1>4. QED
    BY <1>1, <1>2, <1>3, OtherArena, TwoArenas DEF target

LEMMA CellFacts ==
  ASSUME CellsInv, NEW x \in DOMAIN mem
  PROVE  /\ IsCell(mem[x]) /\ mem[x].type \in Types /\ mem[x].count \in Nat
         /\ mem[x].itemSize \in Nat /\ mem[x].itemAlign \in Nat
  <1>1. PICK W : mem \in [DOMAIN mem -> [type : Types, words : W, count : Nat, itemSize : Nat, itemAlign : Nat]]
    BY DEF CellsInv
  <1>2. mem[x] \in [type : Types, words : W, count : Nat, itemSize : Nat, itemAlign : Nat]
    BY <1>1
  <1>3. mem[x] = CellOf(mem[x].type, mem[x].words, mem[x].count, mem[x].itemSize, mem[x].itemAlign)
    BY <1>2 DEF CellOf
  <1>4. QED
    BY <1>2, <1>3 DEF IsCell

(* The addresses in use are pointers, in one arena or in the other.         *)
LEMMA AddressFacts ==
  ASSUME DOMAIN mem = Address, used \in [Arenas -> 0 .. MaxCells]
  PROVE  /\ DOMAIN mem \subseteq Pointers /\ << >> \notin DOMAIN mem
         /\ \A x \in DOMAIN mem : x[1] \in Arenas
         /\ \A a \in Arenas : used[a] = 0 => CellsOfArena(mem, a) = {}
         /\ \A a \in Arenas : Fits(a) => NextAddress(a) \in Pointers /\ NextAddress(a) \notin DOMAIN mem
  <1>1. ASSUME NEW x \in DOMAIN mem
        PROVE  \E a \in Arenas : \E n \in 1 .. used[a] : x = <<a, n>> /\ x[1] = a /\ x \in Pointers /\ used[a] # 0
    <2>1. PICK a \in Arenas : \E n \in 1 .. used[a] : x = <<a, n>>
      BY AddressIsIn, AddressesBelow
    <2>2. PICK n \in 1 .. used[a] : x = <<a, n>>
      BY <2>1
    <2>3. n \in 1 .. MaxCells /\ used[a] # 0
      <3>1. used[a] \in 0 .. MaxCells /\ MaxCells \in Nat
        BY BoundsAssumption
      <3>2. QED
        BY <3>1
    <2>4. QED
      BY <2>2, <2>3 DEF Pointers
  <1>2. DOMAIN mem \subseteq Pointers /\ \A x \in DOMAIN mem : x[1] \in Arenas
    BY <1>1
  <1>3. << >> \notin DOMAIN mem
    <2>1. SUFFICES ASSUME << >> \in DOMAIN mem PROVE FALSE
      OBVIOUS
    <2>2. PICK a \in Arenas : \E n \in 1 .. used[a] : << >> = <<a, n>>
      BY <1>1, <2>1
    <2>0. PICK n \in 1 .. used[a] : << >> = <<a, n>>
      BY <2>2
    <2>3. Len(<< >>) = 0 /\ Len(<<a, n>>) = 2
      OBVIOUS
    <2>4. QED
      BY <2>0, <2>3
  <1>4. ASSUME NEW a \in Arenas, used[a] = 0 PROVE CellsOfArena(mem, a) = {}
    BY <1>1, <1>4 DEF CellsOfArena
  <1>5. ASSUME NEW a \in Arenas, Fits(a) PROVE NextAddress(a) \in Pointers /\ NextAddress(a) \notin DOMAIN mem
    <2>1. used[a] \in 0 .. MaxCells /\ used[a] < MaxCells /\ MaxCells \in Nat
      BY <1>5, BoundsAssumption DEF Fits
    <2>2. used[a] + 1 \in 1 .. MaxCells
      BY <2>1
    <2>3. NextAddress(a) \in Pointers
      BY <2>2 DEF NextAddress, Pointers
    <2>4. ASSUME NextAddress(a) \in DOMAIN mem PROVE FALSE
      <3>0. PICK b \in Arenas : \E n \in 1 .. used[b] : NextAddress(a) = <<b, n>>
        BY <1>1, <2>4
      <3>1. PICK n \in 1 .. used[b] : NextAddress(a) = <<b, n>>
        BY <3>0
      <3>2. b = a /\ n = used[a] + 1
        BY <3>1 DEF NextAddress
      <3>3. QED
        BY <2>1, <3>1, <3>2
    <2>5. QED
      BY <2>3, <2>4
  <1>6. QED
    BY <1>2, <1>3, <1>4, <1>5

LEMMA OwnsIsOwnsIn ==
  \A r, o : Registry!Owns(r, o) <=> OwnsIn(slots, r, o)
  BY DEF Registry!Owns, Registry!Holding, OwnsIn

(* Who owns what, in a build where CLOG_ERROR stops the process.            *)
OwnersOK(sl, al, de) ==
  /\ al \subseteq Objects /\ de \subseteq al
  /\ \A r \in Arenas : \A o \in Objects : OwnsIn(sl, r, o) => o \in al \ de
  /\ \A o \in al \ de : \E r \in Arenas : OwnsIn(sl, r, o)
  /\ \A r, s \in Arenas : \A o \in Objects : OwnsIn(sl, r, o) /\ OwnsIn(sl, s, o) => r = s

LEMMA OwnerFacts ==
  ASSUME SoundInv, status = "running"
  PROVE  OwnersOK(slots, allocated, destroyed)
  <1>1. /\ Registry!TypeOK /\ Shared!HeldAreAllocated /\ Shared!InOneSlot /\ Shared!HeldAreLive /\ Shared!LiveAreHeld
    BY SameTypes DEF SoundInv, Shared!OwnInv, Shared!CountInv
  <1>2. allocated \subseteq Objects /\ destroyed \subseteq allocated
    BY <1>1 DEF Registry!TypeOK
  <1>3. ASSUME NEW r \in Arenas, NEW o \in Objects, OwnsIn(slots, r, o) PROVE o \in allocated \ destroyed
    <2>1. PICK i \in Shared!Slots : slots[r][i] = o
      BY <1>3, SameSlots DEF OwnsIn
    <2>2. o # NoObject
      BY RegistryAssumption
    <2>3. QED
      BY <1>1, <2>1, <2>2 DEF Shared!HeldAreAllocated, Shared!HeldAreLive
  <1>4. ASSUME NEW o \in allocated \ destroyed PROVE \E r \in Arenas : OwnsIn(slots, r, o)
    <2>1. o \in Shared!Live
      BY DEF Shared!Live
    <2>2. PICK r \in Arenas : Shared!Owns(r, o)
      BY <1>1, <2>1 DEF Shared!LiveAreHeld
    <2>3. OwnsIn(slots, r, o)
      BY <2>2, SameSlots, OwnsIsOwnsIn
    <2>4. QED
      BY <2>3
  <1>5. ASSUME NEW r \in Arenas, NEW s \in Arenas, NEW o \in Objects, OwnsIn(slots, r, o), OwnsIn(slots, s, o)
        PROVE  r = s
    <2>1. PICK i \in Shared!Slots : slots[r][i] = o
      BY <1>5, SameSlots DEF OwnsIn
    <2>2. PICK j \in Shared!Slots : slots[s][j] = o
      BY <1>5, SameSlots DEF OwnsIn
    <2>3. o # NoObject
      BY RegistryAssumption
    <2>4. QED
      BY <1>1, <2>1, <2>2, <2>3 DEF Shared!InOneSlot
  <1>6. QED
    BY <1>2, <1>3, <1>4, <1>5 DEF OwnersOK
-----------------------------------------------------------------------------
(* What the registries' steps do to who owns what.                          *)
LEMMA AllocateOwns ==
  ASSUME SoundInv, NEW r \in Arenas, NEW o \in Objects, Registry!Allocate(r, o)
  PROVE  /\ o \notin allocated /\ allocated' = allocated \cup {o} /\ destroyed' = destroyed
         /\ status = "running" /\ status' = status
         /\ OwnsIn(slots', r, o)
         /\ \A s \in Arenas : \A x \in Objects :
              /\ OwnsIn(slots, s, x) => OwnsIn(slots', s, x)
              /\ s # r /\ OwnsIn(slots', s, x) => OwnsIn(slots, s, x)
  <1>1. Shared!CountInv /\ Shared!Allocate(r, o)
    BY SameAllocations DEF SoundInv, Shared!OwnInv
  <1>2. /\ status = "running" /\ count[r] # Capacity /\ slots' = [slots EXCEPT ![r] = Shared!RowWith(slots[r], o)]
        /\ o \notin allocated /\ allocated' = allocated \cup {o} /\ destroyed' = destroyed /\ status' = status
    BY <1>1 DEF Shared!Allocate
  <1>3. PICK k \in Shared!Slots : /\ slots[r][k] = NoObject
                                  /\ Shared!RowWith(slots[r], o) = [slots[r] EXCEPT ![k] = o]
    BY <1>1, <1>2, RegistryAssumption, Shared!FilledRow
  <1>4. slots \in [Arenas -> [Shared!Slots -> Objects \cup {NoObject}]]
    BY <1>1 DEF Shared!CountInv, Shared!TypeOK
  <1>5. \A s \in Arenas : \A i \in Shared!Slots : slots'[s][i] = IF s = r /\ i = k THEN o ELSE slots[s][i]
    BY <1>2, <1>3, <1>4
  <1>6. ASSUME NEW s \in Arenas, NEW x \in Objects, OwnsIn(slots, s, x) PROVE OwnsIn(slots', s, x)
    <2>1. PICK i \in Shared!Slots : slots[s][i] = x
      BY <1>6, SameSlots DEF OwnsIn
    <2>2. ~(s = r /\ i = k)
      BY <1>3, <2>1, RegistryAssumption
    <2>3. slots'[s][i] = x
      BY <1>5, <2>1, <2>2
    <2>4. QED
      BY <2>3, SameSlots DEF OwnsIn
  <1>7. ASSUME NEW s \in Arenas, NEW x \in Objects, s # r, OwnsIn(slots', s, x) PROVE OwnsIn(slots, s, x)
    BY <1>5, <1>7, SameSlots DEF OwnsIn
  <1>8. OwnsIn(slots', r, o)
    BY <1>3, <1>5, SameSlots DEF OwnsIn
  <1>9. QED
    BY <1>2, <1>6, <1>7, <1>8

(* The move of an object, where an error stops the process.                 *)
LEMMA MoveOwns ==
  ASSUME SoundInv, ErrorTraps, NEW r \in Arenas, NEW s \in Arenas, NEW o, Registry!Move(r, s, o), status' = "running"
  PROVE  /\ o \in Objects /\ o \in allocated /\ UNCHANGED <<allocated, destroyed>> /\ status' = status
         /\ OwnsIn(slots', r, o)
         /\ \A x \in Objects : OwnsIn(slots, r, x) => OwnsIn(slots', r, x)
  <1>1. Shared!CountInv /\ Shared!Move(r, s, o) /\ Shared!InOneSlot
    BY SameMoves DEF SoundInv, Shared!OwnInv
  <1>2. r # s /\ o \in allocated /\ UNCHANGED <<allocated, destroyed>> /\ status = "running"
    BY <1>1 DEF Shared!Move
  <1>3. Shared!MoveOwned(r, s, o)
    BY <1>1, RegistryAssumption DEF Shared!Move, Shared!MoveToFull, Shared!MoveNotOwned, Shared!Trap
  <1>4. slots \in [Arenas -> [Shared!Slots -> Objects \cup {NoObject}]] /\ o \in Objects
    BY <1>1, <1>2 DEF Shared!CountInv, Shared!TypeOK
  <1>5. /\ Shared!Owns(s, o) /\ count[r] # Capacity
        /\ slots' = [slots EXCEPT ![s] = Shared!RowWithout(slots[s], o), ![r] = Shared!RowWith(slots[r], o)]
    BY <1>2, <1>3 DEF Shared!MoveOwned
  <1>6. PICK k \in Shared!Slots : /\ slots[r][k] = NoObject
                                  /\ Shared!RowWith(slots[r], o) = [slots[r] EXCEPT ![k] = o]
    BY <1>1, <1>2, <1>4, <1>5, RegistryAssumption, Shared!FilledRow
  <1>7. slots'[r] = [slots[r] EXCEPT ![k] = o]
    BY <1>2, <1>4, <1>5, <1>6
  <1>8. \A i \in Shared!Slots : slots'[r][i] = IF i = k THEN o ELSE slots[r][i]
    BY <1>4, <1>7
  <1>9. ASSUME NEW x \in Objects, OwnsIn(slots, r, x) PROVE OwnsIn(slots', r, x)
    <2>1. PICK i \in Shared!Slots : slots[r][i] = x
      BY <1>9, SameSlots DEF OwnsIn
    <2>2. i # k
      BY <1>6, <2>1, RegistryAssumption
    <2>3. slots'[r][i] = x
      BY <1>8, <2>1, <2>2
    <2>4. QED
      BY <2>3, SameSlots DEF OwnsIn
  <1>10. OwnsIn(slots', r, o)
    BY <1>6, <1>8, SameSlots DEF OwnsIn
  <1>11. QED
    BY <1>2, <1>4, <1>9, <1>10

(* The reset of a registry.                                                 *)
LEMMA ResetOwns ==
  ASSUME SoundInv, NEW r \in Arenas, Registry!Reset(r)
  PROVE  /\ allocated' = allocated /\ destroyed \subseteq destroyed' /\ status' = status
         /\ \A o \in Objects : ~OwnsIn(slots', r, o)
         /\ \A o \in Objects : o \in destroyed' /\ o \notin destroyed => OwnsIn(slots, r, o)
  <1>1. Shared!CountInv /\ Shared!Reset(r)
    BY SameResets DEF SoundInv, Shared!OwnInv
  <1>2. status' = status /\ allocated' = allocated /\ Shared!DestroySlots(r, Shared!Slots, Shared!Slots)
    BY <1>1 DEF Shared!Reset
  <1>3. /\ \A s \in Arenas : \A i \in Shared!Slots :
             slots'[s][i] = IF s = r /\ i \in Shared!Slots THEN NoObject ELSE slots[s][i]
        /\ destroyed' = destroyed \cup ({slots[r][i] : i \in Shared!Slots} \ {NoObject})
    BY <1>1, <1>2, RegistryAssumption, Shared!DestroySlotsRows
  <1>4. \A o \in Objects : ~OwnsIn(slots', r, o)
    BY <1>3, RegistryAssumption, SameSlots DEF OwnsIn
  <1>5. \A o \in Objects : o \in destroyed' /\ o \notin destroyed => OwnsIn(slots, r, o)
    BY <1>3, SameSlots DEF OwnsIn
  <1>6. QED
    BY <1>2, <1>3, <1>4, <1>5

-----------------------------------------------------------------------------
(* A step of a process that goes on, where an error would stop it.          *)
GoesOn ==
  /\ ErrorTraps /\ IInv /\ status = "running" /\ status' = "running"
  /\ TypeInv' /\ SoundInv'

live == allocated \ destroyed

LEMMA InvariantFacts ==
  ASSUME ErrorTraps, IInv, status = "running"
  PROVE  /\ CopyInv /\ CellsInv /\ TypeOK
         /\ DOMAIN mem = Address /\ used \in [Arenas -> 0 .. MaxCells]
         /\ Sound /\ live = Registry!Live
         /\ GoodState(mem, current, live, stateType, state, phase)
         /\ used[target] = 0 => NothingOwned(slots, target)
         /\ OwnersOK(slots, allocated, destroyed)
  <1>1. CopyInv /\ CellsInv /\ TypeOK
    BY DEF IInv, TypeInv, CopyInv
  <1>2. DOMAIN mem = Address /\ used \in [Arenas -> 0 .. MaxCells]
    BY <1>1 DEF TypeOK
  <1>3. /\ GoodState(mem, current, live, stateType, state, phase)
        /\ used[target] = 0 => NothingOwned(slots, target)
    BY DEF IInv, FaithInv, live
  <1>4. OwnersOK(slots, allocated, destroyed)
    BY OwnerFacts DEF IInv
  <1>5. live = Registry!Live
    BY DEF live, Registry!Live
  <1>6. Sound
    <2>1. DOMAIN mem \subseteq Pointers
      BY <1>2, AddressFacts
    <2>2. live \subseteq Objects
      BY <1>4 DEF OwnersOK, live
    <2>3. Objects \cap StateWords \subseteq live
      BY <1>3 DEF GoodState, Alive, StateWords
    <2>4. QED
      BY <1>5, <2>1, <2>2, <2>3 DEF Sound
  <1>7. QED
    BY <1>1, <1>2, <1>3, <1>4, <1>5, <1>6

LEMMA SameTarget == current' = current => target' = target
  BY DEF target, Other

(* Steps that keep the state and are not part of a copy.                    *)
LEMMA GrowingStep ==
  ASSUME GoesOn, UNCHANGED <<current, stateType, state>>,
         phase' \in {"main", "returned", "failed"}, phase' # "main" => phase # "main",
         live \subseteq live',
         \A x \in CellsOfArena(mem, current) : x \in DOMAIN mem' /\ mem'[x] = mem[x],
         \A x \in CellsOfArena(mem', current) : x \notin DOMAIN mem => GoodCell(Heap(mem', current), live', mem'[x]),
         used'[target] = 0 => NothingOwned(slots', target)
  PROVE  FaithInv'
  <1>1. GoodState(mem, current, live, stateType, state, phase)
    BY InvariantFacts DEF GoesOn
  <1>2. GoodState(mem', current, live', stateType, state, phase')
    BY <1>1, GoodStateGrows
  <1>3. GoodState(mem', current', live', stateType', state', phase')
    BY <1>2
  <1>4. target' = target
    BY SameTarget
  <1>5. phase' \notin {"walk", "done"}
    OBVIOUS
  <1>6. QED
    BY <1>3, <1>4, <1>5 DEF FaithInv, live

(* A step that leaves memory and registries, too.                           *)
LEMMA IdleStep ==
  ASSUME GoesOn, UNCHANGED <<heapVars, current, stateType, state, registryVars>>,
         phase' \in {"main", "returned", "failed"}, phase' # "main" => phase # "main"
  PROVE  FaithInv'
  <1>1. mem' = mem /\ used' = used /\ slots' = slots /\ live' = live
    BY DEF heapVars, registryVars, live
  <1>2. used[target] = 0 => NothingOwned(slots, target)
    BY InvariantFacts DEF GoesOn
  <1>3. \A x \in CellsOfArena(mem, current) : x \in DOMAIN mem' /\ mem'[x] = mem[x]
    BY <1>1 DEF CellsOfArena
  <1>4. \A x \in CellsOfArena(mem', current) : x \in DOMAIN mem
    BY <1>1 DEF CellsOfArena
  <1>5. QED
    BY <1>1, <1>2, <1>3, <1>4, GrowingStep

(* What `main' allocates is good.                                           *)
LEMMA AllocateStep ==
  ASSUME GoesOn, NEW cell, Allocate(cell), phase = "main", GoodCell(H, live, cell)
  PROVE  FaithInv'
  <1>1. /\ DOMAIN mem = Address /\ used \in [Arenas -> 0 .. MaxCells]
        /\ used[target] = 0 => NothingOwned(slots, target)
        /\ current \in Arenas /\ target \in Arenas /\ target # current
    BY InvariantFacts, ArenaFacts DEF GoesOn
  <1>2. /\ Fits(current) /\ mem' = WithCell(current, cell) /\ OneMoreIn(current)
        /\ UNCHANGED <<current, stateType, state, phase, registryVars>>
    BY DEF Allocate, Overrun, GoesOn
  <1>3. NextAddress(current) \notin DOMAIN mem
    BY <1>1, <1>2, AddressFacts
  <1>4. /\ DOMAIN mem' = DOMAIN mem \cup {NextAddress(current)}
        /\ \A x \in DOMAIN mem : mem'[x] = mem[x]
        /\ mem'[NextAddress(current)] = cell
    BY <1>2, <1>3 DEF WithCell
  <1>5. Within(H, Heap(mem', current))
    BY <1>4 DEF Within, H, Heap
  <1>6. GoodCell(Heap(mem', current), live, cell)
    BY <1>5, GoodInMore
  <1>7. live' = live /\ slots' = slots
    BY <1>2 DEF live, registryVars
  <1>8. used'[target] = used[target]
    BY <1>1, <1>2 DEF OneMoreIn
  <1>9. \A x \in CellsOfArena(mem, current) : x \in DOMAIN mem' /\ mem'[x] = mem[x]
    BY <1>4 DEF CellsOfArena
  <1>10. \A x \in CellsOfArena(mem', current) : x \notin DOMAIN mem => GoodCell(Heap(mem', current), live', mem'[x])
    BY <1>4, <1>6, <1>7 DEF CellsOfArena
  <1>11. UNCHANGED <<current, stateType, state, phase>>
    BY <1>2
  <1>12. QED
    BY <1>1, <1>7, <1>8, <1>9, <1>10, <1>11, GrowingStep

LEMMA NewOctetsStep ==
  ASSUME GoesOn, NEW t \in Types, NEW c \in Characters, NewOctets(t, c)
  PROVE  FaithInv'
  <1> DEFINE cell == CellOf(t, <<c>>, 1, 1, 1)
  <1>1. Allocate(cell) /\ phase = "main" /\ Kind(t) = "octets"
    BY DEF NewOctets, InMain
  <1>2. cell.type = t /\ cell.words = <<c>>
    BY DEF CellOf
  <1> HIDE DEF cell
  <1>3. DOMAIN cell.words = {1} /\ cell.words[1] = c
    BY <1>2
  <1>4. c \notin Pointers /\ c \notin Objects
    BY SortsOfWords
  <1>5. GoodCell(H, live, cell)
    BY <1>1, <1>2, <1>3, <1>4 DEF GoodCell, Alive
  <1>6. QED
    BY <1>1, <1>5, AllocateStep

LEMMA NewListStep ==
  ASSUME GoesOn, NEW t \in Types, NewList(t)
  PROVE  FaithInv'
  <1> DEFINE item == TypeInfo[t].item
             V == ValuesOf[item]
             G == ItemsOfList(V)
  <1>1. phase = "main" /\ Kind(t) = "list" /\ item \in Types
    BY TypeInfoAssumption DEF NewList, InMain, Kind
  <1>2. PICK n \in 0 .. MaxItems : \E words \in G[n] : Allocate(CellOf(t, words, n, SizeOf(item), 1))
    BY DEF NewList, ItemsOfList, GatherItems
  <1>3. PICK words \in G[n] : Allocate(CellOf(t, words, n, SizeOf(item), 1))
    BY <1>2
  <1> DEFINE cell == CellOf(t, words, n, SizeOf(item), 1)
  <1>4. \A w \in V : GoodValue(H, live, w, item)
    BY <1>1, InvariantFacts, ValuesGood DEF GoesOn
  <1> HIDE DEF V
  <1>5. words \in Seq(Word) /\ Alive(H, live, words) /\ ListOf(H, cell, item)
    BY <1>1, <1>4, ItemsGood
  <1>6. cell.type = t /\ cell.words = words
    BY DEF CellOf
  <1>7. Allocate(cell)
    BY <1>3
  <1> HIDE DEF cell
  <1>8. \A i \in DOMAIN cell.words : i \in Nat
    BY <1>5, <1>6
  <1>9. GoodCell(H, live, cell)
    BY <1>1, <1>5, <1>6, <1>8 DEF GoodCell
  <1>10. QED
    BY <1>1, <1>7, <1>9, AllocateStep

LEMMA NewEmptyListStep ==
  ASSUME GoesOn, NEW t \in Types, NewEmptyList(t)
  PROVE  FaithInv'
  <1> DEFINE cell == CellOf(t, << >>, 0, 0, 0)
             item == TypeInfo[t].item
  <1>1. phase = "main" /\ Kind(t) = "list" /\ item \in Types /\ Allocate(cell)
    BY TypeInfoAssumption DEF NewEmptyList, InMain, Kind
  <1>2. cell.type = t /\ cell.words = << >> /\ cell.count = 0
    BY DEF CellOf
  <1>3. SizeOf(item) \in Nat
    BY <1>1, FieldsOfTypes
  <1> HIDE DEF cell
  <1>4. DOMAIN cell.words = {} /\ 0 * SizeOf(item) = 0 /\ 1 .. 0 = {}
    BY <1>2, <1>3
  <1>5. ListOf(H, cell, item)
    BY <1>2, <1>4 DEF ListOf
  <1>6. GoodCell(H, live, cell)
    BY <1>1, <1>2, <1>4, <1>5 DEF GoodCell, Alive
  <1>7. QED
    BY <1>1, <1>6, AllocateStep

LEMMA NewObjectStep ==
  ASSUME GoesOn, NEW o \in Objects, NewObject(o)
  PROVE  FaithInv'
  <1>1. /\ used[target] = 0 => NothingOwned(slots, target)
        /\ current \in Arenas /\ target \in Arenas /\ target # current
    BY InvariantFacts, ArenaFacts DEF GoesOn
  <1>2. /\ Registry!Allocate(current, o) /\ mem' = mem /\ used' = used /\ phase = "main"
        /\ UNCHANGED <<current, stateType, state, phase>>
    BY DEF NewObject, InMain, heapVars
  <1>3. SoundInv
    BY DEF GoesOn, IInv
  <1>4. /\ o \notin allocated /\ allocated' = allocated \cup {o} /\ destroyed' = destroyed
        /\ \A x \in Objects : OwnsIn(slots', target, x) => OwnsIn(slots, target, x)
    BY <1>1, <1>2, <1>3, AllocateOwns
  <1>5. live \subseteq live'
    BY <1>4 DEF live
  <1>6. used'[target] = 0 => NothingOwned(slots', target)
    BY <1>1, <1>2, <1>4 DEF NothingOwned
  <1>7. \A x \in CellsOfArena(mem, current) : x \in DOMAIN mem' /\ mem'[x] = mem[x]
    BY <1>2 DEF CellsOfArena
  <1>8. \A x \in CellsOfArena(mem', current) : x \in DOMAIN mem
    BY <1>2 DEF CellsOfArena
  <1>9. QED
    BY <1>2, <1>5, <1>6, <1>7, <1>8, GrowingStep

LEMMA ReturnStep ==
  ASSUME GoesOn, Return
  PROVE  FaithInv'
  <1>1. /\ Sound /\ live = Registry!Live /\ stateType \in Types
        /\ GoodState(mem, current, live, stateType, state, phase)
        /\ used[target] = 0 => NothingOwned(slots, target)
    BY InvariantFacts, ArenaFacts DEF GoesOn
  <1>2. /\ state' \in ValuesOf[stateType] /\ phase' = "returned"
        /\ mem' = mem /\ used' = used /\ UNCHANGED <<current, stateType>> /\ slots' = slots /\ live' = live
    BY DEF Return, heapVars, registryVars, live
  <1>3. GoodValue(H, live, state', stateType)
    BY <1>1, <1>2, ValuesGood
  <1>4. Alive(H, live, state') /\ \A i \in DOMAIN state' : i \in Nat
    <2>1. Alive(H, live, state') /\ state' \in Seq(Word)
      BY <1>3 DEF GoodValue
    <2>2. QED
      BY <2>1
  <1>5. GoodState(mem, current, live, stateType, state', "returned")
    BY <1>1, <1>3, <1>4 DEF GoodState, H
  <1>6. GoodState(mem', current', live', stateType', state', phase')
    BY <1>2, <1>5
  <1>7. target' = target
    BY <1>2, SameTarget
  <1>8. QED
    BY <1>1, <1>2, <1>6, <1>7 DEF FaithInv, live

-----------------------------------------------------------------------------
(* The state a copy is made of does not change while the copy goes on.      *)
LEMMA SourceCells ==
  /\ DOMAIN Source = CellsOfArena(mem, current) \cup {<< >>}
  /\ Source[<< >>] = CellOf(stateType, state, 1, SizeOf(stateType), 1)
  /\ \A x \in CellsOfArena(mem, current) : x # << >> => Source[x] = mem[x]
  BY DEF Source, SourceOf

LEMMA SameSource ==
  ASSUME UNCHANGED <<current, stateType, state>>,
         \A x \in CellsOfArena(mem, current) : x \in DOMAIN mem' /\ mem'[x] = mem[x],
         \A x \in CellsOfArena(mem', current) : x \in DOMAIN mem
  PROVE  Source' = Source
  <1>1. CellsOfArena(mem', current) = CellsOfArena(mem, current)
    BY DEF CellsOfArena
  <1>2. \A x \in CellsOfArena(mem, current) : mem'[x] = mem[x]
    OBVIOUS
  <1>3. SourceOf(mem', current, stateType, state) = SourceOf(mem, current, stateType, state)
    BY <1>1, <1>2 DEF SourceOf
  <1>4. QED
    BY <1>3 DEF Source

(* The first task of a copy: the state itself, word for word.               *)
LEMMA CopyBegins ==
  ASSUME NEW src, NEW m, NEW y, NEW t \in Types, NEW v, v \in DOMAIN src, y \in DOMAIN m, m[y] = src[v],
         DOMAIN src[v].words = 1 .. SizeOf(t), Holds(src, src[v].words, 1, t), NEW clones,
         NEW from, DOMAIN from = {y}, from = [x \in {y} |-> v], NEW tasks, tasks = <<Visit(y, 1, t)>>
  PROVE  Copying(src, m, from, tasks, clones)
  <1> DEFINE c == Visit(y, 1, t)
  <1>1. c.op = "visit" /\ c.addr = y /\ c.index = 1 /\ c.type = t
    BY DEF Visit
  <1>2. DOMAIN tasks = {1} /\ tasks[1] = c
    OBVIOUS
  <1>3. DOMAIN from = {y} /\ from[y] = v
    OBVIOUS
  <1> HIDE DEF c
  <1>4. from \in [DOMAIN from -> DOMAIN src] /\ DOMAIN from \subseteq DOMAIN m
    <2>1. from \in [{y} -> DOMAIN src]
      OBVIOUS
    <2>2. QED
      BY <1>3, <2>1
  <1>5. Apart(tasks) /\ Spans(tasks) = Span(c)
    BY <1>2 DEF Apart, Spans
  <1>6. SizeOf(t) \in Nat
    BY FieldsOfTypes
  <1>7. \A i \in 1 .. SizeOf(t) : <<y, i>> \in Span(c)
    BY <1>1, <1>6 DEF Span, Between
  <1>8. CellOK(from, clones, Spans(tasks), y, m[y], src[from[y]])
    BY <1>3, <1>5, <1>7 DEF CellOK, SameShape, WordOK
  <1>9. TaskOK(src, from, c)
    BY <1>1, <1>3 DEF TaskOK
  <1>10. Copying(src, m, from, tasks, clones)
    BY <1>2, <1>3, <1>4, <1>5, <1>8, <1>9 DEF Copying
  <1>11. QED
    BY <1>10

LEMMA BeginStep ==
  ASSUME GoesOn, NEW clone \in BOOLEAN, Begin(clone)
  PROVE  FaithInv'
  <1> DEFINE y == NextAddress(target)
             cell == CellOf(stateType, state, 1, SizeOf(stateType), 1)
             from == [x \in {y} |-> << >>]
  <1>0. ErrorTraps /\ status = "running" /\ status' = "running"
    BY DEF GoesOn
  <1>1. /\ CopyInv /\ DOMAIN mem = Address /\ used \in [Arenas -> 0 .. MaxCells]
        /\ GoodState(mem, current, live, stateType, state, phase)
        /\ used[target] = 0 => NothingOwned(slots, target)
        /\ OwnersOK(slots, allocated, destroyed)
    BY InvariantFacts DEF GoesOn
  <1>2. /\ current \in Arenas /\ target \in Arenas /\ target # current
        /\ \A a \in Arenas : a = current \/ a = target
        /\ stateType \in Types
    BY <1>1, ArenaFacts
  <1>3. ~BeginRefused(clone)
    BY <1>0 DEF BeginRefused, Trap
  <1>4. /\ used[target] = 0 /\ Fits(target)
        /\ mem' = WithCell(target, cell) /\ OneMoreIn(target) /\ root' = y
        /\ work' = <<Visit(y, 1, stateType)>> /\ phase' = "walk" /\ phase = "returned"
    BY <1>0, <1>3 DEF Begin, BeginCopy, StateAccepted, Overrun
  <1>5. UNCHANGED <<current, stateType, state>> /\ slots' = slots /\ live' = live /\ allocated' = allocated
    BY DEF Begin, registryVars, live
  <1> HIDE DEF cell
  <1>6. y \notin DOMAIN mem /\ y[1] = target /\ CellsOfArena(mem, target) = {}
    BY <1>1, <1>2, <1>4, AddressFacts DEF NextAddress
  <1>7. /\ DOMAIN mem' = DOMAIN mem \cup {y} /\ mem'[y] = cell
        /\ \A x \in DOMAIN mem : mem'[x] = mem[x]
    BY <1>4, <1>6 DEF WithCell
  <1> HIDE DEF y
  <1>8. CellsOfArena(mem', target) = {y}
    BY <1>6, <1>7 DEF CellsOfArena
  <1>9. /\ \A x \in CellsOfArena(mem, current) : x \in DOMAIN mem' /\ mem'[x] = mem[x]
        /\ \A x \in CellsOfArena(mem', current) : x \in DOMAIN mem
    BY <1>2, <1>6, <1>7 DEF CellsOfArena
  <1>10. Source' = Source
    BY <1>5, <1>9, SameSource
  <1>11. GoodState(mem', current, live, stateType, state, "walk")
    BY <1>1, <1>4, <1>9, GoodStateGrows
  <1>12. << >> \notin DOMAIN mem
    BY <1>1, AddressFacts
  <1>13. << >> \in DOMAIN Source /\ Source[<< >>] = cell /\ cell.words = state
    BY SourceCells DEF cell, CellOf
  <1>14. DOMAIN state = 1 .. SizeOf(stateType) /\ Holds(Source, state, 1, stateType)
    <2>1. GoodValue(Heap(mem, current), live, state, stateType)
      BY <1>1, <1>4 DEF GoodState
    <2>2. state \in Seq(Word) /\ Len(state) = SizeOf(stateType) /\ Holds(Heap(mem, current), state, 1, stateType)
      BY <2>1 DEF GoodValue
    <2>3. DOMAIN state = 1 .. SizeOf(stateType) /\ \A i \in DOMAIN state : i \in Nat
      BY <2>2
    <2>4. \A x \in DOMAIN Heap(mem, current) : x \in DOMAIN Source /\ Source[x].type = Heap(mem, current)[x].type
      BY <1>12, SourceCells DEF Heap, CellsOfArena
    <2>5. QED
      BY <2>2, <2>3, <2>4, HoldsInMore
  <1>15. Copying(Source, mem', from, work', Pairs')
    <2>1. y \in DOMAIN mem' /\ mem'[y] = Source[<< >>] /\ DOMAIN Source[<< >>].words = 1 .. SizeOf(stateType)
          /\ Holds(Source, Source[<< >>].words, 1, stateType)
      BY <1>7, <1>13, <1>14
    <2> DEFINE clones == Pairs'
               m2 == mem'
               tasks == work'
    <2>2. tasks = <<Visit(y, 1, stateType)>>
      BY <1>4
    <2>3. DOMAIN from = {y}
      OBVIOUS
    <2>4. from = [x \in {y} |-> << >>]
      OBVIOUS
    <2> HIDE DEF clones, tasks, from
    <2>5. y \in DOMAIN m2 /\ m2[y] = Source[<< >>]
      BY <2>1
    <2>6. Holds(Source, Source[<< >>].words, 1, stateType) /\ DOMAIN Source[<< >>].words = 1 .. SizeOf(stateType)
      BY <2>1
    <2> HIDE DEF m2
    <2>7. Copying(Source, m2, from, tasks, clones)
      BY <1>2, <1>13, <2>2, <2>3, <2>4, <2>5, <2>6, CopyBegins
    <2>8. QED
      BY <2>7 DEF clones, m2, tasks
  <1>16. CopiedTo(Source, mem', target, root', work', Pairs', from)
    <2>1. DOMAIN from = {y} /\ from[y] = << >>
      OBVIOUS
    <2> HIDE DEF from
    <2>2. QED
      BY <1>4, <1>8, <1>15, <2>1 DEF CopiedTo
  <1>17. KeepsObjects(Source, slots, current)
    <2>1. ASSUME NEW x \in DOMAIN Source, NEW i \in DOMAIN Source[x].words, Source[x].words[i] \in Objects
          PROVE  Source[x].words[i] \in live
      <3>1. CASE x = << >>
        BY <1>1, <1>13, <2>1, <3>1 DEF GoodState, Alive
      <3>2. CASE x # << >>
        <4>1. x \in CellsOfArena(mem, current) /\ Source[x] = mem[x]
          BY <3>2, SourceCells
        <4>2. GoodCell(Heap(mem, current), live, mem[x])
          BY <1>1, <4>1 DEF GoodState
        <4>3. QED
          BY <2>1, <4>1, <4>2 DEF GoodCell, Alive
      <3>3. QED
        BY <3>1, <3>2
    <2>2. ASSUME NEW o \in live, o \in Objects PROVE OwnsIn(slots, current, o)
      <3>1. PICK r \in Arenas : OwnsIn(slots, r, o)
        BY <1>1 DEF OwnersOK, live
      <3>2. ~OwnsIn(slots, target, o)
        BY <1>1, <1>4, <2>2 DEF NothingOwned
      <3>3. QED
        BY <1>2, <3>1, <3>2
    <2>3. QED
      BY <2>1, <2>2 DEF KeepsObjects
  <1>18. target' = target
    BY <1>5, SameTarget
  <1>19. used'[target] # 0
    BY <1>1, <1>2, <1>4 DEF OneMoreIn
  <1>20. GoodState(mem', current', live', stateType', state', phase')
    BY <1>4, <1>5, <1>11
  <1>21. CopiedTo(Source', mem', target', root', work', Pairs', from)
    BY <1>10, <1>16, <1>18
  <1>22. KeepsObjects(Source', slots', current')
    BY <1>5, <1>10, <1>17
  <1> HIDE DEF from
  <1>23. used'[target'] # 0
    BY <1>18, <1>19
  <1>24. QED
    BY <1>20, <1>21, <1>22, <1>23 DEF FaithInv, live

-----------------------------------------------------------------------------
(* A copy that goes on.                                                     *)
LEMMA CopyFacts ==
  ASSUME ErrorTraps, IInv, status = "running", phase \in {"walk", "done"}
  PROVE  /\ \E from : CopiedTo(Source, mem, target, root, work, Pairs, from)
         /\ doClone => KeepsObjects(Source, slots, current)
         /\ used[target] # 0
         /\ << >> \notin DOMAIN mem /\ << >> \notin CellsOfArena(mem, current)
         /\ CopyInv /\ DOMAIN mem = Address /\ used \in [Arenas -> 0 .. MaxCells]
         /\ current \in Arenas /\ target \in Arenas /\ target # current
         /\ GoodState(mem, current, live, stateType, state, phase)
         /\ OwnersOK(slots, allocated, destroyed)
         /\ origin \in [Objects -> Objects]
  <1>1. /\ \E from : CopiedTo(Source, mem, target, root, work, Pairs, from)
        /\ doClone => KeepsObjects(Source, slots, current)
    BY DEF IInv, FaithInv
  <1>2. /\ CopyInv /\ DOMAIN mem = Address /\ used \in [Arenas -> 0 .. MaxCells] /\ TypeOK
        /\ GoodState(mem, current, live, stateType, state, phase) /\ OwnersOK(slots, allocated, destroyed)
    BY InvariantFacts
  <1>3. current \in Arenas /\ target \in Arenas /\ target # current
    BY <1>2, ArenaFacts
  <1>4. root \in CellsOfArena(mem, target)
    BY <1>1 DEF CopiedTo
  <1>5. used[target] # 0
    BY <1>2, <1>3, <1>4, AddressFacts
  <1>6. << >> \notin DOMAIN mem
    BY <1>2, AddressFacts
  <1>7. << >> \notin CellsOfArena(mem, current)
    BY <1>6 DEF CellsOfArena
  <1>8. QED
    BY <1>1, <1>2, <1>3, <1>5, <1>6, <1>7 DEF TypeOK

(* A step of a copy, once what it does to the copy is known.                *)
LEMMA CopyingStep ==
  ASSUME GoesOn, phase = "walk", phase' \in {"walk", "done"},
         UNCHANGED <<current, stateType, state, doClone, root>>,
         \A x \in CellsOfArena(mem, current) : x \in DOMAIN mem' /\ mem'[x] = mem[x],
         \A x \in DOMAIN mem' : x \in DOMAIN mem \/ x[1] = target,
         live \subseteq live',
         used'[target] # 0,
         NEW from, CopiedTo(Source, mem', target, root, work', Pairs', from),
         doClone => \A o \in Objects : OwnsIn(slots, current, o) => OwnsIn(slots', current, o)
  PROVE  FaithInv'
  <1>1. /\ doClone => KeepsObjects(Source, slots, current)
        /\ GoodState(mem, current, live, stateType, state, phase)
        /\ target # current
    BY CopyFacts DEF GoesOn
  <1>2. \A x \in CellsOfArena(mem', current) : x \in DOMAIN mem
    BY <1>1 DEF CellsOfArena
  <1>3. Source' = Source
    BY <1>2, SameSource
  <1>4. target' = target
    BY SameTarget
  <1>5. GoodState(mem', current, live', stateType, state, phase')
    BY <1>1, <1>2, GoodStateGrows
  <1>6. doClone => KeepsObjects(Source, slots', current)
    BY <1>1 DEF KeepsObjects
  <1>7. GoodState(mem', current', live', stateType', state', phase')
    BY <1>5
  <1>8. CopiedTo(Source', mem', target', root', work', Pairs', from)
    BY <1>3, <1>4
  <1>9. doClone' => KeepsObjects(Source', slots', current')
    BY <1>3, <1>6
  <1>10. used'[target'] # 0
    BY <1>4
  <1>11. QED
    BY <1>7, <1>8, <1>9, <1>10 DEF FaithInv, live

(* Steps that change neither the cells nor the registries: only the tasks.  *)
LEMMA TasksStep ==
  ASSUME GoesOn, Walking, UNCHANGED <<heapVars, current, stateType, state, doClone, root, phase, origin, registryVars>>,
         \A from : CopiedTo(Source, mem, target, root, work, Pairs, from) =>
                     Copying(Source, mem, from, work', Pairs)
  PROVE  FaithInv'
  <1>1. phase = "walk" /\ mem' = mem /\ used' = used /\ slots' = slots /\ live' = live
        /\ allocated' = allocated /\ origin' = origin
    BY DEF Walking, heapVars, registryVars, live
  <1>2. target' = target
    BY SameTarget
  <1>3. Pairs' = Pairs
    BY <1>1, <1>2 DEF Pairs
  <1>4. used[target] # 0 /\ \E from : CopiedTo(Source, mem, target, root, work, Pairs, from)
    BY <1>1, CopyFacts DEF GoesOn
  <1>5. PICK from : CopiedTo(Source, mem, target, root, work, Pairs, from)
    BY <1>4
  <1>6. CopiedTo(Source, mem, target, root, work', Pairs, from)
    BY <1>5 DEF CopiedTo
  <1>7. CopiedTo(Source, mem', target, root, work', Pairs', from)
    BY <1>1, <1>3, <1>6
  <1>8. \A x \in CellsOfArena(mem, current) : x \in DOMAIN mem' /\ mem'[x] = mem[x]
    BY <1>1 DEF CellsOfArena
  <1>9. QED
    BY <1>1, <1>4, <1>7, <1>8, CopyingStep

(* The next call of a walk.                                                 *)
LEMMA NextOfWork ==
  ASSUME CopyInv, Walking
  PROVE  /\ NextIs(call, work) /\ rest = Tail(work)
         /\ \E S : work \in Seq(S) /\ call \in S
         /\ << >> \o Tail(work) = rest
  <1>1. PICK S : work \in Seq(S)
    BY DEF CopyInv, WorkInv
  <1>2. work # << >> /\ call = Head(work) /\ rest = Tail(work)
    BY DEF Walking, call, rest
  <1>3. call \in S /\ rest \in Seq(S)
    BY <1>1, <1>2
  <1>4. << >> \o rest = rest
    BY <1>3
  <1>5. QED
    BY <1>1, <1>2, <1>3, <1>4 DEF NextIs

(* The calls that are replaced by others.                                   *)
LEMMA NothingToDoStep ==
  ASSUME GoesOn, Walking, call.op = "visit", Continue(<< >>), Kind(call.type) = "scalar",
         UNCHANGED <<current, stateType, state, doClone, root, origin, registryVars>>
  PROVE  FaithInv'
  <1>1. CopyInv
    BY InvariantFacts DEF GoesOn
  <1>2. /\ NextIs(call, work) /\ rest = Tail(work) /\ << >> \o Tail(work) = rest
    BY <1>1, NextOfWork
  <1>3. PICK S : work \in Seq(S)
    BY <1>1, NextOfWork
  <1>4. work' = << >> \o Tail(work) /\ UNCHANGED <<heapVars, phase>>
    BY <1>2 DEF Continue
  <1>5. ASSUME NEW from, CopiedTo(Source, mem, target, root, work, Pairs, from)
        PROVE  Copying(Source, mem, from, work', Pairs)
    <2>1. Copying(Source, mem, from, work, Pairs)
      BY <1>5 DEF CopiedTo
    <2>2. Copying(Source, mem, from, << >> \o Tail(work), Pairs)
      BY <1>2, <1>3, <2>1, CopyScalar
    <2>3. QED
      BY <1>4, <2>2
  <1>6. QED
    BY <1>4, <1>5, TasksStep

LEMMA VisitsOfFields ==
  ASSUME NEW fields \in FieldList
  PROVE  /\ FieldTasks(FieldVisits(fields), call, fields)
         /\ FieldVisits(fields) \in Seq({FieldVisits(fields)[i] : i \in DOMAIN fields})
  <1> DEFINE calls == FieldVisits(fields)
             R == {calls[i] : i \in DOMAIN fields}
  <1>1. DOMAIN calls = DOMAIN fields /\ DOMAIN fields = 1 .. Len(fields) /\ Len(fields) \in Nat
    BY DEF FieldVisits, FieldList
  <1>2. FieldTasks(calls, call, fields)
    BY DEF FieldVisits, FieldTasks
  <1>3. calls = [i \in DOMAIN fields |-> calls[i]]
    BY DEF FieldVisits
  <1> HIDE DEF calls
  <1>4. calls \in [1 .. Len(fields) -> R]
    BY <1>1, <1>3
  <1>5. calls \in Seq(R)
    BY <1>1, <1>4
  <1>6. QED
    BY <1>2, <1>5 DEF calls

LEMMA FieldsStep ==
  ASSUME GoesOn, Walking, call.op = "visit", NEW fields \in FieldList, Continue(FieldVisits(fields)),
         UNCHANGED <<current, stateType, state, doClone, root, origin, registryVars>>,
         \/ Kind(call.type) = "record" /\ fields = TypeInfo[call.type].fields
         \/ /\ Kind(call.type) = "custom" /\ variant \in DOMAIN TypeInfo[call.type].variants
            /\ fields = TypeInfo[call.type].variants[variant]
  PROVE  FaithInv'
  <1> DEFINE calls == FieldVisits(fields)
             R == {calls[i] : i \in DOMAIN fields}
  <1>1. CopyInv
    BY InvariantFacts DEF GoesOn
  <1>2. NextIs(call, work) /\ rest = Tail(work)
    BY <1>1, NextOfWork
  <1>3. PICK S : work \in Seq(S)
    BY <1>1, NextOfWork
  <1>4. work' = calls \o Tail(work) /\ UNCHANGED <<heapVars, phase>>
    BY <1>2 DEF Continue
  <1>5. FieldTasks(calls, call, fields) /\ calls \in Seq(R)
    BY VisitsOfFields
  <1> HIDE DEF calls, R
  <1>6. calls \in Seq(S \cup R) /\ work \in Seq(S \cup R)
    BY <1>3, <1>5
  <1>7. ASSUME NEW from, CopiedTo(Source, mem, target, root, work, Pairs, from)
        PROVE  Copying(Source, mem, from, work', Pairs)
    <2>1. Copying(Source, mem, from, work, Pairs)
      BY <1>7 DEF CopiedTo
    <2>2. CASE Kind(call.type) = "record"
      <3>1. fields = TypeInfo[call.type].fields
        BY <2>2
      <3>2. FieldTasks(calls, call, TypeInfo[call.type].fields)
        BY <1>5, <3>1
      <3>3. Copying(Source, mem, from, calls \o Tail(work), Pairs)
        BY <1>2, <1>6, <2>1, <2>2, <3>2, CopyRecord
      <3>4. QED
        BY <1>4, <3>3
    <2>3. CASE Kind(call.type) = "custom"
      <3>1. variant \in DOMAIN TypeInfo[call.type].variants /\ fields = TypeInfo[call.type].variants[variant]
        BY <2>3
      <3>2. FieldTasks(calls, call, TypeInfo[call.type].variants[variant])
        BY <1>5, <3>1
      <3>3. HasItsWord(Source, mem, from, call)
        BY <1>2, <1>3, <2>1, NextWord
      <3>4. value \in Numbers
        BY <2>3, <3>3 DEF HasItsWord, value
      <3>5. PICK n \in Nat : value = Number(n)
        BY <3>4 DEF Numbers
      <3>6. variant - 1 = n
        BY <3>5 DEF variant, Number
      <3>7. mem[call.addr].words[call.index] = Number(variant - 1)
        BY <3>5, <3>6 DEF value
      <3>8. Copying(Source, mem, from, calls \o Tail(work), Pairs)
        BY <1>2, <1>6, <2>1, <2>3, <3>1, <3>2, <3>7, CopyCustom
      <3>9. QED
        BY <1>4, <3>8
    <2>4. QED
      BY <2>2, <2>3
  <1>8. QED
    BY <1>4, <1>7, TasksStep

LEMMA VisitAliasStep ==
  ASSUME GoesOn, Walking, call.op = "visit", VisitAlias,
         UNCHANGED <<current, stateType, state, doClone, root, origin, registryVars>>
  PROVE  FaithInv'
  <1> DEFINE next == Visit(call.addr, call.index, TypeInfo[call.type].item)
  <1>1. CopyInv
    BY InvariantFacts DEF GoesOn
  <1>2. NextIs(call, work) /\ rest = Tail(work)
    BY <1>1, NextOfWork
  <1>3. PICK S : work \in Seq(S)
    BY <1>1, NextOfWork
  <1>4. work' = <<next>> \o Tail(work) /\ UNCHANGED <<heapVars, phase>> /\ Kind(call.type) = "alias"
    BY <1>2 DEF VisitAlias, Continue
  <1>5. work \in Seq(S \cup {next}) /\ next \in S \cup {next}
    BY <1>3
  <1>6. next = Visit(call.addr, call.index, TypeInfo[call.type].item)
    OBVIOUS
  <1> HIDE DEF next
  <1>7. ASSUME NEW from, CopiedTo(Source, mem, target, root, work, Pairs, from)
        PROVE  Copying(Source, mem, from, work', Pairs)
    <2>1. Copying(Source, mem, from, work, Pairs)
      BY <1>7 DEF CopiedTo
    <2>2. Copying(Source, mem, from, <<next>> \o Tail(work), Pairs)
      BY <1>2, <1>4, <1>5, <1>6, <2>1, CopyAlias
    <2>3. QED
      BY <1>4, <2>2
  <1>8. QED
    BY <1>4, <1>7, TasksStep

(* The cell a pointer leads to, and its copy.                               *)
CopiedCell(from, m) ==
  /\ value \in Pointers /\ value = OldWords(Source, from, call)[call.index]
  /\ value \in CellsOfArena(mem, current) /\ Source[value] = mem[value] /\ mem[value].type = call.type
  /\ GoodCell(Heap(mem, current), live, mem[value])
  /\ AddsCell(Source, mem, m, copy, value)
  /\ copy[1] = target
  /\ call.addr \in DOMAIN mem /\ IsCell(m[call.addr])
  /\ used'[target] # 0

LEMMA CopyCellFacts ==
  ASSUME GoesOn, Walking, call.op = "visit", Kind(call.type) \in {"octets", "list"}, CopyCell,
         NEW from, CopiedTo(Source, mem, target, root, work, Pairs, from)
  PROVE  CopiedCell(from, WithCell(target, mem[value]))
  <1> DEFINE m == WithCell(target, mem[value])
  <1>1. /\ CopyInv /\ CellsInv /\ DOMAIN mem = Address /\ used \in [Arenas -> 0 .. MaxCells]
        /\ GoodState(mem, current, live, stateType, state, phase)
    BY InvariantFacts DEF GoesOn
  <1>2. current \in Arenas /\ target \in Arenas /\ target # current
    BY <1>1, ArenaFacts
  <1>3. NextIs(call, work) /\ \E S : work \in Seq(S)
    BY <1>1, NextOfWork
  <1>4. PICK S : work \in Seq(S)
    BY <1>3
  <1>5. Copying(Source, mem, from, work, Pairs) /\ DOMAIN from \subseteq DOMAIN mem
    BY DEF CopiedTo, Copying
  <1>6. HasItsWord(Source, mem, from, call)
    BY <1>3, <1>4, <1>5, NextWord
  <1>7. /\ call.addr \in DOMAIN mem
        /\ value = OldWords(Source, from, call)[call.index]
        /\ value \in Pointers /\ value \in DOMAIN Source /\ Source[value].type = call.type
    <2>1. Kind(call.type) \in OneWord \cup {"custom"}
      BY DEF OneWord
    <2>2. value = OldWords(Source, from, call)[call.index]
      BY <1>6, <2>1 DEF HasItsWord, value
    <2>3. /\ OldWords(Source, from, call)[call.index] \in Pointers
          /\ OldWords(Source, from, call)[call.index] \in DOMAIN Source
          /\ Source[OldWords(Source, from, call)[call.index]].type = call.type
      BY <1>6 DEF HasItsWord
    <2>4. call.addr \in DOMAIN mem
      BY <1>5, <1>6 DEF HasItsWord
    <2>5. QED
      BY <2>2, <2>3, <2>4
  <1>8. value \in DOMAIN mem /\ Fits(target) /\ OneMoreIn(target)
    BY DEF CopyCell
  <1>9. << >> \notin DOMAIN mem /\ copy \notin DOMAIN mem
    BY <1>1, <1>2, <1>8, AddressFacts DEF copy
  <1>10. value \in CellsOfArena(mem, current) /\ Source[value] = mem[value]
    BY <1>7, <1>8, <1>9, SourceCells
  <1>11. GoodCell(Heap(mem, current), live, mem[value])
    BY <1>1, <1>10 DEF GoodState
  <1>12. /\ DOMAIN m = DOMAIN mem \cup {copy} /\ m[copy] = mem[value]
         /\ \A x \in DOMAIN mem : m[x] = mem[x]
    BY <1>9 DEF WithCell, copy
  <1>13. copy[1] = target
    BY DEF copy, NextAddress
  <1> HIDE DEF m
  <1>14. AddsCell(Source, mem, m, copy, value)
    BY <1>7, <1>9, <1>10, <1>12 DEF AddsCell
  <1>15. IsCell(m[call.addr])
    BY <1>1, <1>7, <1>12, CellFacts
  <1>16. used'[target] # 0
    BY <1>1, <1>2, <1>8 DEF OneMoreIn
  <1>17. QED
    BY <1>7, <1>10, <1>11, <1>13, <1>14, <1>15, <1>16 DEF CopiedCell, m

(* One cell more in the copy, and nothing else than words of the copy       *)
(* written.                                                                 *)
LEMMA CopyOfACell ==
  ASSUME GoesOn, Walking, UNCHANGED <<current, stateType, state, doClone, root, origin, registryVars, phase>>,
         NEW from, CopiedTo(Source, mem, target, root, work, Pairs, from),
         NEW m, CopiedCell(from, m),
         DOMAIN mem' = DOMAIN m, \A x \in DOMAIN m : x # call.addr => mem'[x] = m[x],
         Copying(Source, mem', WithOrigin(from, copy, value), work', Pairs)
  PROVE  FaithInv'
  <1> DEFINE from2 == WithOrigin(from, copy, value)
  <1>1. /\ CopyInv /\ target # current
    BY CopyFacts DEF GoesOn, Walking
  <1>2. call.addr[1] = target
    BY <1>1, NextCall DEF TargetCall, Walking
  <1>3. /\ DOMAIN m = DOMAIN mem \cup {copy} /\ copy \notin DOMAIN mem
        /\ \A x \in DOMAIN mem : m[x] = mem[x]
        /\ copy[1] = target /\ used'[target] # 0
    BY DEF CopiedCell, AddsCell
  <1>4. /\ \A x \in CellsOfArena(mem, current) : x \in DOMAIN mem' /\ mem'[x] = mem[x]
        /\ \A x \in DOMAIN mem' : x \in DOMAIN mem \/ x[1] = target
        /\ CellsOfArena(mem', target) = CellsOfArena(mem, target) \cup {copy}
    BY <1>1, <1>2, <1>3 DEF CellsOfArena
  <1>5. slots' = slots /\ live' = live /\ allocated' = allocated /\ origin' = origin
    BY DEF registryVars, live
  <1>6. Pairs' = Pairs
    BY <1>5, SameTarget DEF Pairs
  <1>7. DOMAIN from2 = DOMAIN from \cup {copy} /\ \A x \in DOMAIN from : x # copy => from2[x] = from[x]
    BY DEF WithOrigin
  <1> HIDE DEF from2
  <1>8. DOMAIN from = CellsOfArena(mem, target) /\ root \in DOMAIN from /\ from[root] = << >>
    BY DEF CopiedTo
  <1>9. root # copy
    BY <1>3, <1>8 DEF CellsOfArena
  <1>10. DOMAIN from2 = CellsOfArena(mem', target) /\ root \in DOMAIN from2 /\ from2[root] = << >>
    BY <1>4, <1>7, <1>8, <1>9
  <1>11. Copying(Source, mem', from2, work', Pairs)
    BY DEF from2
  <1>12. CopiedTo(Source, mem', target, root, work', Pairs', from2)
    BY <1>6, <1>10, <1>11 DEF CopiedTo
  <1>13. phase = "walk" /\ phase' = "walk"
    BY DEF Walking
  <1>14. QED
    BY <1>3, <1>4, <1>5, <1>12, <1>13, CopyingStep

LEMMA VisitOctetsStep ==
  ASSUME GoesOn, Walking, call.op = "visit", VisitOctets,
         UNCHANGED <<current, stateType, state, doClone, root, origin, registryVars>>
  PROVE  FaithInv'
  <1> DEFINE m == WithCell(target, mem[value])
  <1>1. CopyInv /\ phase \in {"walk", "done"}
    BY InvariantFacts DEF GoesOn, Walking
  <1>2. NextIs(call, work) /\ << >> \o Tail(work) = rest
    BY <1>1, NextOfWork
  <1>3. PICK S : work \in Seq(S) /\ call \in S
    BY <1>1, NextOfWork
  <1>4. PICK from : CopiedTo(Source, mem, target, root, work, Pairs, from)
    BY <1>1, CopyFacts DEF GoesOn
  <1>5. /\ Kind(call.type) = "octets" /\ CopyCell /\ mem' = Written(m, call.addr, call.index, copy)
        /\ work' = << >> \o Tail(work) /\ UNCHANGED phase
    BY <1>2 DEF VisitOctets, CopyCell
  <1>6. CopiedCell(from, m)
    BY <1>4, <1>5, CopyCellFacts
  <1> HIDE DEF m
  <1>7. DOMAIN mem' = DOMAIN m /\ \A x \in DOMAIN m : x # call.addr => mem'[x] = m[x]
    BY <1>5 DEF Written
  <1>8. Copying(Source, mem, from, work, Pairs)
    BY <1>4 DEF CopiedTo
  <1>9. \A i \in DOMAIN Source[value].words : Source[value].words[i] \notin Pointers \cup Objects
    <2>1. \A i \in DOMAIN Source[value].words : Source[value].words[i] \in Characters
      BY <1>5, <1>6 DEF CopiedCell, GoodCell
    <2>2. QED
      BY <2>1, SortsOfWords
  <1>10. /\ value \in Pointers /\ value = OldWords(Source, from, call)[call.index]
         /\ AddsCell(Source, mem, m, copy, value) /\ IsCell(m[call.addr])
    BY <1>6 DEF CopiedCell
  <1>11. Copying(Source, Written(m, call.addr, call.index, copy), WithOrigin(from, copy, value),
                 << >> \o Tail(work), Pairs)
    BY <1>2, <1>3, <1>5, <1>8, <1>9, <1>10, CopyOctets
  <1>12. Copying(Source, mem', WithOrigin(from, copy, value), work', Pairs)
    BY <1>5, <1>11
  <1>13. QED
    BY <1>4, <1>5, <1>6, <1>7, <1>12, CopyOfACell

LEMMA ListInSource ==
  ASSUME GoesOn, phase = "walk", NEW c, Kind(c.type) = "list", GoodCell(Heap(mem, current), live, c)
  PROVE  ListOf(Source, c, TypeInfo[c.type].item)
  <1>1. << >> \notin CellsOfArena(mem, current)
    BY CopyFacts DEF GoesOn
  <1>2. \A x \in DOMAIN Heap(mem, current) : x \in DOMAIN Source /\ Source[x].type = Heap(mem, current)[x].type
    BY <1>1, SourceCells DEF Heap, CellsOfArena
  <1>3. ListOf(Heap(mem, current), c, TypeInfo[c.type].item) /\ \A i \in DOMAIN c.words : i \in Nat
    BY DEF GoodCell
  <1>4. \A n, u : Holds(Heap(mem, current), c.words, n, u) => Holds(Source, c.words, n, u)
    BY <1>2, <1>3, HoldsInMore
  <1>5. QED
    BY <1>3, <1>4 DEF ListOf

LEMMA VisitListStep ==
  ASSUME GoesOn, Walking, call.op = "visit", VisitList,
         UNCHANGED <<current, stateType, state, doClone, root, origin, registryVars>>
  PROVE  FaithInv'
  <1> DEFINE m == WithCell(target, mem[value])
             item == TypeInfo[call.type].item
             cell == mem[value]
             items == [i \in 1 .. cell.count |-> Visit(copy, (i - 1) * cell.itemSize + 1, item)]
             store == Store(call.addr, call.index, call.type, copy)
             R == {items[i] : i \in 1 .. cell.count}
  <1>1. CopyInv /\ phase \in {"walk", "done"} /\ phase = "walk"
    BY InvariantFacts DEF GoesOn, Walking
  <1>2. NextIs(call, work) /\ rest = Tail(work)
    BY <1>1, NextOfWork
  <1>3. PICK S : work \in Seq(S) /\ call \in S
    BY <1>1, NextOfWork
  <1>4. PICK from : CopiedTo(Source, mem, target, root, work, Pairs, from)
    BY <1>1, CopyFacts DEF GoesOn
  <1>5. /\ Kind(call.type) = "list" /\ CopyCell /\ mem' = m
        /\ work' = (items \o <<store>>) \o Tail(work) /\ UNCHANGED phase
    BY <1>2 DEF VisitList, CopyCell
  <1>6. CopiedCell(from, m)
    BY <1>4, <1>5, CopyCellFacts
  <1> HIDE DEF m
  <1>7. DOMAIN mem' = DOMAIN m /\ \A x \in DOMAIN m : x # call.addr => mem'[x] = m[x]
    BY <1>5
  <1>8. Copying(Source, mem, from, work, Pairs)
    BY <1>4 DEF CopiedTo
  <1>9. ListOf(Source, Source[value], item)
    <2>1. GoodCell(Heap(mem, current), live, mem[value]) /\ mem[value].type = call.type /\ Source[value] = mem[value]
      BY <1>6 DEF CopiedCell
    <2>2. Kind(mem[value].type) = "list"
      BY <1>5, <2>1
    <2>3. ListOf(Source, mem[value], TypeInfo[mem[value].type].item)
      BY <1>1, <2>1, <2>2, ListInSource
    <2>4. QED
      BY <2>1, <2>3
  <1>10. /\ value \in Pointers /\ value = OldWords(Source, from, call)[call.index]
         /\ AddsCell(Source, mem, m, copy, value) /\ Source[value] = cell
    BY <1>6 DEF CopiedCell
  <1>11. cell.count \in Nat
    BY <1>9, <1>10 DEF ListOf
  <1>12. ListCalls(items, copy, Source[value], item)
    BY <1>10 DEF ListCalls
  <1>13. items \in Seq(R)
    <2>1. items = [i \in 1 .. cell.count |-> items[i]] /\ \A i \in 1 .. cell.count : items[i] \in R
      OBVIOUS
    <2> HIDE DEF items, R
    <2>2. items \in [1 .. cell.count -> R]
      BY <2>1
    <2>3. QED
      BY <1>11, <2>2
  <1>14. store = Store(call.addr, call.index, call.type, copy)
    OBVIOUS
  <1> HIDE DEF items, store, R, cell
  <1> DEFINE T == S \cup R \cup {store}
  <1>15. work \in Seq(T) /\ items \in Seq(T) /\ store \in T
    BY <1>3, <1>13
  <1> HIDE DEF T
  <1>16. /\ ListOf(Source, Source[value], TypeInfo[call.type].item)
         /\ ListCalls(items, copy, Source[value], TypeInfo[call.type].item)
    BY <1>9, <1>12
  <1>17. Copying(Source, m, WithOrigin(from, copy, value), (items \o <<store>>) \o Tail(work), Pairs)
    BY <1>2, <1>5, <1>8, <1>10, <1>14, <1>15, <1>16, CopyList
  <1>18. Copying(Source, mem', WithOrigin(from, copy, value), work', Pairs)
    BY <1>5, <1>17
  <1>19. QED
    BY <1>4, <1>5, <1>6, <1>7, <1>18, CopyOfACell

(* A word of the copy is written, and no cell added.                        *)
LEMMA WritingStep ==
  ASSUME GoesOn, Walking, UNCHANGED <<used, current, stateType, state, doClone, root, phase>>,
         live \subseteq live',
         NEW from, CopiedTo(Source, mem, target, root, work, Pairs, from),
         DOMAIN mem' = DOMAIN mem, \A x \in DOMAIN mem : x # call.addr => mem'[x] = mem[x],
         Copying(Source, mem', from, work', Pairs'),
         doClone => \A o \in Objects : OwnsIn(slots, current, o) => OwnsIn(slots', current, o)
  PROVE  FaithInv'
  <1>1. CopyInv /\ target # current /\ used[target] # 0
    BY CopyFacts DEF GoesOn, Walking
  <1>2. call.addr[1] = target
    BY <1>1, NextCall DEF TargetCall, Walking
  <1>3. /\ \A x \in CellsOfArena(mem, current) : x \in DOMAIN mem' /\ mem'[x] = mem[x]
        /\ CellsOfArena(mem', target) = CellsOfArena(mem, target)
    BY <1>1, <1>2 DEF CellsOfArena
  <1>4. CopiedTo(Source, mem', target, root, work', Pairs', from)
    BY <1>3 DEF CopiedTo
  <1>5. phase = "walk" /\ phase' = "walk" /\ used'[target] # 0
    BY <1>1 DEF Walking
  <1>6. QED
    BY <1>3, <1>4, <1>5, CopyingStep

LEMMA StoreStep ==
  ASSUME GoesOn, Walking, call.op = "store", StorePointer,
         UNCHANGED <<current, stateType, state, doClone, root, origin, registryVars>>
  PROVE  FaithInv'
  <1>1. CopyInv /\ CellsInv /\ phase \in {"walk", "done"}
    BY InvariantFacts DEF GoesOn, Walking
  <1>2. NextIs(call, work) /\ << >> \o Tail(work) = rest
    BY <1>1, NextOfWork
  <1>3. PICK S : work \in Seq(S)
    BY <1>1, NextOfWork
  <1>4. PICK from : CopiedTo(Source, mem, target, root, work, Pairs, from)
    BY <1>1, CopyFacts DEF GoesOn
  <1>5. /\ mem' = Written(mem, call.addr, call.index, call.cell)
        /\ work' = << >> \o Tail(work) /\ UNCHANGED <<used, phase>>
    BY <1>2 DEF StorePointer
  <1>6. Copying(Source, mem, from, work, Pairs) /\ DOMAIN from \subseteq DOMAIN mem
    BY <1>4 DEF CopiedTo, Copying
  <1>7. IsCell(mem[call.addr])
    <2>1. TaskOK(Source, from, call)
      BY <1>2, <1>3, <1>6, NextTask DEF NextIs
    <2>2. call.addr \in DOMAIN mem
      BY <1>6, <2>1 DEF TaskOK
    <2>3. QED
      BY <1>1, <2>2, CellFacts
  <1>8. Copying(Source, Written(mem, call.addr, call.index, call.cell), from, << >> \o Tail(work), Pairs)
    BY <1>2, <1>3, <1>6, <1>7, CopyStores
  <1>9. slots' = slots /\ live' = live /\ allocated' = allocated
    BY DEF registryVars, live
  <1>10. Pairs' = Pairs
    BY <1>9, SameTarget DEF Pairs
  <1>11. Copying(Source, mem', from, work', Pairs')
    BY <1>5, <1>8, <1>10
  <1>12. DOMAIN mem' = DOMAIN mem /\ \A x \in DOMAIN mem : x # call.addr => mem'[x] = mem[x]
    BY <1>5 DEF Written
  <1>13. QED
    BY <1>4, <1>5, <1>9, <1>11, <1>12, WritingStep

(* An object that is moved, and one that is cloned.                         *)
LEMMA MoveStep ==
  ASSUME GoesOn, Walking, call.op = "visit", MoveUnmanaged,
         UNCHANGED <<current, stateType, state, doClone, root>>
  PROVE  FaithInv'
  <1>1. /\ CopyInv /\ phase \in {"walk", "done"} /\ current \in Arenas /\ target \in Arenas
    BY InvariantFacts, ArenaFacts DEF GoesOn, Walking
  <1>2. NextIs(call, work) /\ << >> \o Tail(work) = rest
    BY <1>1, NextOfWork
  <1>3. PICK S : work \in Seq(S)
    BY <1>1, NextOfWork
  <1>4. PICK from : CopiedTo(Source, mem, target, root, work, Pairs, from)
    BY <1>1, CopyFacts DEF GoesOn
  <1>5. /\ Kind(call.type) = "unmanaged" /\ ~doClone /\ Registry!Move(target, current, value)
        /\ origin' = origin /\ mem' = mem /\ used' = used /\ phase' = phase /\ work' = << >> \o Tail(work)
    BY <1>2 DEF MoveUnmanaged, Continue, heapVars
  <1>6. /\ value \in Objects /\ value \in allocated /\ UNCHANGED <<allocated, destroyed>>
        /\ OwnsIn(slots', target, value)
        /\ \A x \in Objects : OwnsIn(slots, target, x) => OwnsIn(slots', target, x)
    BY <1>1, <1>5, MoveOwns DEF GoesOn, IInv
  <1>7. Pairs' = PairsOf(slots', allocated, origin, target, doClone)
    BY <1>5, <1>6, SameTarget DEF Pairs
  <1>8. Pairs \subseteq Pairs' /\ <<value, value>> \in Pairs'
    BY <1>6, <1>7 DEF Pairs, PairsOf
  <1>9. Copying(Source, mem, from, work, Pairs)
    BY <1>4 DEF CopiedTo
  <1> DEFINE clones2 == Pairs'
  <1>10. Pairs \subseteq clones2 /\ <<mem[call.addr].words[call.index], mem[call.addr].words[call.index]>> \in clones2
    BY <1>8 DEF value
  <1> HIDE DEF clones2
  <1>11. Copying(Source, mem, from, << >> \o Tail(work), clones2)
    BY <1>2, <1>3, <1>5, <1>9, <1>10, CopyMoves
  <1>12. Copying(Source, mem', from, work', Pairs')
    BY <1>5, <1>11 DEF clones2
  <1>13. live' = live
    BY <1>6 DEF live
  <1>14. QED
    BY <1>4, <1>5, <1>12, <1>13, WritingStep

LEMMA CloneStep ==
  ASSUME GoesOn, Walking, call.op = "visit", NEW o \in Objects, CloneUnmanaged(o),
         UNCHANGED <<current, stateType, state, doClone, root>>
  PROVE  FaithInv'
  <1>1. /\ CopyInv /\ CellsInv /\ phase \in {"walk", "done"} /\ current \in Arenas /\ target \in Arenas
        /\ target # current /\ live = Registry!Live /\ OwnersOK(slots, allocated, destroyed)
    BY InvariantFacts, ArenaFacts DEF GoesOn, Walking
  <1>2. NextIs(call, work) /\ << >> \o Tail(work) = rest
    BY <1>1, NextOfWork
  <1>3. PICK S : work \in Seq(S)
    BY <1>1, NextOfWork
  <1>4. PICK from : CopiedTo(Source, mem, target, root, work, Pairs, from)
    BY <1>1, CopyFacts DEF GoesOn
  <1>5. /\ Kind(call.type) = "unmanaged" /\ doClone /\ value \in live /\ Registry!Allocate(target, o)
        /\ origin' = [origin EXCEPT ![o] = origin[value]]
        /\ mem' = Written(mem, call.addr, call.index, o)
        /\ work' = << >> \o Tail(work) /\ used' = used /\ phase' = phase
    BY <1>1, <1>2 DEF CloneUnmanaged
  <1>6. /\ o \notin allocated /\ allocated' = allocated \cup {o} /\ destroyed' = destroyed
        /\ OwnsIn(slots', target, o)
        /\ \A s \in Arenas : \A x \in Objects : OwnsIn(slots, s, x) => OwnsIn(slots', s, x)
    BY <1>1, <1>5, AllocateOwns DEF GoesOn, IInv
  <1>7. /\ Pairs' = PairsOf(slots', allocated', origin', target, TRUE)
        /\ Pairs = PairsOf(slots, allocated, origin, target, TRUE)
    BY <1>5, SameTarget DEF Pairs
  <1>8. origin \in [Objects -> Objects] /\ value \in allocated /\ value \in Objects
    BY <1>1, <1>5, CopyFacts DEF GoesOn, live, OwnersOK
  <1>9. origin'[o] = origin[value] /\ \A x \in allocated : x \in Objects => origin'[x] = origin[x]
    BY <1>5, <1>6, <1>8
  <1>10. Pairs \subseteq Pairs'
    <2>1. ASSUME NEW p \in Pairs PROVE p \in Pairs'
      <3>1. /\ p \in Objects \X Objects /\ OwnsIn(slots, target, p[1]) /\ origin[p[1]] = origin[p[2]]
            /\ p[2] \in allocated
        BY <1>7 DEF PairsOf
      <3>2. p[1] \in Objects /\ p[2] \in Objects /\ p[1] \in allocated
        BY <1>1, <3>1 DEF OwnersOK
      <3>3. origin'[p[1]] = origin'[p[2]] /\ OwnsIn(slots', target, p[1]) /\ p[2] \in allocated'
        BY <1>1, <1>6, <1>9, <3>1, <3>2
      <3>4. QED
        BY <1>7, <3>1, <3>3 DEF PairsOf
    <2>2. QED
      BY <2>1
  <1>11. <<o, value>> \in Pairs'
    <2>1. origin'[o] = origin'[value] /\ value \in allocated'
      BY <1>6, <1>8, <1>9
    <2>2. QED
      BY <1>6, <1>7, <1>8, <2>1 DEF PairsOf
  <1>12. Copying(Source, mem, from, work, Pairs) /\ DOMAIN from \subseteq DOMAIN mem
    BY <1>4 DEF CopiedTo, Copying
  <1>13. IsCell(mem[call.addr])
    <2>1. TaskOK(Source, from, call)
      BY <1>2, <1>3, <1>12, NextTask DEF NextIs
    <2>2. call.addr \in DOMAIN mem
      BY <1>12, <2>1 DEF TaskOK
    <2>3. QED
      BY <1>1, <2>2, CellFacts
  <1> DEFINE clones2 == Pairs'
  <1>14. Pairs \subseteq clones2 /\ <<o, mem[call.addr].words[call.index]>> \in clones2 /\ call.op = "visit"
    BY <1>10, <1>11 DEF value
  <1> HIDE DEF clones2
  <1>15. Copying(Source, Written(mem, call.addr, call.index, o), from, << >> \o Tail(work), clones2)
    BY <1>2, <1>3, <1>5, <1>12, <1>13, <1>14, CopyClones
  <1>16. Copying(Source, mem', from, work', Pairs')
    BY <1>5, <1>15 DEF clones2
  <1>17. live \subseteq live'
    BY <1>6 DEF live
  <1>18. DOMAIN mem' = DOMAIN mem /\ \A x \in DOMAIN mem : x # call.addr => mem'[x] = mem[x]
    BY <1>5 DEF Written
  <1>19. \A x \in Objects : OwnsIn(slots, current, x) => OwnsIn(slots', current, x)
    BY <1>1, <1>6
  <1>20. QED
    BY <1>4, <1>5, <1>16, <1>17, <1>18, <1>19, WritingStep

(* Every step of compactOrClone.                                            *)
LEMMA WalkStep ==
  ASSUME GoesOn, Walk
  PROVE  FaithInv'
  <1>0. /\ ErrorTraps /\ status = "running" /\ status' = "running" /\ CopyInv
    BY InvariantFacts DEF GoesOn
  <1>1. /\ Walking /\ UNCHANGED <<current, stateType, state, doClone, root>>
    BY DEF Walk
  <1>2. CASE call.op = "store" /\ StorePointer /\ UNCHANGED <<registryVars, origin>>
    BY <1>1, <1>2, StoreStep
  <1>3. CASE call.op = "visit" /\ UNCHANGED <<registryVars, origin>>
             /\ (VisitNoVariant \/ VisitUnsupported \/ CopyStops \/ VisitFreed)
    BY <1>0, <1>3 DEF VisitNoVariant, VisitUnsupported, CopyStops, VisitFreed, Trap, Overrun
  <1>4. CASE call.op = "visit" /\ UNCHANGED <<registryVars, origin>> /\ VisitScalar
    BY <1>1, <1>4, NothingToDoStep DEF VisitScalar
  <1>5. CASE call.op = "visit" /\ UNCHANGED <<registryVars, origin>> /\ VisitRecord
    <2>1. TypeInfo[call.type].fields \in FieldList
      BY <1>0, <1>1, <1>5, NextCall, TypeInfoAssumption DEF VisitRecord, Kind, TargetCall, Walking
    <2>2. QED
      BY <1>1, <1>5, <2>1, FieldsStep DEF VisitRecord
  <1>6. CASE call.op = "visit" /\ UNCHANGED <<registryVars, origin>> /\ VisitCustom
    <2>1. TypeInfo[call.type].variants \in Seq(FieldList)
      BY <1>0, <1>1, <1>6, NextCall, TypeInfoAssumption DEF VisitCustom, Kind, TargetCall, Walking
    <2>2. TypeInfo[call.type].variants[variant] \in FieldList
      BY <1>6, <2>1, ElementOfASequence DEF VisitCustom
    <2>3. QED
      BY <1>1, <1>6, <2>2, FieldsStep DEF VisitCustom
  <1>7. CASE call.op = "visit" /\ UNCHANGED <<registryVars, origin>> /\ (VisitAlias \/ VisitOctets \/ VisitList)
    BY <1>1, <1>7, VisitAliasStep, VisitOctetsStep, VisitListStep
  <1>8. CASE VisitFunction /\ UNCHANGED <<registryVars, origin>>
    <2>1. phase' = "failed" /\ phase = "walk" /\ UNCHANGED heapVars
      BY <1>1, <1>8 DEF VisitFunction, Fail, Walking
    <2>2. QED
      BY <1>1, <1>8, <2>1, IdleStep
  <1>9. CASE call.op = "visit" /\ MoveUnmanaged
    BY <1>1, <1>9, MoveStep
  <1>10. CASE call.op = "visit" /\ \E o \in Objects : CloneUnmanaged(o)
    BY <1>1, <1>10, CloneStep
  <1>11. CASE CloneFails
    BY <1>0, <1>11 DEF CloneFails, Registry!AllocateFull, Registry!Trap
  <1>12. QED
    BY <1>2, <1>3, <1>4, <1>5, <1>6, <1>7, <1>8, <1>9, <1>10, <1>11 DEF Walk

LEMMA FinishStep ==
  ASSUME GoesOn, Finish
  PROVE  FaithInv'
  <1>1. /\ phase = "walk" /\ phase' = "done"
        /\ mem' = mem /\ used' = used /\ work' = work /\ slots' = slots /\ live' = live
        /\ allocated' = allocated /\ origin' = origin
        /\ UNCHANGED <<current, stateType, state, doClone, root>>
    BY DEF Finish, heapVars, registryVars, live
  <1>2. Pairs' = Pairs
    BY <1>1, SameTarget DEF Pairs
  <1>3. used[target] # 0 /\ \E from : CopiedTo(Source, mem, target, root, work, Pairs, from)
    BY <1>1, CopyFacts DEF GoesOn
  <1>4. PICK from : CopiedTo(Source, mem, target, root, work, Pairs, from)
    BY <1>3
  <1>5. CopiedTo(Source, mem', target, root, work', Pairs', from)
    BY <1>1, <1>2, <1>4
  <1>6. \A x \in CellsOfArena(mem, current) : x \in DOMAIN mem' /\ mem'[x] = mem[x]
    BY <1>1 DEF CellsOfArena
  <1>7. QED
    BY <1>1, <1>3, <1>5, <1>6, CopyingStep

-----------------------------------------------------------------------------
(* A finished copy.                                                         *)
LEMMA FinishedCopy ==
  ASSUME CopyInv, phase = "done", NEW from, CopiedTo(Source, mem, target, root, work, Pairs, from)
  PROVE  /\ DOMAIN from = CellsOfArena(mem, target) /\ root \in DOMAIN from /\ from[root] = << >>
         /\ from \in [DOMAIN from -> DOMAIN Source]
         /\ \A x \in DOMAIN from :
              /\ SameShape(mem[x], Source[from[x]])
              /\ \A i \in DOMAIN Source[from[x]].words :
                   Matches(from, Pairs, mem[x].words[i], Source[from[x]].words[i])
  <1>1. work = << >>
    BY DEF CopyInv
  <1>2. Spans(work) = {}
    BY <1>1, NoTasks
  <1>3. /\ DOMAIN from = CellsOfArena(mem, target) /\ root \in DOMAIN from /\ from[root] = << >>
        /\ Copying(Source, mem, from, work, Pairs)
    BY DEF CopiedTo
  <1>4. from \in [DOMAIN from -> DOMAIN Source]
    BY <1>3 DEF Copying
  <1>5. ASSUME NEW x \in DOMAIN from
        PROVE  /\ SameShape(mem[x], Source[from[x]])
               /\ \A i \in DOMAIN Source[from[x]].words :
                    Matches(from, Pairs, mem[x].words[i], Source[from[x]].words[i])
    <2>1. CellOK(from, Pairs, {}, x, mem[x], Source[from[x]])
      BY <1>2, <1>3 DEF Copying
    <2>2. QED
      BY <2>1 DEF CellOK, WordOK
  <1>6. QED
    BY <1>3, <1>4, <1>5

(* The words of what the copy was made of.                                  *)
LEMMA WordsOfSource ==
  ASSUME GoodState(mem, current, live, stateType, state, phase), << >> \notin DOMAIN mem, NEW y \in DOMAIN Source
  PROVE  /\ \A i \in DOMAIN Source[y].words : i \in Nat
         /\ Alive(Heap(mem, current), live, Source[y].words)
         /\ y # << >> => /\ y \in CellsOfArena(mem, current) /\ Source[y] = mem[y]
                         /\ GoodCell(Heap(mem, current), live, Source[y])
         /\ y = << >> => Source[y].type = stateType /\ Source[y].words = state
  <1>1. CASE y = << >>
    <2>1. Source[y].words = state /\ Source[y].type = stateType
      BY <1>1, SourceCells DEF CellOf
    <2>2. QED
      BY <1>1, <2>1 DEF GoodState
  <1>2. CASE y # << >>
    <2>1. y \in CellsOfArena(mem, current) /\ Source[y] = mem[y]
      BY <1>2, SourceCells
    <2>2. GoodCell(Heap(mem, current), live, Source[y])
      BY <2>1 DEF GoodState
    <2>3. QED
      BY <1>2, <2>1, <2>2 DEF GoodCell
  <1>3. QED
    BY <1>1, <1>2

(* What a word of a finished copy can be.                                   *)
LEMMA WordsOfCopy ==
  ASSUME DOMAIN mem \subseteq Pointers, NEW from, DOMAIN from = CellsOfArena(mem, target),
         NEW w, NEW v, Matches(from, Pairs, w, v)
  PROVE  /\ w \in Pointers => v \in Pointers /\ w \in DOMAIN from /\ from[w] = v
         /\ w \in Objects => v \in Objects /\ <<w, v>> \in Pairs /\ OwnsIn(slots, target, w)
         /\ v \in Pointers => w \in Pointers
         /\ v \in Objects => w \in Objects
         /\ v \notin Pointers \cup Objects => w = v
  <1>1. Pointers \cap Objects = {}
    BY SortsOfWords
  <1>2. CASE v \in Pointers
    <2>1. w \in DOMAIN from /\ from[w] = v
      BY <1>2 DEF Matches
    <2>2. w \in Pointers
      BY <2>1 DEF CellsOfArena
    <2>3. QED
      BY <1>1, <1>2, <2>1, <2>2
  <1>3. CASE v \in Objects
    <2>1. <<w, v>> \in Pairs
      BY <1>3 DEF Matches
    <2>2. <<w, v>>[1] = w
      OBVIOUS
    <2>3. w \in Objects /\ OwnsIn(slots, target, w)
      BY <2>1, <2>2 DEF Pairs, PairsOf
    <2>4. QED
      BY <1>1, <1>3, <2>1, <2>3
  <1>4. CASE v \notin Pointers \cup Objects
    BY <1>4 DEF Matches
  <1>5. QED
    BY <1>2, <1>3, <1>4

(* A list of the copy is a list of the like items.                          *)
LEMMA ListOfCopy ==
  ASSUME NEW h, NEW g, NEW old, NEW new, SameShape(new, old), NEW item, ListOf(h, old, item),
         \A i \in DOMAIN old.words : i \in Nat /\ Similar(h, old.words[i], g, new.words[i])
  PROVE  ListOf(g, new, item)
  <1>1. \A i \in DOMAIN old.words : i + 0 = i
    OBVIOUS
  <1>2. \A i \in DOMAIN old.words : i + 0 \in DOMAIN new.words /\ Similar(h, old.words[i], g, new.words[i + 0])
    BY <1>1 DEF SameShape
  <1>3. ASSUME NEW n, NEW u, Holds(h, old.words, n, u) PROVE Holds(g, new.words, n, u)
    <2>1. Holds(g, new.words, n + 0, u)
      BY <1>2, <1>3, Transfer
    <2>2. n + 0 = n
      BY <1>3, HoldsUnfolds
    <2>3. QED
      BY <2>1, <2>2
  <1>4. QED
    BY <1>3 DEF ListOf, SameShape

LEMMA SwapStep ==
  ASSUME GoesOn, Swap
  PROVE  FaithInv'
  <1> DEFINE g == Heap(mem', target)
             h == Heap(mem, current)
  <1>0. ErrorTraps /\ status = "running" /\ status' = "running"
    BY DEF GoesOn
  <1>1. /\ phase = "done" /\ current' = target /\ state' = mem[root].words /\ phase' = "main"
        /\ mem' = [x \in {y \in DOMAIN mem : y[1] # current} |-> mem[x]]
        /\ used' = [used EXCEPT ![current] = 0] /\ stateType' = stateType
        /\ Registry!Reset(current)
    BY <1>0 DEF Swap, Registry!ResetStops
  <1>2. /\ << >> \notin DOMAIN mem /\ CopyInv /\ DOMAIN mem = Address /\ used \in [Arenas -> 0 .. MaxCells]
        /\ current \in Arenas /\ target \in Arenas /\ target # current
        /\ GoodState(mem, current, live, stateType, state, phase)
        /\ OwnersOK(slots, allocated, destroyed)
    BY <1>1, CopyFacts DEF GoesOn
  <1>3. DOMAIN mem \subseteq Pointers
    BY <1>2, AddressFacts
  <1>4. PICK from : CopiedTo(Source, mem, target, root, work, Pairs, from)
    BY <1>1, CopyFacts DEF GoesOn
  <1>5. /\ DOMAIN from = CellsOfArena(mem, target) /\ root \in DOMAIN from
        /\ \A x \in DOMAIN from : from[x] \in DOMAIN Source
        /\ \A x \in DOMAIN from :
             /\ SameShape(mem[x], Source[from[x]])
             /\ \A i \in DOMAIN Source[from[x]].words :
                  Matches(from, Pairs, mem[x].words[i], Source[from[x]].words[i])
    BY <1>1, <1>2, <1>4, FinishedCopy
  <1>6. /\ CellsOfArena(mem', target) = CellsOfArena(mem, target)
        /\ \A x \in CellsOfArena(mem, target) : mem'[x] = mem[x]
    BY <1>1, <1>2 DEF CellsOfArena
  <1>7. DOMAIN g = CellsOfArena(mem, target) /\ \A x \in DOMAIN g : g[x] = mem[x]
    BY <1>6 DEF Heap, CellsOfArena
  <1>8. DOMAIN h = CellsOfArena(mem, current) /\ \A x \in DOMAIN h : h[x] = mem[x]
    BY DEF Heap, CellsOfArena
  <1> HIDE DEF g
  <1>9. /\ allocated' = allocated
        /\ \A o \in Objects : ~OwnsIn(slots', current, o)
        /\ \A o \in Objects : o \in destroyed' /\ o \notin destroyed => OwnsIn(slots, current, o)
    BY <1>1, <1>2, ResetOwns DEF GoesOn, IInv
  <1>10. ASSUME NEW o \in Objects, OwnsIn(slots, target, o) PROVE o \in live'
    <2>1. o \in allocated \ destroyed
      BY <1>2, <1>10 DEF OwnersOK
    <2>2. ~OwnsIn(slots, current, o)
      BY <1>2, <1>10 DEF OwnersOK
    <2>3. QED
      BY <1>9, <2>1, <2>2 DEF live
  <1>11. ASSUME NEW x \in DOMAIN from
         PROVE  /\ \A i \in DOMAIN mem[x].words : i \in Nat
                /\ Alive(g, live', mem[x].words)
    <2>1. from[x] \in DOMAIN Source /\ SameShape(mem[x], Source[from[x]])
      BY <1>5
    <2>2. \A i \in DOMAIN Source[from[x]].words : i \in Nat
      BY <1>2, <2>1, WordsOfSource
    <2>3. DOMAIN mem[x].words = DOMAIN Source[from[x]].words
      BY <2>1 DEF SameShape
    <2>4. ASSUME NEW i \in DOMAIN mem[x].words
          PROVE  /\ mem[x].words[i] \in Pointers => mem[x].words[i] \in DOMAIN g
                 /\ mem[x].words[i] \in Objects => mem[x].words[i] \in live'
      <3>1. Matches(from, Pairs, mem[x].words[i], Source[from[x]].words[i])
        BY <1>5, <2>3
      <3> DEFINE w == mem[x].words[i]
                 v == Source[from[x]].words[i]
      <3>0. Matches(from, Pairs, w, v)
        BY <3>1
      <3> HIDE DEF w, v
      <3>5. (w \in Pointers => w \in DOMAIN from) /\ (w \in Objects => OwnsIn(slots, target, w))
        BY <1>3, <1>5, <3>0, WordsOfCopy
      <3>2. mem[x].words[i] \in Pointers => mem[x].words[i] \in DOMAIN from
        BY <3>5 DEF w
      <3>3. mem[x].words[i] \in Objects => OwnsIn(slots, target, mem[x].words[i])
        BY <3>5 DEF w
      <3>6. QED
        BY <1>5, <1>7, <1>10, <3>2, <3>3
    <2>5. QED
      BY <2>2, <2>3, <2>4 DEF Alive
  <1>12. ASSUME NEW x \in DOMAIN from PROVE GoodCell(g, live', mem[x])
    <2> DEFINE new == mem[x]
               old == Source[from[x]]
    <2>1. from[x] \in DOMAIN Source /\ SameShape(new, old)
          /\ \A i \in DOMAIN old.words : Matches(from, Pairs, new.words[i], old.words[i])
      BY <1>5
    <2>2. /\ \A i \in DOMAIN old.words : i \in Nat
          /\ Alive(h, live, old.words)
          /\ from[x] # << >> => GoodCell(h, live, old)
          /\ from[x] = << >> => old.type = stateType
      BY <1>2, <2>1, WordsOfSource
    <2> HIDE DEF new, old, h
    <2>3. new.type = old.type /\ DOMAIN new.words = DOMAIN old.words
      BY <2>1 DEF SameShape
    <2>4. ASSUME Kind(new.type) \in {"octets", "list"} PROVE GoodCell(h, live, old)
      <3>1. Kind(stateType) \notin {"octets", "list"}
        BY <1>2, ArenaFacts
      <3>2. from[x] # << >>
        BY <2>2, <2>3, <2>4, <3>1
      <3>3. QED
        BY <2>2, <3>2
    <2>5. ASSUME Kind(new.type) = "octets", NEW i \in DOMAIN new.words PROVE new.words[i] \in Characters
      <3>1. old.words[i] \in Characters
        BY <2>3, <2>4, <2>5 DEF GoodCell
      <3>2. old.words[i] \notin Pointers \cup Objects
        BY <3>1, SortsOfWords
      <3>3. Matches(from, Pairs, new.words[i], old.words[i])
        BY <2>1, <2>3, <2>5
      <3>4. QED
        BY <3>1, <3>2, <3>3 DEF Matches
    <2>6. ASSUME Kind(new.type) = "list" PROVE ListOf(g, new, TypeInfo[new.type].item)
      <3>1. ListOf(h, old, TypeInfo[new.type].item)
        BY <2>3, <2>4, <2>6 DEF GoodCell
      <3>2. ASSUME NEW i \in DOMAIN old.words PROVE Similar(h, old.words[i], g, new.words[i])
        <4> DEFINE w == new.words[i]
                   v == old.words[i]
        <4>1. Matches(from, Pairs, w, v)
          BY <2>1
        <4> HIDE DEF w, v
        <4>2. /\ w \in Pointers => v \in Pointers /\ w \in DOMAIN from /\ from[w] = v
              /\ v \in Pointers => w \in Pointers
              /\ v \in Objects => w \in Objects
              /\ v \notin Pointers \cup Objects => w = v
          BY <1>3, <1>5, <4>1, WordsOfCopy
        <4>3. v \in Numbers \cup {NoObject} => w = v
          BY <4>2, SortsOfWords
        <4>4. ASSUME v \in Pointers, v \in DOMAIN h PROVE w \in Pointers /\ w \in DOMAIN g /\ g[w].type = h[v].type
          <5>1. w \in Pointers /\ w \in DOMAIN from /\ from[w] = v
            BY <4>2, <4>4
          <5>2. w \in DOMAIN g /\ g[w] = mem[w]
            BY <1>5, <1>7, <5>1
          <5>3. SameShape(mem[w], Source[v])
            BY <1>5, <5>1
          <5>4. v \in CellsOfArena(mem, current) /\ v # << >> /\ h[v] = mem[v]
            BY <1>2, <1>8, <4>4 DEF CellsOfArena
          <5>5. Source[v] = mem[v]
            BY <5>4, SourceCells
          <5>6. QED
            BY <5>1, <5>2, <5>3, <5>4, <5>5 DEF SameShape
        <4>5. Similar(h, v, g, w)
          BY <4>2, <4>3, <4>4 DEF Similar
        <4>6. QED
          BY <4>5 DEF w, v
      <3>3. QED
        BY <2>1, <2>2, <3>1, <3>2, ListOfCopy
    <2>7. (\A i \in DOMAIN new.words : i \in Nat) /\ Alive(g, live', new.words)
      BY <1>11 DEF new
    <2>8. GoodCell(g, live', new)
      BY <2>5, <2>6, <2>7 DEF GoodCell
    <2>9. QED
      BY <2>8 DEF new
  <1>13. \A x \in CellsOfArena(mem', target) : GoodCell(g, live', mem'[x])
    BY <1>5, <1>6, <1>12
  <1>14. (\A i \in DOMAIN state' : i \in Nat) /\ Alive(g, live', state')
    BY <1>1, <1>5, <1>11
  <1>15. GoodState(mem', target, live', stateType, state', "main")
    BY <1>13, <1>14 DEF GoodState, g
  <1>16. GoodState(mem', current', live', stateType', state', phase')
    BY <1>1, <1>15
  <1>17. target' = current
    <2>1. target' = Other(target) /\ Other(target) \in Arenas /\ Other(target) # target
      BY <1>1, <1>2, OtherArena DEF target
    <2>2. \A a \in Arenas : a = current \/ a = target
      BY <1>2, ArenaFacts
    <2>3. QED
      BY <2>1, <2>2
  <1>18. NothingOwned(slots', target')
    BY <1>9, <1>17 DEF NothingOwned
  <1>19. QED
    BY <1>1, <1>16, <1>18 DEF FaithInv, live

-----------------------------------------------------------------------------
(* The invariant holds at the start and is kept by every step.              *)
LEMMA InitFaithInv == Init => FaithInv
  <1> SUFFICES ASSUME Init PROVE FaithInv
    OBVIOUS
  <1>1. /\ DOMAIN mem = {} /\ state = << >> /\ phase = "main"
        /\ \A r \in Arenas : \A i \in Registry!Slots : slots[r][i] = NoObject
    BY DEF Init, Registry!Init
  <1>2. current \in Arenas /\ target \in Arenas
    BY OtherArena DEF Init, target
  <1>3. NothingOwned(slots, target)
    BY <1>1, <1>2, RegistryAssumption DEF NothingOwned, OwnsIn
  <1>4. DOMAIN state = {}
    BY <1>1
  <1>5. GoodState(mem, current, live, stateType, state, phase)
    BY <1>1, <1>4 DEF GoodState, CellsOfArena, Alive
  <1>6. QED
    BY <1>1, <1>3, <1>5 DEF FaithInv, live

LEMMA NextFaithInv ==
  ASSUME ErrorTraps, IInv, [Next]_vars
  PROVE  IInv'
  <1>1. TypeInv' /\ SoundInv'
    BY NextTypeInv, StepOfRegistry, SameSteps, RegistryAssumption, Shared!NextOwnInv DEF IInv, SoundInv
  <1>2. CASE UNCHANGED vars
    <2>1. FaithInv
      BY DEF IInv
    <2>2. UNCHANGED <<heapVars, loopVars, origin, registryVars, status>>
      BY <1>2 DEF vars
    <2>3. target' = target
      BY <2>2, SameTarget DEF loopVars
    <2>4. Source' = Source /\ Pairs' = Pairs
      BY <2>2, <2>3 DEF Source, Pairs, heapVars, loopVars, registryVars
    <2>5. FaithInv'
      BY <2>1, <2>2, <2>3, <2>4 DEF FaithInv, heapVars, loopVars, registryVars
    <2>6. QED
      BY <1>1, <2>5 DEF IInv
  <1>3. CASE status' # "running"
    BY <1>1, <1>3 DEF IInv, FaithInv
  <1>4. ASSUME Next, status = "running", status' = "running" PROVE FaithInv'
    <2>1. GoesOn
      BY <1>1, <1>4 DEF GoesOn
    <2>2. CASE \E t \in Types : (\E c \in Characters : NewOctets(t, c)) \/ NewList(t) \/ NewEmptyList(t)
      BY <2>1, <2>2, NewOctetsStep, NewListStep, NewEmptyListStep
    <2>3. CASE (\E o \in Objects : NewObject(o)) \/ Return
      BY <2>1, <2>3, NewObjectStep, ReturnStep
    <2>4. CASE (\E clone \in BOOLEAN : Begin(clone)) \/ Walk \/ Finish \/ Swap
      BY <2>1, <2>4, BeginStep, WalkStep, FinishStep, SwapStep
    <2>5. CASE Retry
      BY <2>1, <2>5, IdleStep DEF Retry
    <2>6. QED
      BY <1>4, <2>2, <2>3, <2>4, <2>5 DEF Next
  <1>5. ASSUME Next PROVE status = "running"
    BY <1>5 DEF Next, NewOctets, NewList, NewEmptyList, NewObject, InMain, Return, Begin, Walk, Walking, Finish,
       Swap, Retry
  <1>6. QED
    BY <1>1, <1>2, <1>3, <1>4, <1>5 DEF IInv

(* The inductive invariant of reclamation.                                  *)
LEMMA FaithInvariant == Spec => [](ErrorTraps => IInv)
  <1>1. Init => (ErrorTraps => IInv)
    <2>1. Init => TypeInv /\ SoundInv
      BY InitTypeInv, InitSoundInv
    <2>2. QED
      BY <2>1, InitFaithInv DEF IInv
  <1>2. (ErrorTraps => IInv) /\ [Next]_vars => (ErrorTraps => IInv)'
    BY NextFaithInv
  <1>3. QED
    BY <1>1, <1>2, PTL DEF Spec

-----------------------------------------------------------------------------
(* What the invariant says of a finished copy.                              *)
LEMMA CellWithWords ==
  ASSUME NEW c, NEW d, IsCell(c), IsCell(d), SameShape(c, d)
  PROVE  [c EXCEPT !.words = d.words] = d
  <1> DEFINE t == c.type
             n == c.count
             s == c.itemSize
             a == c.itemAlign
             v == c.words
             w == d.words
  <1>1. c = CellOf(t, v, n, s, a) /\ d = CellOf(t, w, n, s, a)
    BY DEF IsCell, SameShape
  <1> HIDE DEF t, n, s, a, v
  <1>2. [CellOf(t, v, n, s, a) EXCEPT !.words = w] = CellOf(t, w, n, s, a)
    BY DEF CellOf
  <1>3. QED
    BY <1>1, <1>2

LEMMA OriginalIsSource ==
  ASSUME CellsInv, NEW y \in DOMAIN Source
  PROVE  Original(y) = Source[y] /\ IsCell(Source[y])
  <1>1. CASE y = << >>
    BY <1>1, SourceCells DEF Original, IsCell, CellOf
  <1>2. CASE y # << >>
    <2>1. y \in DOMAIN mem /\ Source[y] = mem[y]
      BY <1>2, SourceCells DEF CellsOfArena
    <2>2. QED
      BY <1>2, <2>1, CellFacts DEF Original
  <1>3. QED
    BY <1>1, <1>2

LEMMA FinishedIsFaithful ==
  ASSUME ErrorTraps, IInv, Copied
  PROVE  \E from \in [CellsOf(target) -> CellsOf(current) \cup {<< >>}] : IsCopy(from)
  <1>1. /\ status = "running" /\ phase = "done" /\ CopyInv /\ CellsInv
    BY InvariantFacts DEF Copied
  <1>2. PICK from : CopiedTo(Source, mem, target, root, work, Pairs, from)
    BY <1>1, CopyFacts
  <1>3. /\ DOMAIN from = CellsOfArena(mem, target) /\ root \in DOMAIN from /\ from[root] = << >>
        /\ from \in [DOMAIN from -> DOMAIN Source]
        /\ \A x \in DOMAIN from :
             /\ SameShape(mem[x], Source[from[x]])
             /\ \A i \in DOMAIN Source[from[x]].words :
                  Matches(from, Pairs, mem[x].words[i], Source[from[x]].words[i])
    BY <1>1, <1>2, FinishedCopy
  <1>4. CellsOf(target) = CellsOfArena(mem, target) /\ CellsOf(current) = CellsOfArena(mem, current)
    BY DEF CellsOf, CellsOfArena
  <1>5. from \in [CellsOf(target) -> CellsOf(current) \cup {<< >>}]
    BY <1>3, <1>4, SourceCells
  <1>6. \A w, v : Matches(from, Pairs, w, v) => StandsFor(from, w, v)
    <2>1. ASSUME NEW w, NEW v, v \in Objects, <<w, v>> \in Pairs
          PROVE  w \in Objects /\ origin[w] = origin[v] /\ (~doClone => w = v)
      <3>1. <<w, v>>[1] = w /\ <<w, v>>[2] = v /\ (<<w, v>> \in Objects \X Objects => w \in Objects)
        OBVIOUS
      <3>2. QED
        BY <2>1, <3>1 DEF Pairs, PairsOf
    <2>2. QED
      BY <2>1 DEF Matches, StandsFor
  <1>7. ASSUME NEW x \in DOMAIN from
        PROVE  LET old == Original(from[x]) IN
                 /\ [mem[x] EXCEPT !.words = old.words] = old
                 /\ DOMAIN mem[x].words = DOMAIN old.words
                 /\ \A i \in DOMAIN old.words : StandsFor(from, mem[x].words[i], old.words[i])
    <2> DEFINE new == mem[x]
               old == Source[from[x]]
    <2>1. from[x] \in DOMAIN Source
      BY <1>3
    <2>2. Original(from[x]) = old /\ IsCell(old)
      BY <1>1, <2>1, OriginalIsSource
    <2>3. IsCell(new)
      BY <1>1, <1>3, CellFacts DEF CellsOfArena
    <2>4. SameShape(new, old) /\ \A i \in DOMAIN old.words : Matches(from, Pairs, new.words[i], old.words[i])
      BY <1>3
    <2> HIDE DEF new, old
    <2>5. [new EXCEPT !.words = old.words] = old /\ DOMAIN new.words = DOMAIN old.words
      BY <2>2, <2>3, <2>4, CellWithWords DEF SameShape
    <2>6. \A i \in DOMAIN old.words : StandsFor(from, new.words[i], old.words[i])
      BY <1>6, <2>4
    <2>7. QED
      BY <2>2, <2>5, <2>6 DEF new
  <1>8. IsCopy(from)
    BY <1>3, <1>7 DEF IsCopy
  <1>9. QED
    BY <1>5, <1>8

(* The words in use, before and after.                                      *)
LEMMA WordsInUse ==
  ASSUME ErrorTraps, IInv, status = "running"
  PROVE  \A w \in WordsOf(CellsOf(current)) \cup StateWords :
           /\ w \in Pointers => w \in DOMAIN mem /\ w[1] = current
           /\ w \in Objects => w \in live
  <1>1. GoodState(mem, current, live, stateType, state, phase)
    BY InvariantFacts
  <1>2. DOMAIN Heap(mem, current) = CellsOfArena(mem, current) /\ CellsOf(current) = CellsOfArena(mem, current)
    BY DEF Heap, CellsOf, CellsOfArena
  <1>3. ASSUME NEW words, Alive(Heap(mem, current), live, words), NEW i \in DOMAIN words
        PROVE  /\ words[i] \in Pointers => words[i] \in DOMAIN mem /\ words[i][1] = current
               /\ words[i] \in Objects => words[i] \in live
    BY <1>2, <1>3 DEF Alive, CellsOfArena
  <1>4. ASSUME NEW x \in CellsOf(current), NEW i \in DOMAIN mem[x].words
        PROVE  /\ mem[x].words[i] \in Pointers => mem[x].words[i] \in DOMAIN mem /\ mem[x].words[i][1] = current
               /\ mem[x].words[i] \in Objects => mem[x].words[i] \in live
    <2>1. Alive(Heap(mem, current), live, mem[x].words)
      BY <1>1, <1>2 DEF GoodState, GoodCell
    <2>2. QED
      BY <1>3, <2>1
  <1>5. ASSUME NEW i \in DOMAIN state
        PROVE  /\ state[i] \in Pointers => state[i] \in DOMAIN mem /\ state[i][1] = current
               /\ state[i] \in Objects => state[i] \in live
    BY <1>1, <1>3 DEF GoodState
  <1>6. QED
    BY <1>4, <1>5 DEF WordsOf, StateWords

LEMMA FinishedIsSelfContained ==
  ASSUME ErrorTraps, IInv, Copied
  PROVE  /\ \A w \in WordsOf(CellsOf(target)) : StaysIn(target, w)
         /\ doClone => SharesNothing
  <1>1. /\ status = "running" /\ phase = "done" /\ CopyInv /\ DOMAIN mem = Address /\ used \in [Arenas -> 0 .. MaxCells]
        /\ current \in Arenas /\ target \in Arenas /\ target # current /\ OwnersOK(slots, allocated, destroyed)
        /\ doClone => KeepsObjects(Source, slots, current)
        /\ << >> \notin CellsOfArena(mem, current)
    BY InvariantFacts, CopyFacts DEF Copied
  <1>2. PICK from : CopiedTo(Source, mem, target, root, work, Pairs, from)
    BY <1>1, CopyFacts
  <1>3. /\ DOMAIN from = CellsOfArena(mem, target)
        /\ \A x \in DOMAIN from :
             /\ SameShape(mem[x], Source[from[x]])
             /\ \A i \in DOMAIN Source[from[x]].words :
                  Matches(from, Pairs, mem[x].words[i], Source[from[x]].words[i])
    BY <1>1, <1>2, FinishedCopy
  <1>4. CellsOf(target) = CellsOfArena(mem, target) /\ CellsOf(current) = CellsOfArena(mem, current)
    BY DEF CellsOf, CellsOfArena
  <1>5. DOMAIN mem \subseteq Pointers
    BY <1>1, AddressFacts
  <1>6. \A w, v : Matches(from, Pairs, w, v) => /\ (w \in Pointers => w \in DOMAIN from)
                                               /\ (w \in Objects => OwnsIn(slots, target, w))
    BY <1>3, <1>5, WordsOfCopy
  <1>7. \A w \in WordsOf(CellsOf(target)) : /\ (w \in Pointers => w \in DOMAIN from)
                                            /\ (w \in Objects => OwnsIn(slots, target, w))
    <2>1. ASSUME NEW x \in DOMAIN from, NEW i \in DOMAIN mem[x].words
          PROVE  \E v : Matches(from, Pairs, mem[x].words[i], v)
      BY <1>3 DEF SameShape
    <2>2. QED
      BY <1>3, <1>4, <1>6, <2>1 DEF WordsOf
  <1>8. \A w \in WordsOf(CellsOf(target)) : StaysIn(target, w)
    BY <1>3, <1>7, OwnsIsOwnsIn DEF StaysIn, CellsOfArena
  <1>9. ASSUME doClone PROVE SharesNothing
    <2>1. ASSUME NEW w \in WordsOf(CellsOf(current)) \cup StateWords, w \in Objects PROVE OwnsIn(slots, current, w)
      <3>1. ASSUME NEW y \in DOMAIN Source, NEW i \in DOMAIN Source[y].words, w = Source[y].words[i]
            PROVE  OwnsIn(slots, current, w)
        BY <1>1, <1>9, <2>1, <3>1 DEF KeepsObjects
      <3>2. CASE w \in StateWords
        <4>1. << >> \in DOMAIN Source /\ Source[<< >>].words = state
          BY SourceCells DEF CellOf
        <4>2. PICK i \in DOMAIN state : w = state[i]
          BY <3>2 DEF StateWords
        <4>3. QED
          BY <3>1, <4>1, <4>2
      <3>3. CASE w \in WordsOf(CellsOf(current))
        <4>1. PICK x \in CellsOfArena(mem, current) : \E i \in DOMAIN mem[x].words : w = mem[x].words[i]
          BY <1>4, <3>3 DEF WordsOf
        <4>2. x \in DOMAIN Source /\ Source[x] = mem[x]
          BY <1>1, SourceCells
        <4>3. QED
          BY <3>1, <4>1, <4>2
      <3>4. QED
        BY <2>1, <3>2, <3>3
    <2>2. ASSUME NEW w \in WordsOf(CellsOf(target)), w \in WordsOf(CellsOf(current)) \cup StateWords,
                 w \in Pointers \cup Objects
          PROVE  FALSE
      <3>1. CASE w \in Pointers
        <4>1. w[1] = target
          BY <1>3, <1>7, <2>2, <3>1 DEF CellsOfArena
        <4>2. w[1] = current
          BY <1>1, <2>2, <3>1, WordsInUse
        <4>3. QED
          BY <1>1, <4>1, <4>2
      <3>2. CASE w \in Objects
        <4>1. OwnsIn(slots, target, w) /\ OwnsIn(slots, current, w)
          BY <1>7, <2>1, <2>2, <3>2
        <4>2. QED
          BY <1>1, <3>2, <4>1 DEF OwnersOK
      <3>3. QED
        BY <2>2, <3>1, <3>2
    <2>3. QED
      BY <2>2 DEF SharesNothing
  <1>10. QED
    BY <1>8, <1>9

-----------------------------------------------------------------------------
(* A finished copy is the state again, whatever the types, the values and   *)
(* the sharing in it are: what compactOrClone leaves in the target arena    *)
(* matches the state cell by cell and word by word.                         *)
THEOREM CopiesAreFaithful == Spec => []CopyIsFaithful
  <1>1. (ErrorTraps => IInv) => CopyIsFaithful
    BY FinishedIsFaithful DEF CopyIsFaithful
  <1>2. QED
    BY <1>1, FaithInvariant, PTL

(* A finished copy refers to nothing but the target arena and the objects   *)
(* of its registry, and a clone shares nothing with the state: so the reset *)
(* of the arena and the registry the state was in frees nothing in use.     *)
THEOREM CopiesAreSelfContained == Spec => []CopyIsSelfContained
  <1>1. (ErrorTraps => IInv) => CopyIsSelfContained
    BY FinishedIsSelfContained DEF CopyIsSelfContained
  <1>2. QED
    BY <1>1, FaithInvariant, PTL

(* Between ticks nothing the program can reach was freed: every pointer of  *)
(* the state and of the arena's cells leads to a cell of the arena, every   *)
(* object to one that lives.                                                *)
THEOREM StatesAreAlive == Spec => []StateIsAlive
  <1>1. (ErrorTraps => IInv) => StateIsAlive
    BY WordsInUse DEF StateIsAlive, live, Registry!Live
  <1>2. QED
    BY <1>1, FaithInvariant, PTL
=============================================================================
