------------------------------- MODULE Compact -------------------------------
(***************************************************************************)
(* Memory reclamation: lib/compact.c and lib/is_blittable.c, over the      *)
(* allocation of swamp_allocate.c and the registries of context.c, driven  *)
(* as the game loop of examples/main.c drives them.                        *)
(*                                                                         *)
(* The runtime never frees a single value.  A tick runs `main' in the      *)
(* current arena, then copies the state it returned into the other arena   *)
(* (swampCompact moves the unmanaged objects the state refers to along,    *)
(* swampClone asks the host to copy them), the two arenas change places    *)
(* and the old one is reset with its registry.  Every pointer of the state *)
(* that the copy forgot is then a pointer to nothing, and every object the *)
(* move forgot is destroyed under the state that refers to it.             *)
(*                                                                         *)
(* The values are sequences of words, laid out by the type information     *)
(* (external: swamp-typeinfo).  A word is a scalar, a pointer to a cell or *)
(* an unmanaged object.  A cell is a struct with the items behind it, two  *)
(* allocations of the code that always come together.  compactOrClone is   *)
(* recursive: here it is a stack of work, one step per call, with a store  *)
(* task for the assignment that follows the recursion over the items.      *)
(***************************************************************************)
EXTENDS Integers, Sequences, FiniteSets

CONSTANTS
  Arenas,      \* the two arenas; each has a registry of unmanaged objects
  MaxCells,    \* cells an arena has room for
  Types,       \* the types of the program
  TypeInfo,    \* [kind, ...] of each type, see below
  StateTypes,  \* the types `main' may return
  Characters,  \* payloads of strings and blobs
  Objects, NoObject, Capacity, ErrorTraps,  \* as in UnmanagedMemory
  MaxItems,    \* bound: items of a list
  MaxNesting,  \* how deep records, custom types and aliases nest
  MaxFresh,    \* bound: allocations in one tick
  MaxTicks     \* bound: ticks

(* TypeInfo[t].kind is                                                     *)
(*   "scalar"                Boolean, Int, Fixed, Char                     *)
(*   "octets"                String, Blob                                  *)
(*   "record"   fields       Record, Tuple: a sequence of [offset, type]   *)
(*   "custom"   variants     one sequence of fields for each variant; the  *)
(*                           first word of the value is the variant        *)
(*   "list"     item         List, Array                                   *)
(*   "alias"    item         Alias                                         *)
(*   "function" parameters   Function: a sequence of types                 *)
(*   "unmanaged"             Unmanaged; `ecs' says whether it is EcsWorld  *)
(*   "unsupported"           Any, AnyMatchingTypes, ResourceName           *)
(* and TypeInfo[t].size is the number of words of a value.                 *)
ASSUME ArenasAssumption == IsFiniteSet(Arenas) /\ Cardinality(Arenas) = 2
FieldList == Seq([offset : Nat, type : Types])
ASSUME TypeInfoAssumption ==
  \A t \in Types :
    /\ TypeInfo[t].kind \in {"scalar", "octets", "record", "custom", "list", "alias",
                             "function", "unmanaged", "unsupported"}
    /\ TypeInfo[t].size \in Nat
    /\ TypeInfo[t].kind = "record" => TypeInfo[t].fields \in FieldList
    /\ TypeInfo[t].kind = "custom" => TypeInfo[t].variants \in Seq(FieldList)
    /\ TypeInfo[t].kind \in {"list", "alias"} => TypeInfo[t].item \in Types
\* Fields follow each other without a gap, the first one `start' words into
\* the value.  A word is whatever one place takes, so there is no padding but
\* the one that brings the variants of a custom type to the same size.
EndOf(fields, start, i) ==
  IF i = 0 THEN start ELSE fields[i].offset + TypeInfo[fields[i].type].size
Follow(fields, start) == \A i \in DOMAIN fields : fields[i].offset = EndOf(fields, start, i - 1)
ASSUME LayoutAssumption ==
  \A t \in Types : LET type == TypeInfo[t] IN
    /\ type.kind \in {"scalar", "octets", "list", "function", "unmanaged", "unsupported"} => type.size = 1
    /\ type.kind = "alias" => type.size = TypeInfo[type.item].size
    /\ type.kind = "record" =>
         Follow(type.fields, 0) /\ type.size = EndOf(type.fields, 0, Len(type.fields))
    /\ type.kind = "custom" =>
         \A i \in DOMAIN type.variants : LET fields == type.variants[i] IN
           Follow(fields, 1) /\ type.size >= EndOf(fields, 1, Len(fields))
ASSUME BoundsAssumption == MaxCells \in Nat /\ MaxItems \in Nat /\ MaxNesting \in Nat

(* A word tells what it is: the address of a cell, a number (a scalar, or   *)
(* the variant of a custom type), an unmanaged object, a payload, or none.  *)
Pointers == Arenas \X (1 .. MaxCells)
Number(n) == <<n>>
ASSUME WordsAssumption ==
  /\ (Objects \cup Characters \cup {NoObject}) \cap (Pointers \cup Seq(Nat)) = {}
  /\ Objects \cap Characters = {}

ASSUME RegistryAssumption ==
  Capacity \in Nat /\ NoObject \notin Objects /\ ErrorTraps \in BOOLEAN
ASSUME StateTypesAssumption ==
  /\ StateTypes \subseteq Types
  /\ \A t \in StateTypes : TypeInfo[t].kind \notin {"octets", "list"}

VARIABLES
  mem,        \* the cells allocated since the last reset: address -> cell
  used,       \* cells allocated in each arena
  current,    \* the arena `main' runs in
  stateType, state,  \* the state `main' returned, on the stack of the machine
  phase,      \* "main", "returned", "walk", "done" or "failed"
  doClone,    \* swampClone, not swampCompact
  root,       \* the state's address in the target arena
  work,       \* calls of compactOrClone still to be made, next one first
  result,     \* what swampCompact or swampClone returned
  fresh, tick,       \* the bounds' counters
  origin,     \* the object each object is a clone of, itself if of none
  slots, count, allocated, noDestroy, destroyed, destroyedAgain, status

registryVars == <<slots, count, allocated, noDestroy, destroyed, destroyedAgain>>
heapVars     == <<mem, used>>
loopVars     == <<current, stateType, state, phase, doClone, root, work, result, fresh, tick>>
vars == <<heapVars, loopVars, origin, registryVars, status>>

Registry == INSTANCE UnmanagedMemory WITH Registries <- Arenas, errorTraps <- ErrorTraps

Other(a) == CHOOSE b \in Arenas : b # a
target == Other(current)

Kind(t) == TypeInfo[t].kind
SizeOf(t) == TypeInfo[t].size

-----------------------------------------------------------------------------
(* swampIsBlittableOrEcs: true unless a type it looks at, on the way down   *)
(* from t, is one it refuses.                                               *)
Refused(t) ==
  \/ Kind(t) = "unsupported"
  \/ Kind(t) = "unmanaged" /\ ~TypeInfo[t].ecs

FieldTypes(fields) == {fields[i].type : i \in DOMAIN fields}

PartTypes(t) ==
  CASE Kind(t) = "record" -> FieldTypes(TypeInfo[t].fields)
    [] Kind(t) = "custom" -> UNION {FieldTypes(TypeInfo[t].variants[i]) : i \in DOMAIN TypeInfo[t].variants}
    [] Kind(t) \in {"list", "alias"} -> {TypeInfo[t].item}
    [] Kind(t) = "function" -> {TypeInfo[t].parameters[i] : i \in DOMAIN TypeInfo[t].parameters}
    [] OTHER -> {}

TypesWithin[t \in Types, n \in 0 .. Cardinality(Types)] ==
  IF n = 0 THEN {t}
  ELSE LET above == TypesWithin[t, n - 1] IN above \cup UNION {PartTypes(u) : u \in above}

IsBlittableOrEcs(t) == \A u \in TypesWithin[t, Cardinality(Types)] : ~Refused(u)

-----------------------------------------------------------------------------
(* Allocation.  A cell keeps the count, item size and align of its struct; an *)
(* empty list of swampListEmptyAllocate has neither.  `type' is a history   *)
(* variable: the code keeps none.                                           *)
Fits(a) == used[a] < MaxCells
NextAddress(a) == <<a, used[a] + 1>>

CellOf(t, words, itemCount, itemSize, itemAlign) ==
  [type |-> t, words |-> words, count |-> itemCount, itemSize |-> itemSize, itemAlign |-> itemAlign]

WithCell(a, cell) ==
  [x \in DOMAIN mem \cup {NextAddress(a)} |-> IF x = NextAddress(a) THEN cell ELSE mem[x]]

OneMoreIn(a) == used' = [used EXCEPT ![a] = @ + 1]

\* "overrrun dynamic memory".
Overrun == status' = "abort"

\* CLOG_ERROR.
Trap == status' = IF ErrorTraps THEN "trap" ELSE status

-----------------------------------------------------------------------------
(* The values a program can put in a place of a type.  Any cell of the      *)
(* current arena can be referred to: the program allocated it in this tick, *)
(* or it is part of the state it was handed.  So can any object the host    *)
(* made and those of that state.  The machine copies words freely, so two   *)
(* places may hold the same pointer.                                        *)
StateWords == {state[i] : i \in DOMAIN state}

Concatenations(A, B) == {a \o b : a \in A, b \in B}

FieldValues(fields, V) ==
  LET upTo[n \in 0 .. Len(fields)] ==
        IF n = 0 THEN {<< >>} ELSE Concatenations(upTo[n - 1], V[fields[n].type])
  IN upTo[Len(fields)]

Padded(words, size) == words \o [i \in 1 .. (size - Len(words)) |-> NoObject]

InlineValues(t, V) ==
  CASE Kind(t) = "scalar" -> {<<Number(0)>>}
    [] Kind(t) \in {"octets", "list"} ->
         {<<x>> : x \in {y \in DOMAIN mem : y[1] = current /\ mem[y].type = t}}
    [] Kind(t) = "unmanaged" -> {<<o>> : o \in Registry!Live \cup (Objects \cap StateWords)}
    [] Kind(t) \in {"function", "unsupported"} -> {<<NoObject>>}
    [] Kind(t) = "alias" -> V[TypeInfo[t].item]
    [] Kind(t) = "record" -> FieldValues(TypeInfo[t].fields, V)
    [] Kind(t) = "custom" ->
         UNION {{Padded(<<Number(i - 1)>> \o w, SizeOf(t)) : w \in FieldValues(TypeInfo[t].variants[i], V)} :
                  i \in DOMAIN TypeInfo[t].variants}

ValuesOf ==
  LET nested[n \in 0 .. MaxNesting] ==
        IF n = 0 THEN [t \in Types |-> {}]
        ELSE LET V == nested[n - 1] IN [t \in Types |-> InlineValues(t, V)]
  IN nested[MaxNesting]

-----------------------------------------------------------------------------
Init ==
  /\ mem = << >> /\ used = [a \in Arenas |-> 0]
  /\ current \in Arenas
  /\ stateType \in StateTypes /\ state = << >>
  /\ phase = "main" /\ doClone = FALSE /\ root = << >>
  /\ work = << >> /\ result = 0 /\ fresh = 0 /\ tick = 0
  /\ origin = [o \in Objects |-> o]
  /\ Registry!Init

(* The tick: `main' allocates in the current arena.                         *)
InMain == status = "running" /\ phase = "main" /\ fresh < MaxFresh

Allocate(cell) ==
  /\ fresh' = fresh + 1
  /\ IF Fits(current)
     THEN mem' = WithCell(current, cell) /\ OneMoreIn(current) /\ UNCHANGED status
     ELSE Overrun /\ UNCHANGED heapVars
  /\ UNCHANGED <<current, stateType, state, phase, doClone, root, work, result, tick, origin, registryVars>>

\* swampStringAllocateWithSize, swampBlobAllocate.
NewOctets(t, c) ==
  /\ InMain
  /\ Kind(t) = "octets"
  /\ Allocate(CellOf(t, <<c>>, 1, 1, 1))

\* swampListAllocate, swampArrayAllocate: the items are copied behind the struct.
NewList(t) ==
  /\ InMain
  /\ Kind(t) = "list"
  /\ LET item == TypeInfo[t].item
         Items[n \in 0 .. MaxItems] ==
           IF n = 0 THEN {<< >>} ELSE Concatenations(Items[n - 1], ValuesOf[item])
     IN \E n \in 0 .. MaxItems : \E words \in Items[n] :
          Allocate(CellOf(t, words, n, SizeOf(item), 1))

\* swampListEmptyAllocate.
NewEmptyList(t) ==
  /\ InMain
  /\ Kind(t) = "list"
  /\ Allocate(CellOf(t, << >>, 0, 0, 0))

\* The host puts an object of its own in the registry of the current arena.
NewObject(o) ==
  /\ InMain
  /\ fresh' = fresh + 1
  /\ Registry!Allocate(current, o)
  /\ noDestroy' = noDestroy
  /\ UNCHANGED <<heapVars, current, stateType, state, phase, doClone, root, work, result, tick, origin>>

\* `main' returns: the state is on the stack of the machine.
Return ==
  /\ status = "running" /\ phase = "main" /\ tick < MaxTicks
  /\ state' \in ValuesOf[stateType]
  /\ phase' = "returned"
  /\ UNCHANGED <<heapVars, current, stateType, doClone, root, work, result, fresh, tick, origin,
                 registryVars, status>>

-----------------------------------------------------------------------------
(* swampCompact and swampClone.                                             *)
Visit(addr, index, t) == [op |-> "visit", addr |-> addr, index |-> index, type |-> t, cell |-> << >>]
Store(addr, index, t, cell) == [op |-> "store", addr |-> addr, index |-> index, type |-> t, cell |-> cell]

StateAccepted == IsBlittableOrEcs(stateType) /\ used[target] = 0

\* One of the two checks fails: swampCompact returns, swampClone goes on.
BeginRefused(clone) ==
  /\ ~StateAccepted
  /\ ErrorTraps \/ ~clone
  /\ result' = IF IsBlittableOrEcs(stateType) THEN -2 ELSE -3
  /\ phase' = "failed"
  /\ Trap
  /\ UNCHANGED <<heapVars, root, work>>

BeginCopy(clone) ==
  /\ StateAccepted \/ (~ErrorTraps /\ clone)
  /\ IF Fits(target)
     THEN /\ mem' = WithCell(target, CellOf(stateType, state, 1, SizeOf(stateType), 1))
          /\ OneMoreIn(target)
          /\ root' = NextAddress(target)
          /\ work' = <<Visit(NextAddress(target), 1, stateType)>>
          /\ phase' = "walk"
          /\ UNCHANGED status
     ELSE Overrun /\ UNCHANGED <<heapVars, root, work, phase>>
  /\ UNCHANGED result

Begin(clone) ==
  /\ status = "running" /\ phase = "returned"
  /\ doClone' = clone
  /\ BeginRefused(clone) \/ BeginCopy(clone)
  /\ UNCHANGED <<current, stateType, state, fresh, tick, origin, registryVars>>

Walking == status = "running" /\ phase = "walk" /\ work # << >>

call == Head(work)
rest == Tail(work)
value == mem[call.addr].words[call.index]
variant == value[1] + 1

\* The word the call is about becomes x; the other cells stay.
Written(m, addr, index, x) == [m EXCEPT ![addr].words[index] = x]

FieldVisits(fields) ==
  [i \in DOMAIN fields |-> Visit(call.addr, call.index + fields[i].offset, fields[i].type)]

Fail(code) == result' = code /\ phase' = "failed" /\ work' = << >>

\* Nothing to do but the calls in front of the rest.
Continue(calls) ==
  /\ work' = calls \o rest
  /\ UNCHANGED <<heapVars, phase, result>>

VisitScalar == Kind(call.type) = "scalar" /\ Continue(<< >>) /\ UNCHANGED status

VisitRecord ==
  /\ Kind(call.type) = "record"
  /\ Continue(FieldVisits(TypeInfo[call.type].fields))
  /\ UNCHANGED status

VisitCustom ==
  /\ Kind(call.type) = "custom"
  /\ variant \in DOMAIN TypeInfo[call.type].variants
  /\ Continue(FieldVisits(TypeInfo[call.type].variants[variant]))
  /\ UNCHANGED status

\* `illegal variant index', and the variant is read all the same.
VisitNoVariant ==
  /\ Kind(call.type) = "custom"
  /\ variant \notin DOMAIN TypeInfo[call.type].variants
  /\ status' = IF ErrorTraps THEN "trap" ELSE "fault"
  /\ UNCHANGED <<heapVars, phase, work, result>>

\* Mutants of VisitAlias: what it stands for is not visited; it is visited again.
VisitAliasOnly == Kind(call.type) = "alias" /\ Continue(<< >>) /\ UNCHANGED status
VisitAliasAgain == Kind(call.type) = "alias" /\ Continue(<<call>>) /\ UNCHANGED status

VisitAlias ==
  /\ Kind(call.type) = "alias"
  /\ Continue(<<Visit(call.addr, call.index, TypeInfo[call.type].item)>>)
  /\ UNCHANGED status

\* `not supported in this version': where that only logs, the word stays.
VisitUnsupported == Kind(call.type) = "unsupported" /\ Trap /\ Continue(<< >>)

VisitFunction ==
  /\ Kind(call.type) = "function"
  /\ Fail(-1)
  /\ UNCHANGED <<heapVars, status>>

\* A cell is copied: the struct, then what is behind it.
copy == NextAddress(target)
CopyCell ==
  /\ value \in DOMAIN mem
  /\ mem[value].itemAlign # 0 /\ Fits(target)
  /\ OneMoreIn(target)
  /\ UNCHANGED <<phase, result, status>>

\* There is nothing behind the pointer, the allocation of the items divides by
\* an item align of 0, or the target arena has no room.
CopyStops ==
  /\ Kind(call.type) \in {"octets", "list"}
  /\ \/ value \notin DOMAIN mem /\ status' = "fault"
     \/ /\ value \in DOMAIN mem /\ mem[value].itemAlign = 0
        /\ status' = IF ErrorTraps THEN "trap" ELSE "fault"
     \/ value \in DOMAIN mem /\ mem[value].itemAlign # 0 /\ ~Fits(target) /\ Overrun
  /\ UNCHANGED <<heapVars, phase, work, result>>

\* Mutant of VisitOctets: the pointer is not replaced.
VisitOctetsNoPointer ==
  /\ Kind(call.type) = "octets"
  /\ CopyCell
  /\ mem' = WithCell(target, mem[value])
  /\ work' = rest

\* A String or Blob: the pointer is replaced at once.
VisitOctets ==
  /\ Kind(call.type) = "octets"
  /\ CopyCell
  /\ mem' = Written(WithCell(target, mem[value]), call.addr, call.index, copy)
  /\ work' = rest

\* Mutant of VisitList: the items of the old list are visited.
VisitListOldItems ==
  /\ Kind(call.type) = "list"
  /\ CopyCell
  /\ mem' = WithCell(target, mem[value])
  /\ LET cell == mem[value]
         item == TypeInfo[call.type].item
     IN work' = [i \in 1 .. cell.count |->
                   Visit(value, (i - 1) * cell.itemSize + 1, item)]
                \o <<Store(call.addr, call.index, call.type, copy)>> \o rest

\* A List or Array: a call for each item of the copy, then the pointer.
VisitList ==
  /\ Kind(call.type) = "list"
  /\ CopyCell
  /\ mem' = WithCell(target, mem[value])
  /\ LET cell == mem[value]
         item == TypeInfo[call.type].item
     IN work' = [i \in 1 .. cell.count |->
                   Visit(copy, (i - 1) * cell.itemSize + 1, item)]
                \o <<Store(call.addr, call.index, call.type, copy)>> \o rest

\* swampUnmanagedMemoryMove: the object changes owner, the pointer stays.
MoveUnmanaged ==
  /\ Kind(call.type) = "unmanaged" /\ ~doClone
  /\ Registry!Move(target, current, value)
  /\ UNCHANGED origin
  /\ Continue(<< >>)

\* The clone function of an object that was destroyed under the state is called
\* (MoveNotOwned can lead to it), or the word is no object at all.
VisitFreed ==
  /\ Kind(call.type) = "unmanaged"
  /\ value \notin IF doClone THEN Registry!Live ELSE allocated
  /\ status' = "fault"
  /\ UNCHANGED <<heapVars, phase, work, result>>

\* Mutant of CloneUnmanaged: the pointer is not replaced.
CloneNoPointer(o) ==
  /\ Kind(call.type) = "unmanaged" /\ doClone
  /\ value \in Registry!Live
  /\ Registry!Allocate(target, o) /\ noDestroy' = noDestroy
  /\ origin' = [origin EXCEPT ![o] = origin[value]]
  /\ work' = rest
  /\ UNCHANGED <<heapVars, phase, result>>

\* The host's clone function: a new object registered with the target.
CloneUnmanaged(o) ==
  /\ Kind(call.type) = "unmanaged" /\ doClone
  /\ value \in Registry!Live
  /\ Registry!Allocate(target, o) /\ noDestroy' = noDestroy
  /\ origin' = [origin EXCEPT ![o] = origin[value]]
  /\ mem' = Written(mem, call.addr, call.index, o)
  /\ work' = rest
  /\ UNCHANGED <<used, phase, result>>

\* The registry has no room: the clone function fails (-4 is the host's code).
CloneFails ==
  /\ Kind(call.type) = "unmanaged" /\ doClone
  /\ value \in Registry!Live
  /\ Registry!AllocateFull(target)
  /\ Fail(-4)
  /\ UNCHANGED <<heapVars, origin>>

\* Mutant of StorePointer: the list is left at its old items.
StoreForgotten == work' = rest /\ UNCHANGED <<heapVars, phase, result, status>>

\* The assignment after the loop over the items.
StorePointer ==
  /\ mem' = Written(mem, call.addr, call.index, call.cell)
  /\ work' = rest
  /\ UNCHANGED <<used, phase, result, status>>

Walk ==
  /\ Walking
  /\ \/ call.op = "store" /\ StorePointer /\ UNCHANGED <<registryVars, origin>>
     \/ /\ call.op = "visit"
        /\ \/ VisitScalar \/ VisitRecord \/ VisitCustom \/ VisitNoVariant \/ VisitAlias
           \/ VisitUnsupported \/ VisitFunction \/ VisitOctets \/ VisitList \/ CopyStops \/ VisitFreed
        /\ UNCHANGED <<registryVars, origin>>
     \/ call.op = "visit" /\ (MoveUnmanaged \/ (\E o \in Objects : CloneUnmanaged(o)) \/ CloneFails)
  /\ UNCHANGED <<current, stateType, state, doClone, root, fresh, tick>>

\* The outermost call returns.
Finish ==
  /\ status = "running" /\ phase = "walk" /\ work = << >>
  /\ phase' = "done" /\ result' = 0
  /\ UNCHANGED <<heapVars, current, stateType, state, doClone, root, work, fresh, tick, origin,
                 registryVars, status>>

-----------------------------------------------------------------------------
\* Mutant of Swap: the old arena keeps its bump pointer.
SwapWithoutReset ==
  /\ status = "running" /\ phase = "done"
  /\ current' = target
  /\ state' = mem[root].words
  /\ mem' = [x \in {y \in DOMAIN mem : y[1] # current} |-> mem[x]]
  /\ phase' = "main" /\ root' = << >> /\ doClone' = FALSE
  /\ fresh' = 0 /\ tick' = tick + 1
  /\ Registry!Reset(current)
  /\ UNCHANGED <<used, stateType, work, result, origin>>

(* The host: the arenas change places, the old one is reset with its        *)
(* registry, the copy is the state the next tick is given.                  *)
Swap ==
  /\ status = "running" /\ phase = "done"
  /\ current' = target
  /\ state' = mem[root].words
  /\ mem' = [x \in {y \in DOMAIN mem : y[1] # current} |-> mem[x]]
  /\ used' = [used EXCEPT ![current] = 0]
  /\ phase' = "main" /\ root' = << >> /\ doClone' = FALSE
  /\ fresh' = 0 /\ tick' = tick + 1
  /\ Registry!Reset(current) \/ \E i \in Registry!Slots : Registry!ResetStops(current, i)
  /\ UNCHANGED <<stateType, work, result, origin>>

\* The copy failed: the host tries again, with the state it still has.
Retry ==
  /\ status = "running" /\ phase = "failed"
  /\ phase' = "returned"
  /\ UNCHANGED <<heapVars, current, stateType, state, doClone, root, work, result, fresh, tick,
                 origin, registryVars, status>>

Next ==
  \/ \E t \in Types :
       (\E c \in Characters : NewOctets(t, c)) \/ NewList(t) \/ NewEmptyList(t)
  \/ \E o \in Objects : NewObject(o)
  \/ Return
  \/ \E clone \in BOOLEAN : Begin(clone)
  \/ Walk
  \/ Finish
  \/ Swap
  \/ Retry

Spec == Init /\ [][Next]_vars

\* compactOrClone is a loop of its own: nothing else runs until it returns.
FairSpec == Spec /\ WF_vars(Walk) /\ WF_vars(Finish)

-----------------------------------------------------------------------------
Address == UNION {{<<a, n>> : n \in 1 .. used[a]} : a \in Arenas}

TypeOK ==
  /\ DOMAIN mem = Address
  /\ used \in [Arenas -> 0 .. MaxCells]
  /\ current \in Arenas
  /\ stateType \in StateTypes
  /\ phase \in {"main", "returned", "walk", "done", "failed"}
  /\ doClone \in BOOLEAN
  /\ root \in Address \cup {<< >>}
  /\ \A i \in DOMAIN work : work[i].addr \in Address
  /\ result \in -4 .. 0
  /\ origin \in [Objects -> Objects]
  /\ Registry!TypeOK

(* A copy writes to the copy only: while it runs, no cell of the current    *)
(* arena changes, so the state `main' returned, which a failed copy leaves  *)
(* the host with, is what it was.                                           *)
SourceUntouched ==
  [][(phase \in {"returned", "walk"}) =>
       \A x \in DOMAIN mem : x[1] = current => (x \in DOMAIN mem' /\ mem'[x] = mem[x])]_vars

CellsOf(a) == {x \in DOMAIN mem : x[1] = a}
WordsOf(cells) == UNION {{mem[x].words[i] : i \in DOMAIN mem[x].words} : x \in cells}
Copied == status = "running" /\ phase = "done"

(* A finished copy is whole: no word of it points anywhere but into the     *)
(* target arena, which the reset of the old arena spares, and every object  *)
(* it refers to is owned by the registry of the target.  A clone moreover   *)
(* shares no cell and no object with the state it was made of: either can   *)
(* be dropped and the other goes on.                                        *)
StaysIn(a, w) ==
  /\ w \in Pointers => w \in DOMAIN mem /\ w[1] = a
  /\ w \in Objects => Registry!Owns(a, w)

SharesNothing ==
  (WordsOf(CellsOf(target)) \cap (WordsOf(CellsOf(current)) \cup StateWords))
    \cap (Pointers \cup Objects) = {}

CopyIsSelfContained ==
  ErrorTraps /\ Copied =>
    /\ \A w \in WordsOf(CellsOf(target)) : StaysIn(target, w)
    /\ doClone => SharesNothing

(* Between ticks, and as long as the program runs, the state and the cells  *)
(* of the arena dangle nowhere: all of it is in the arena and in the        *)
(* registries in use.                                                       *)
StateIsAlive ==
  ErrorTraps /\ status = "running" /\ phase \in {"main", "returned"} =>
    \A w \in WordsOf(CellsOf(current)) \cup StateWords :
      /\ w \in Pointers => w \in DOMAIN mem /\ w[1] = current
      /\ w \in Objects => w \in Registry!Live

\* What a cell of the copy was made of: a cell, or the state itself.
Original(y) == IF y = << >> THEN CellOf(stateType, state, 1, SizeOf(stateType), 1) ELSE mem[y]

\* The word w of the copy stands for the word v of the state.
StandsFor(from, w, v) ==
  /\ v \in Pointers => w \in DOMAIN from /\ from[w] = v
  /\ v \in Objects => w \in Objects /\ origin[w] = origin[v] /\ (~doClone => w = v)
  /\ v \notin Pointers \cup Objects => w = v

IsCopy(from) ==
  /\ from[root] = << >>
  /\ \A x \in DOMAIN from : LET old == Original(from[x]) IN
       /\ [mem[x] EXCEPT !.words = old.words] = old
       /\ DOMAIN mem[x].words = DOMAIN old.words
       /\ \A i \in DOMAIN old.words : StandsFor(from, mem[x].words[i], old.words[i])

(* A finished copy is the state again: its cells can be matched with those  *)
(* of the state, the root with the state itself, such that all that is no   *)
(* reference is the same and every reference leads to the match of what it  *)
(* led to, a clone's objects to objects cloned from the same one.  So the   *)
(* program sees the same value in both, however deep it looks.              *)
CopyIsFaithful ==
  ErrorTraps /\ Copied => \E from \in [CellsOf(target) -> CellsOf(current) \cup {<< >>}] : IsCopy(from)

(* Whatever is compacted, cloned, swapped and retried: an object is in one  *)
(* registry, none is lost, none is freed under the registry that holds it.  *)
RegistryIsSound == Registry!OneOwner /\ Registry!NoneLost /\ Registry!NoFreedObjectHeld

(* A copy ends: compactOrClone returns, or the process stops.               *)
CopyEnds == (phase = "walk") ~> (phase # "walk" \/ status # "running")

(* An object that swampCompact moves is owned by the registry it comes from *)
(* (`did not own that pointer' is an error).                                *)
OwnsWhatItMoves ==
  (Walking /\ ~doClone /\ call.op = "visit" /\ Kind(call.type) = "unmanaged") =>
    Registry!Owns(current, value)

(* A list or array that is copied has an align its items can be allocated   *)
(* with (`illegal align' is an error).                                      *)
AlignIsLegal ==
  (Walking /\ call.op = "visit" /\ Kind(call.type) = "list") => mem[value].itemAlign # 0

=============================================================================
