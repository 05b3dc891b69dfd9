# A formal model of the Swamp runtime (C)

The repository is a C99 runtime for the Swamp language: a virtual machine, the memory it works in, the
library of native functions it calls and the loader of its packages. It is sequential, has no tests and a
one-line README; the source is the only reference. Paths below are relative to `src/src/`.

## 1. The system

| Component | Source | State it keeps | Operations |
|---|---|---|---|
| Dynamic memory | `lib/dynamic_memory.c` | an arena, a bump pointer `p`, a debug ledger | init, alloc, alloc with a ledger entry, reset |
| Unmanaged memory | `lib/context.c` 24-154 | a registry: 32 slots of host objects and a count | allocate, move to another registry, owns, reset/destroy |
| Memory reclamation | `lib/compact.c`, `lib/is_blittable.c` | none of its own; reads one arena, fills the other | `swampCompact`, `swampClone`, `swampIsBlittableOrEcs` |
| Interpreter | `lib/swamp.c`, `lib/types.c` | the call stack of a run, `pc`, `bp`, the registers behind `bp` | `swampRun`: about 60 opcodes |
| Contexts | `lib/context.c` 156-216 | a stack, a call stack, a `tempResult` buffer, references to the memories | init, reset, destroy, create and destroy of a temporary context |
| Execution from the host | `lib/execute.c` | - | lays a call out on a context's stack and runs it |
| Values | `lib/swamp_allocate.c` | - | allocates strings, lists, arrays, blobs, functions, curried functions |
| Core library | `lib/core/*.c` | - | native functions: `List`, `Blob`, `Array`, `Maybe`, `Math`, `Int`, `Char`, `String`, `Debug` |
| Loader | `lib/unpack.c`, `lib/ledger.c`, `lib/fixup.c`, `lib/static_memory.c` | the blocks of a package (types, constants, ledger) and the fields that point to them | unpack, fix pointers up, bind host functions, look functions up by name, free |
| Debug information | `lib/debug.c`, `lib/debug_variables.c`, `lib/core/debug.c` | - | line and variable lookups over the call stacks, `Debug.log`, `Debug.panic` |
| Example host | `examples/main.c` | two arenas | the game loop: run, clone the state, swap the arenas, reset |

A tick of a program: the host lays the arguments out on the stack of a context and runs `main`; `main`
allocates in the current arena, calls native functions that may run Swamp functions again in a temporary
context, and returns a state; the host compacts or clones the state into the other arena, swaps the two and
resets the old one. Functions and constants come from a package that the loader unpacked into static memory.

Two kinds of check stop the process. `CLOG_ERROR` (external: clog) logs, and stops in builds where clog
breaks: `errorTraps` (a variable that `Init` chooses, or the constant `ErrorTraps`) says which build is
modelled. `SWAMP_ERROR`, `SWAMP_LOG_ERROR` and `SWAMP_ASSERT` abort in every build. A stopped process is a
`status`: `"trap"` (CLOG_ERROR), `"abort"`, or `"fault"` for what C leaves undefined (a division by zero, a
write behind an array, a pointer run as opcodes). Nothing runs after a status other than `"running"`.

## 2. Inventory

**Dynamic memory.** `p` bumps through the arena; the align is checked, the padding added, the size checked, the
end checked. Only a reset gives octets back. Hard: the order of these steps over long sequences of accepted and
refused requests, sums of `size_t` that wrap, the align 0 of an empty list, the ledger of 512 entries. Correct:
two blocks never share an octet; every block is aligned; the checks come before every bad division or write.

**Unmanaged memory.** Each arena has a registry of 32 slots. A compaction moves an object from one to the
other (`Forget`, then `Add`); a reset destroys what a registry holds. Hard: a target that is full after the
source forgot, an object moved twice, a destroy function that is missing or fails in the middle of a reset.
Correct: the count is the number of occupied slots; an object has one owner, is never lost and is destroyed once.

**Memory reclamation.** `compactOrClone` walks the state by its type, copies every string, blob and list into
the other arena and replaces the pointers, and moves or clones unmanaged objects. Hard: the order of copy,
recursion and store; aliases, records and variants in each other; a copy refused half-way; a shared list, a
shared object, an empty list. Correct: the copy is whole, shares nothing it must not share, has the value of
the state, and leaves the state alone.

**Interpreter and contexts.** `swampRun` keeps `pc` and `bp` of the running function in C locals and saves
them in a call stack entry where it calls. A host function may run a Swamp function in a nested `swampRun` on
a temporary context of its own. Hard: nested runs in the middle of an instruction, partial applications, runs
that are refused, the limit of the call stack, what a debugger reads in the meantime. Correct: a return goes
on where the call was; contexts are never shared between runs; the entries the debug lookups walk are written
and agree with the run.

**Higher order functions of List and Blob.** Sixteen functions lay arguments out at the base pointer of a
temporary context, run the function and read its result there. Hard: what runs of the argument do to shared
blobs and to `tempResult`, which all contexts share; accumulators that live at the base pointer. Correct: maps
are pointwise, folds thread the accumulator, searches stop at the first hit, concatMap concatenates.

**Layout of arguments.** Each of the native functions that run an argument computes by hand where the
arguments go behind the base pointer: alignment, the closed-over argument of a partial application, the size of
what is copied back. Hard: types of mixed size and alignment, closures. Correct: the function finds its
arguments where the compiler expects them.

**Loader.** `swampUnpackFilename` copies three chunks of a file to blocks and walks the ledger, adding the
address of the constants to every pointer in place and asking the host for its functions. Hard: a second
fixup, a refusal half-way (by a chunk or by a missing function) over a package loaded before, empty chunks, a
free with nothing to free. Correct: an accepted package has each pointer relocated once and every host function
bound; no block is lost; a fault has a cause the host can avoid.

**Other functions of the core library and opcodes that compute.** One call each: integers of 32 bits that
wrap, divisions, shifts, angles, list and array indices, blobs in two dimensions with dimensions given by the
caller, the offsets of jump tables. Hard: both ends of the integer range, negative dividers and counts, wrong
dimensions, an area outside the blob, a value without a case. Correct: the result is what the name says wherever
nothing overflows, and what is written outside is nothing.

**Debug information.** Place and variables of an opcode are looked up in sorted tables. Hard: positions of 16
bits, entries without a place, files that are not known, more variables than there is room for. Correct: the
place is that of the nearest entry before the opcode; the variables are those alive there.

The hazards of each part, at their lines and with the properties that cover them, are the list `hazards` of
`PROJECT.json`.

## 3. Modules

| Module | Models | Uses |
|---|---|---|
| `DynamicMemory` | `dynamic_memory.c` | - |
| `UnmanagedMemory` | `context.c` 24-154 | - |
| `Compact` | `compact.c`, `is_blittable.c`, allocation of `swamp_allocate.c`, the loop of `examples/main.c` | `UnmanagedMemory` (instance `Registry`, one registry per arena) |
| `Reclamation` | abstract: what a tick keeps of a state and its objects | - |
| `CompactValues` | the trees of values that `Compact`'s words stand for, and the properties about them | `Compact`, `Reclamation` (instance `Promise`) |
| `Subroutines` | abstract: calls and returns, without entries and contexts | - |
| `Machine` | control flow of `swamp.c`, contexts of `context.c`, `execute.c`, a generic higher order host function | `Subroutines` (instance `Abstract`) |
| `HigherOrder` | `core/list.c` and `core/blob.c`, the functions that run an argument | - |
| `Catalog` | abstract: what loading promises the host | - |
| `Loader` | `unpack.c`, `fixup.c`, `ledger.c` | `Catalog` (instance `Abstract`) |
| `Outcomes` | how a call ends; 32-bit integers; `swampPanic`, allocation | - |
| `CoreMath` | `core/math.c`, `core/int.c`, `core/char.c` | `Outcomes` |
| `CoreCollections` | the functions of `core/list.c`, `core/array.c`, `core/maybe.c` that run no argument | `Outcomes` |
| `CoreBlob` | the functions of `core/blob.c` that run no argument | `Outcomes` |
| `DebugInfo` | `debug.c`, `debug_variables.c`, `core/debug.c` | `Outcomes` |
| `Opcodes` | the opcodes of `swamp.c` that compute, jump tables | `CoreMath` |
| `Frames` | the layout of arguments in `list.c`, `blob.c`, `maybe.c`, `swampExecutePrepare` | `Outcomes` |
| `CoreCalls` | one action per native function or opcode of the six modules above | all of them |
| `CoreProperties` | properties of `CoreCalls` | `CoreCalls` |
| `*_proofs` | theorems | the module they are about |
| `MC*` | constants for TLC | |

**DynamicMemory.** `p`, `ledgerCount` are the fields of `SwampDynamicMemory`; `blocks` records what was handed
out since the last reset. `Alloc` and `AllocDebug` are the two calls; each has one disjunct per outcome of
`swampDynamicMemoryAlloc` (`AllocTraps`, `AllocDividesByZero`, `AllocOverruns`, `AllocReturns`), with the
arithmetic modulo `Word`, as of a `size_t`.

**UnmanagedMemory.** `slots` and `count` are `unmanaged[]` and `count`; `destroyed`, `destroyedAgain` and
`noDestroy` are the host's side. `Move` is Forget and Add in the order of the code, with its three outcomes;
`ResetStops` is a reset that ends in the middle, at an object
whose destroy function failed and which its slot still holds.

**Compact.** Memory is measured in cells: a struct and the items behind it, which the code allocates together
(so an overrun between the two allocations is one overrun). `compactOrClone` is recursive C; here `work` is
its stack of calls, and `Walk` is the next call: a `"visit"` of a word with its type, or the `"store"` that
follows the recursion over the items of a list. `Begin` is `swampCompact`/`swampClone` up to the walk, with
the check of `is_blittable.c`; `Finish` is what follows. The program's steps (`NewOctets`, `NewList`,
`NewEmptyList`, `NewObject`, `Return`) build states out of whatever is alive, so values share parts. `Swap` is
the host: the arenas change places and the old one is reset. Types that refer to themselves are left out: the
type walk of `is_blittable.c` would not end on them. Sizes and offsets of types are in words, and
`LayoutAssumption` says what the compiler that writes them does: fields follow each other, a custom type has
its variant's number in front and room for its largest variant. `WordsAssumption` says that a word tells what
it is, as the type it is read with does in the code. A visit of an object that no registry holds any more
(`VisitFreed`) happens where errors only log: a shared object is owned twice after a compaction, a reset frees
it, and a clone of the state visits it.

**Machine.** The C stack is state: `runs` are the activations of `swampRun` (context, entry index, `pc`, `bp`),
`hosts` those of host functions. `entries` and `count` are the call stacks of all contexts. Opcodes that only
compute are left out; the operands that are Swamp values are chosen from those an instruction names.
`CallExternalWithSizes` is the opcode that saves `pc` before the host runs, `CallExternal` the one that does not.
`HasDebugInfo` says whether the host gave its context the debug infos that `swampContextCreateTemp` wants.

**HigherOrder.** A stack of calls of the sixteen functions; `StartRun` lays arguments out, `RunReturns*` is
the rest of the loop body for any value the argument may return, and between the two other calls may begin and
return. `was`, `log` and `during` are history variables that the properties compare results with. Items have
one size, and `tempResult` is measured in items; what is in it is forgotten after the outermost call, since no
call reads there what it did not write. A run that `swampRun` refuses (mapToBlob and Blob.any with a
partial application) leaves what is at the base pointer as its result.

**Loader.** `stage` is where `swampUnpackFilename` is, with one action per chunk read and one per kind of ledger
entry. A package is the sequence of its ledger entries with the pointers each relocates; a pointer is the number
of times an address was added to it, so 0 is an offset and 2 is garbage. `self` are the fields of `SwampUnpack`,
`heap` the live blocks by number. What the raff library makes of a chunk (right, wrong, empty) is a free choice,
as are the names the host resolves and whether the `SwampUnpack` was zero before. `calls` and `mishaps` are
history. `Catalog` is what the host sees: it asks for a table of functions and gets a whole one or a refusal.

**CoreCalls and what it uses.** Every native function is an operator from arguments to an outcome: returned with
a value, returned with the result not written, or stopped; where C leaves the result undefined, to a set of
outcomes. `CoreCalls` has an action per function over small sets of arguments, remembers the last call, and keeps
the one state that calls can leave behind, the octets of blobs. `CoreProperties` states what the functions
promise without their definitions: divisibility instead of division, areas of pixels instead of loops. Where a
signature or comment in the code promises what the function does not do, the promise is an operator of its own that
TLC refutes (section 7), and the properties of the run do not speak of that result. Integers
are of `WordBits` bits, `Half` being the power of two before the last; the sines are a constant table, which in
the code `sinf` fills, and the pseudo random number is a constant operator. `Frames` measures in octets and takes a function's types
apart into size and alignment; `ArgumentsArrive` compares with where the compiler puts parameters.

## 4. Runs

| Run | Bounds | Shows |
|---|---|---|
| `DynamicMemory_builds` | arena of 12 octets, `Word` 64, `TooLarge` 20, ledger of 4, at most 5 blocks, ten kinds of request | `TypeOK`, `BlocksDisjoint`, `BlocksAligned`, `ChecksPreventFault`, `OnlyResetFrees`, in four builds |
| `UnmanagedMemory_builds` | two registries of two slots, four objects | `TypeOK`, `CountIsOccupied`, `OneOwner`, `NoneLost`, `DestroyedAtMostOnce`, `NoFreedObjectHeld`, in two builds |
| `Compact_debug` | two arenas of four cells, three objects, registries of two, lists of up to two items, two allocations a tick, two ticks, seven types of state over every kind of type | `TypeOK`, `CopyIsFaithful`, `CopyIsSelfContained`, `StateIsAlive`, `RegistryIsSound`, `SourceUntouched`, implements `Reclamation` |
| `Compact_release` | as above with registries of one, errors only log, fair | `CopyEnds` |
| `Machine_debug` | three functions, four host functions, two closures, call stacks of three entries, frames of two, a root and two temporary contexts | five invariants, implements `Subroutines` |
| `HigherOrder_calls` | lists of up to three items, a blob of two octets, five widths, a buffer of four items, calls two deep, one nested call per call | the four laws of maps, folds, searches and concatMap, in two builds |
| `Loader_packages` | four packages of up to six entries, four pointers, two host functions, three calls of the host | `TypeOK`, `AcceptedIsReady`, `FaultsHaveACause`, `NothingIsLost`, implements `Catalog`, in both builds |
| `Core_calls` | integers of 21 bits, 13 of them as arguments, 32 angles, lists of up to three items and one of 2049, blobs of four and six octets, an arena of 16 items, positions of 3 bits, room for 2 variables, seven item types | `ScalarsMatch`, `CollectionsMatch`, `LookupsMatch`, `BlobsMatch`, `ArgumentsArrive`, in both builds |
| `Compact_shared`, `Compact_empty`, `Machine_partial`, `HigherOrder_clobbered` | as above | violations: section 7 |

Why the bounds are enough to see the interesting cases: two of the larger requests fill the arena, so every
outcome of an allocation happens after every other; two slots make a registry full, leave a gap in front of an
object, and let a reset stop with objects before and behind the slot; two ticks copy a copy, so that a state
that survived one swap by luck dangles at the second; three entries are a call inside a call with the limit
behind it, and two temporary contexts are a host function inside a host function. Three calls of the host are
an accepted package, a refusal over it and a free, in every order. 21 bits hold a thousand fixed point units
and leave products that wrap; the arguments are both ends of the range, the numbers around 0
and around a fixed point unit; two rows and two columns tell rows from columns; the seven types are those whose
sizes and alignments order the arguments of a frame in every way. `Core_calls` makes one call in a behaviour:
the functions share no state but the octets of blobs, and a second call finds only other
octets (`BlobsAreRight` is for any number of calls). `MaxFresh`,
`MaxItems`, `MaxTicks`, `MaxBlocks`, `MaxDepth`, `MaxNested` and `MaxCalls` are bounds of the models; the
capacities are the code's limits, scaled down. `CHECK_DEADLOCK` is off everywhere since a stopped process, or one that used up a bound,
has no next step. Symmetry is used for objects and registries and for temporary contexts, which the modules
never tell apart (not in runs that check liveness).

Fairness. `Compact` has liveness for `compactOrClone`: `FairSpec` has weak fairness of `Walk` and `Finish`, as
one loop of one thread that nothing interrupts. `Loader` has weak fairness of what goes on inside
`swampUnpackFilename` (`stage # "idle" /\ Next`), for the same reason; that every request is answered is part
of `Catalog`. No fairness is assumed of the program or the host.

Each property has a mutant in a module, an operator named in a comment `Mutant of ...`: a plausible error in
the code under which TLC finds the property violated.

## 5. Proofs

All theorems are for every value of the constants, under the named assumptions of the modules.

- `DynamicMemory_proofs`. The inductive invariant `BumpInv` adds to the properties that the bump pointer is in
  the arena and at or behind the end of every block: `BlocksDisjoint` alone says nothing of the next block.
  `OverrunCheckIsExact` uses `SizesAssumption`: arena, padding and `TooLarge` together fit in a `size_t`, which
  is what keeps the sum of the check from wrapping once the size check passed. `OnlyAResetFrees` is about steps:
  none but a reset moves the pointer back, since the padding and the total of a request are no negative numbers
  in whatever build.
- `UnmanagedMemory_proofs`. `CountInv` (types, counts, and held objects are allocated ones) is inductive in
  every build. `OwnInv` adds the owners, and that held objects are live; it is inductive where CLOG_ERROR
  stops the process, so the invariant is `errorTraps => OwnInv`, and the build never changes. An object that is
  moved is one that was allocated: only a state's words are moved.
- `Compact_proofs`. `RegistriesAreSound` is by simulation: every step of `Compact` is a step of its registries
  or leaves them alone, so `OwnInv` is reused, not proved again. `TheSourceIsUntouched` needs `CopyInv`: every
  pending call is about a word of the target arena, and the shapes of cells that the calls it makes rely on.
  `TypeCorrect` holds in every build and adds that the cells are those below the bump pointers.
  Then what `compactOrClone` is for: a finished copy is faithful and self-contained, and what the
  state can reach between ticks is alive, where CLOG_ERROR stops the process. The three properties are about
  one invariant, `IInv == TypeInv /\ SoundInv /\ FaithInv`, and none of them is inductive alone: a copy is only
  faithful if what it copies is well typed, which at the second tick is so because the first copy was faithful.
  `FaithInv` has two parts.
  The state is good: all it refers to is in its arena or lives, and its words are what its type says. A word is
  typed without recursion over the depth of a value: `Holds(h, w, i, t)` says that place `i` with type `t` is in some
  set of places each of which is proper if those it refers to are in the set (`Laid`). Any union of such sets is
  one again, so `Held` is the largest, and a copy that keeps the words of a place keeps the place (`Transfer`).
  The copy is as far as it has come: a function `from` takes its cells to the cells of the state they were made
  of, the root to the state itself. Each word of a cell either matches the word it was made of (a pointer to a
  cell `from` takes to the old pointer, an object with its clone in `Pairs`, anything else itself), or is due: it
  is still the old word, and is in the span of just one call still on the stack. A visit takes the words of its
  type off the due ones, or hands them to the calls it makes, whose spans partition its own by
  `LayoutAssumption`; a new cell extends `from`; the store after the items matches the last word. At the end the
  stack is empty, nothing is due, and `from` is the witness of `CopyIsFaithful`. In a clone no object of the state
  is in the registry of the copy, which is why the two share nothing.
- `Machine_proofs`. `IInv` is the conjunction of the shape of the two C stacks, the ownership of contexts, the
  entries behind the running function, the places of calls to the host, and, while the process runs, the
  counts. Each theorem is a conjunct or follows from several; none is inductive alone, since a return reads
  entries that a nested run on another context must not have touched.
  `InterpreterImplementsSubroutines` is the refinement that `Machine_debug` checks on its
  small programs: the initial state is mapped to that of `Subroutines`, and every action to a call, a tail call, a
  return, a step within a frame, an end, or none. On top of `IInv`: an entry that a run does not write maps to
  the same frame before and after, because no other run is on its context.
- `HigherOrder_proofs`. `Concatenation` is of an outermost concatMap with no other in its runs and with less
  than a full buffer, since the code loses items otherwise. `IInv` says of every call on the stack, not only of the top, what its log means: the loop
  is where the log ends (`Progress`), the arguments of each run are those a map, a fold or a search gives it
  (`Maps`, `Folds`, `Search`), blobs hold what the calls wrote unless another call wrote them since
  (`BlobsHold`), and the buffer holds what the innermost concatMap gathered (`Gathering`), which a nested
  concatMap ends for all calls below it. The other four properties follow at the return of a call. Facts about all
  positions of a sequence are by the least position that fails, since the induction theorems of the library
  take an operator. The proof found an error of the model: in `Kept`, what a function into octets gathers fell
  under two cases, one that clips the value and one that does not, and a CASE may pick either; they now exclude
  each other.
- `Loader_proofs`. Five invariants on top of each other. `TypeInv` adds to the types that a call in progress is
  one the bound allows. `BlocksInv` says which fields lead to the blocks at each stage, if nothing of an earlier
  package is left: `NothingIsLost` speaks only of the moments between calls. `ReadInv` carries `AcceptedIsReady`
  through the walk of the ledger: the entries before the cursor are relocated once and bound, those behind it are
  offsets still, which needs that no two entries share a pointer (`ImagesAssumption`). `FieldsInv` keeps an
  accepted package whole while another one is refused, for `FaultsHaveACause`. `TableInv` (no new block has a
  number that a field holds; the walk keeps its promise about any ledger, also that of an earlier package) gives
  the simulation of `Catalog`, step by step: the safety part of `ImplementsCatalog`.

- `Core_proofs`. `ScalarsAreRight` is of the functions whose results are the mathematical ones: of a modulus by a
  negative divider it says that it is congruent and smaller than the divider, of cos, rnd and drunk nothing.
  `CollectionsAreRight` says nothing of what tail, range, repeat, set, slice and, but that no Just is taken for
  Nothing, `Maybe.maybe` return. Four of the five invariants of `CoreCalls` are about the last call alone, so the work is in the
  calls: one lemma per action says that the call it makes is right, and one per named part of an invariant that
  the part is not about other calls. Four arguments are more than case splits. Bits: powers of two are a
  recursive function, unfolded by `Iterates`; the number `FromBits` makes has the bits it was made of
  (`FromBitsHas`), and a bit does not change if a multiple of the word is added (`BitWord`), so that wrapping,
  shifting and complement are read off bit by bit. Angles: the bent line of `fastAtan2` is compared with the
  tangents degree by degree (`Table`), which bounds it for sides of any length (`OctantIsRight`). Lookups: the
  search for a line is the greatest entry at or before the position (`FindLinesIsRight`); the text of a panic is a
  string that ends at the first zero, so what a context without a place writes decides how much of the text is
  shown (`WrittenLine`, `BacktraceIsRight`); the offsets of a jump table add up to where the cases are
  (`CaseStarts`). Arguments: `AlignUp` is the next aligned place, and a frame is compared parameter by parameter for
  functions of one to three. Besides types, the assumptions on the constants are: the arena is smaller than the
  largest integer (the example host's is of 128 KiB), a table of lines is in the order of its opcodes and the size
  of a type is a multiple of its alignment (both as the compiler writes them), and an entry of the table of noise
  is not negative.
- `Blob_proofs`. `BlobsMatch` is not inductive alone: a call reads what other calls wrote. `BlobsAreOctets` adds
  that every blob holds octets and is no longer than the arena, so that an index of it does not wrap. An area is
  painted right if its octets are those of its columns and rows and of no other (`CellsDiffer`), for dimensions
  that are the blob's; for any others the length is kept and nothing but the target changes. The rows of copy2d
  are a recursive function of the octets before them: `AreCopied` holds after each row by induction over the
  rows, also where source and target are one blob. Where errors
  trap, whatever passes the check is such a part (`FaultIsOfPart`), and a part does not fault.

The proofs of these two modules corrected the model and its properties. The opcodes and the search for variables
were written with operators out of the prover's reach (bitwise operators, folds) and are now recursive functions.
`Blob.fromList`, `fromArray` and `toString2d` had left out their allocation. Five
clauses of `CoreProperties` held on the inputs of `Core_calls` only, and were false for others: a fixed point
division faults where its scaled dividend is the smallest integer, not where the dividend is; `Array.grab`
panics for more than 2048 items; a slice faults where position plus side wraps; the limit of `foldlstop`'s buffers is
32 octets for item and result together; the text of `toString2d` may not fit. Each is now in the inputs of the run,
apart from the slice that faults.

Only model-checked: liveness (`CopyEnds`, and that of `Catalog`), which the prover does not do, and the refinement
`KeepsTheState`, whose trees of values are a recursive operator (`CopyIsFaithful` says the same cell by cell, and
is proved). Every state invariant and action property of a passing run is proved.

## 6. What is not modelled

The decoding of operands and the opcodes that load a constant, with `swampStaticMemoryGet`, which only logs an
offset behind the buffer and returns the address all the same; the stack memory behind the base pointer, except
as the offset of a frame and of the arguments in it; the allocation of functions and closures
(`swampCurryFuncAllocate` copies fields); `String.fromInt` and everything else that formats, dumps, colours or
prints, `Debug.toString` included; the chain of name tables in `core.c`; the host's construction of its inputs
in `examples/main.c`, which is written against an older interface; allocation by `malloc` and the end of an
arena's life; functions no name table binds (`Blob.head`, `tail`, `isEmpty`, `length`) and stubs without a body;
recursive types, on which the type walk of `is_blittable.c` does not end. clog, tiny-libc, imprint, raff, flood,
swamp-typeinfo and swamp-dump are not in the repository and appear as what `src/` uses of them.

## 7. Where code and its own words disagree

Four disagreements have a run that shows them:

- `Compact_shared`: a state that refers to an object twice has it moved twice; the second move is the code's
  own error "did not own that pointer", and where that only logs the object is owned twice.
- `Compact_empty`: a list of `swampListEmptyAllocate` has align 0, which the allocation of its copy refuses
  with "illegal align".
- `Machine_partial`: mapToBlob hands `swampRun` the parameter count 1 whatever function it was given; a
  partial application of a function of two parameters is refused, and the octets at the base pointer are taken
  for results.
- `HigherOrder_clobbered`: a concatMap inside the argument of a concatMap overwrites the items gathered so far.

Eight more are visible in a single call. Each is stated as an operator, which TLC refutes within seconds as the
only invariant of the configuration named here; none is part of a property that is checked or proved:

| Operator | Configuration | What the code says | What it does |
|---|---|---|---|
| `ModulusIsNotNegative` | `Core_calls` | `Math.mod` "always returns positive results" (`math.c:260`) | negative or 0 for negative dividers |
| `CosineIsAQuarterTurnOn` | `Core_calls` | `quarterTurn` (`math.c:150`) | adds 157, where a turn is 6280 |
| `TailIsAList` | `Core_calls` | `List a -> Maybe (List a)` (`list.c:31`) | the last item |
| `RangeHasItsItems` | `Core_calls` | `Int -> Int -> List Int` (`list.c:57`) | writes through octets nobody has set, if its loop is entered |
| `RepeatIsAnArray` | `Core_calls` | `Int -> a -> Array a` (`array.c:35`) | the body of get |
| `SetHasAResult` | `Core_calls` | `set`, `slice`: `... -> Array a` (`array.c:85`, `98`) | write no result |
| `MaybeIsDecided` | `Core_calls` | `b -> (a -> b) -> Maybe a -> b` (`maybe.c:90`) | reads the Maybe as if it were a pointer to one |
| `ConcatMapFills` | `HigherOrder_clobbered` | `(a -> List b) -> List a -> List b` (`list.c:127`) | drops a list that fills the buffer exactly |

The others are in the models as the code has them, without a property that says more than the code does.

- Reclamation: a state with a function passes the check of what can be compacted and is refused half-way, after
  objects were moved.
- Higher order functions: temporary contexts get `tempResult` but not its size, so a nested concatMap guards its
  copies with an uninitialised number.
- `Maybe.maybe` copies the argument before it aligns the position (`maybe.c:108`). `List.foldlstop` runs a
  closure as opcodes, copies through two buffers of 32 octets, puts the item where the size of the result ends
  and takes the accumulator to be as large as a Maybe of it.
- Opcodes: an enum without a case and a match on integers with only a default continue at a null pointer or an
  offset from one; division by 0 and of the smallest integer by -1 fault; shifts by counts outside 0..31 and
  overlapping `MemCopy` are undefined; `SetEnum` of size 0 clears almost all of memory.
- Math: `atan2` is right within 2 degrees
  and divides by 0 when both sides are below a degree; `drunk` always returns 0; the modulus of `rnd` bounds
  nothing; a metronome is on for every negative frame and faults for a cycle of 0; `Int.round` truncates.
- List: `filterMap` is not implemented; `member` compares stored words, not values.
- Blob: dimensions that are not the blob's make the in-place functions write outside it, also where errors
  trap; a window with a side of 0 paints outside its area; a slice with two negative sides faults; position plus
  width wraps past the check; `copy2d!` onto itself overlaps.
- Panics: `swampPanic` returns to its caller where CLOG_ERROR and CLOG_BREAK do nothing, and the result is not
  set; a context without line information ends the text of a panic before the callers that have it.
- Debug information: positions are cut to 16 bits; entries with line or column 0 are never found; more than 64
  live variables in one frame refuse the variables of all.
- Loader: a chunk with no octets counts as read, and the walk then takes the blocks of the package before, or
  memory that was never set; a file that cannot be read goes on with an uninitialised stream; a host function of
  more than five parameters stays unbound in an accepted package where errors only log.

## 8. Plan

Done: the modules above, with proofs of every invariant and action property of the runs, and of the safety
parts of two of the three refinements (`Subroutines`, `Catalog`). What could follow:

1. `Machine`: decoding of jump tables, the opcode for currying, line lookup over the entries, as a composition
   with `Opcodes` and `DebugInfo`.
2. `KeepsTheState` by a mapping that is no recursive operator: the cells of a state up to where they are.
3. Sequences of calls of `CoreCalls` that use each other's results, beyond those on blobs.
