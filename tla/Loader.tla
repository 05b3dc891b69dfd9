------------------------------- MODULE Loader -------------------------------
(***************************************************************************)
(* Loading a package (unpack.c, fixup.c, ledger.c).  swampUnpackFilename   *)
(* reads a file, copies its three chunks to blocks of their own and has    *)
(* swampFixupLedger walk the ledger: every pointer of the package is an    *)
(* offset, and the address of the block it was copied to is added to it in *)
(* place.  The host may unpack into the same SwampUnpack again and may     *)
(* free it at any time between calls.                                      *)
(*                                                                         *)
(* A package is the sequence of the entries of its ledger.  What the raff  *)
(* library makes of a chunk is an input of the step that reads it.  A      *)
(* pointer is the number of times an address was added to it: 0 is an      *)
(* offset, 1 a pointer, more is garbage.                                   *)
(***************************************************************************)
EXTENDS Naturals, Sequences, FiniteSets

CONSTANTS
  Images,      \* the packages there are
  NoImage,     \* no package
  Pointers,    \* the pointers in their constants
  HostNames,   \* the names of host functions
  MaxCalls     \* bound on the calls of the host

Kinds == {"String", "ResourceName", "Func", "ExternalFunc",
          "ResourceNameChunk", "DebugInfoFiles", "Unknown"}
LedgerEntry == [kind : Kinds, name : STRING, parameterCount : Nat, pointers : SUBSET Pointers]

\* The packer gives every pointer to one entry of the ledger.
ASSUME ImagesAssumption ==
  \A image \in Images :
    /\ image \in Seq(LedgerEntry)
    /\ \A i, j \in DOMAIN image : i # j => image[i].pointers \cap image[j].pointers = {}
ASSUME CallsAssumption == MaxCalls \in Nat

VARIABLES
  status,         \* "running", or how the process stopped: "trap", "abort", "fault"
  errorTraps,     \* whether CLOG_ERROR stops the process in this build
  zeroed,         \* whether the memory of the SwampUnpack was zero before swampUnpackInit
  provided,       \* the names the host's bindFn resolves
  stage,          \* where swampUnpackFilename is, "idle" outside of it
  image,          \* the package in the file that is read
  stream,         \* the block with the octets of the file
  cursor,         \* swampFixupLedger: index of the entry it is at
  entryFunc,      \* index of the last main function it saw, 0 for none
  detectedError,
  self,           \* the SwampUnpack
  heap,           \* the live blocks
  allocated,      \* how many blocks were ever allocated
  calls,          \* history: what the host called and what it got
  mishaps         \* history: unusual inputs met so far

build == <<errorTraps, zeroed, provided>>
walk == <<cursor, entryFunc, detectedError>>
vars == <<status, build, stage, image, stream, walk, self, heap, allocated, calls, mishaps>>

Unset == 0
NullEntry == [block |-> Unset, at |-> 0]
Block(content) == [image |-> content, moved |-> [p \in Pointers |-> 0], bound |-> {}]

TypeOK ==
  /\ status \in {"running", "trap", "abort", "fault"}
  /\ errorTraps \in BOOLEAN /\ zeroed \in BOOLEAN /\ provided \subseteq HostNames
  /\ stage \in {"idle", "header", "types", "constants", "ledger", "fixup"}
  /\ image \in Images \cup {NoImage}
  /\ stream \in Nat /\ allocated \in Nat
  /\ cursor \in Nat /\ entryFunc \in Nat /\ detectedError \in BOOLEAN
  /\ self \in [entry : [block : Nat, at : Nat], types : Nat, constants : Nat,
               ledger : Nat, ledgerConstants : Nat]
  /\ DOMAIN heap \subseteq 1..allocated
  /\ \A b \in DOMAIN heap :
       heap[b] \in [image : Images \cup {NoImage}, moved : [Pointers -> Nat], bound : SUBSET Nat]
  /\ calls \in Seq({"accepted", "refused", "freed"}) /\ Len(calls) <= MaxCalls
  /\ mishaps \subseteq {"unreadable", "emptyChunk"}

(***************************************************************************)
(* swampUnpackInit sets the entry and no other pointer.                    *)
(***************************************************************************)
Init ==
  /\ status = "running" /\ errorTraps \in BOOLEAN /\ zeroed \in BOOLEAN
  /\ provided \in SUBSET HostNames
  /\ stage = "idle" /\ image = NoImage /\ stream = Unset
  /\ cursor = 0 /\ entryFunc = 0 /\ detectedError = FALSE
  /\ self = [entry |-> NullEntry, types |-> Unset, constants |-> Unset,
             ledger |-> Unset, ledgerConstants |-> Unset]
  /\ heap = << >> /\ allocated = 0
  /\ calls = << >> /\ mishaps = {}

Live(b) == b \in DOMAIN heap
Fresh == allocated + 1
With(content) == [b \in DOMAIN heap \cup {Fresh} |-> IF b = Fresh THEN Block(content) ELSE heap[b]]
Without(blocks) == [b \in DOMAIN heap \ blocks |-> heap[b]]

At(here) == status = "running" /\ stage = here

Stops(how) ==
  /\ status' = how
  /\ UNCHANGED <<build, stage, image, stream, walk, self, heap, allocated, calls, mishaps>>

\* swampUnpackFilename frees the octets of the file and returns.
Returns(result, blocks) ==
  /\ stage' = "idle" /\ image' = NoImage /\ stream' = Unset
  /\ cursor' = 0 /\ entryFunc' = 0 /\ detectedError' = FALSE
  /\ heap' = [b \in DOMAIN blocks \ {stream} |-> blocks[b]]
  /\ calls' = Append(calls, result)
  /\ UNCHANGED <<status, build, allocated, mishaps>>

(***************************************************************************)
(* Reading the file and its chunks.                                        *)
(***************************************************************************)
UnpackFilename ==
  /\ At("idle") /\ Len(calls) < MaxCalls
  /\ image' \in Images /\ stage' = "header"
  /\ stream' = Fresh /\ allocated' = Fresh /\ heap' = With(NoImage)
  /\ UNCHANGED <<status, build, walk, self, calls, mishaps>>

\* A file that cannot be opened or measured leaves the stream unset, one that
\* cannot be rewound its block as well: the octets are read from anywhere.
UnpackUnreadable ==
  /\ At("idle") /\ Len(calls) < MaxCalls
  /\ \/ UNCHANGED <<heap, allocated>>
     \/ allocated' = Fresh /\ heap' = With(NoImage)
  /\ mishaps' = mishaps \cup {"unreadable"}
  /\ status' = "fault"
  /\ UNCHANGED <<build, stage, image, stream, walk, self, calls>>

\* The raff header and the header of the package chunk.
ReadHeader ==
  /\ At("header") /\ stage' = "types"
  /\ UNCHANGED <<status, build, image, stream, walk, self, heap, allocated, calls, mishaps>>

\* Mutant of Refuse: an early return that does not free the octets of the file.
RefuseEarly ==
  /\ status = "running" /\ stage \in {"header", "types", "constants", "ledger"}
  /\ stage' = "idle" /\ image' = NoImage /\ stream' = Unset /\ calls' = Append(calls, "refused")
  /\ UNCHANGED <<status, build, walk, self, heap, allocated, mishaps>>

Refuse ==
  /\ status = "running" /\ stage \in {"header", "types", "constants", "ledger"}
  /\ Returns("refused", heap) /\ UNCHANGED self

ReadTypeInformation ==
  /\ At("types") /\ stage' = "constants"
  /\ self' = [self EXCEPT !.types = Fresh]
  /\ allocated' = Fresh /\ heap' = With(NoImage)
  /\ UNCHANGED <<status, build, image, stream, walk, calls, mishaps>>

ReadConstantStaticMemory ==
  /\ At("constants") /\ stage' = "ledger"
  /\ self' = [self EXCEPT !.constants = Fresh]
  /\ allocated' = Fresh /\ heap' = With(image)
  /\ UNCHANGED <<status, build, image, stream, walk, calls, mishaps>>

\* More constants than constantStaticMemoryMaxSize.
TooMuchStaticMemory == At("constants") /\ Stops("abort")

\* Mutant of ReadLedger: the ledger is used where it is in the octets of the file.
ReadLedgerInPlace ==
  /\ At("ledger") /\ stage' = "fixup"
  /\ self' = [self EXCEPT !.ledger = stream, !.ledgerConstants = self.constants]
  /\ heap' = [heap EXCEPT ![stream].image = image]
  /\ cursor' = 1
  /\ UNCHANGED <<status, build, image, stream, entryFunc, detectedError, allocated, calls, mishaps>>

ReadLedger ==
  /\ At("ledger") /\ stage' = "fixup"
  /\ self' = [self EXCEPT !.ledger = Fresh, !.ledgerConstants = self.constants]
  /\ allocated' = Fresh /\ heap' = With(image)
  /\ cursor' = 1
  /\ UNCHANGED <<status, build, image, stream, entryFunc, detectedError, calls, mishaps>>

\* A chunk with no octets counts as read, and nothing is set.
ReadEmptyChunk ==
  /\ \/ At("types") /\ stage' = "constants" /\ UNCHANGED cursor
     \/ At("constants") /\ stage' = "ledger" /\ UNCHANGED cursor
     \/ At("ledger") /\ stage' = "fixup" /\ cursor' = 1
  /\ mishaps' = mishaps \cup {"emptyChunk"}
  /\ UNCHANGED <<status, build, image, stream, entryFunc, detectedError, self, heap, allocated, calls>>

(***************************************************************************)
(* swampFixupLedger.                                                       *)
(***************************************************************************)
Ledger == heap[self.ledger].image
Base == self.constants

\* The walk is over entries of the ledger of the constants it relocates.
Aligned == Live(self.ledger) /\ Live(Base) /\ heap[Base].image = Ledger

AtEntry == At("fixup") /\ Aligned /\ cursor \in DOMAIN Ledger
Entry == Ledger[cursor]

\* All but strings are read through the pointers that were just relocated.
Readable == Entry.kind = "String" \/ \A p \in Entry.pointers : heap[Base].moved[p] = 0

\* Mutant of Relocated: the address is subtracted.
RelocatedDown ==
  [p \in Pointers |-> heap[Base].moved[p] - IF p \in Entry.pointers THEN 1 ELSE 0]
Relocated ==
  [p \in Pointers |-> heap[Base].moved[p] + IF p \in Entry.pointers THEN 1 ELSE 0]
RelocateTo(bound) == heap' = [heap EXCEPT ![Base].moved = Relocated, ![Base].bound = bound]

Advance ==
  /\ cursor' = cursor + 1
  /\ UNCHANGED <<build, stage, image, stream, self, allocated, calls, mishaps>>

\* CLOG_ERROR: the walk goes on where it does not stop the process.
RaiseError == status' = IF errorTraps THEN "trap" ELSE "running"

FixupFunc ==
  /\ AtEntry /\ Readable /\ Entry.kind = "Func"
  /\ RelocateTo(heap[Base].bound)
  /\ entryFunc' = IF Entry.name = "main" THEN cursor ELSE entryFunc
  /\ Advance /\ UNCHANGED <<status, detectedError>>

\* Mutant of FixupExternalFunc: the case of two parameters stores nothing.
FixupExternalFuncNoCase ==
  /\ AtEntry /\ Readable /\ Entry.kind = "ExternalFunc" /\ Entry.name \in provided
  /\ Entry.parameterCount <= 5
  /\ RelocateTo(IF Entry.parameterCount = 2 THEN heap[Base].bound ELSE heap[Base].bound \cup {cursor})
  /\ Advance /\ UNCHANGED <<status, entryFunc, detectedError>>

FixupExternalFunc ==
  /\ AtEntry /\ Readable /\ Entry.kind = "ExternalFunc" /\ Entry.name \in provided
  /\ Entry.parameterCount <= 5
  /\ RelocateTo(heap[Base].bound \cup {cursor})
  /\ Advance /\ UNCHANGED <<status, entryFunc, detectedError>>

\* No field of SwampFunctionExternal takes a function of more parameters.
FixupUnsupportedFunc ==
  /\ AtEntry /\ Readable /\ Entry.kind = "ExternalFunc" /\ Entry.name \in provided
  /\ Entry.parameterCount > 5
  /\ RelocateTo(heap[Base].bound)
  /\ RaiseError
  /\ Advance /\ UNCHANGED <<entryFunc, detectedError>>

\* Mutant of FixupMissingFunc: the error is logged and not kept.
FixupMissingFuncLogged ==
  /\ AtEntry /\ Readable /\ Entry.kind = "ExternalFunc" /\ Entry.name \notin provided
  /\ RelocateTo(heap[Base].bound)
  /\ Advance /\ UNCHANGED <<status, entryFunc, detectedError>>

FixupMissingFunc ==
  /\ AtEntry /\ Readable /\ Entry.kind = "ExternalFunc" /\ Entry.name \notin provided
  /\ RelocateTo(heap[Base].bound)
  /\ detectedError' = TRUE
  /\ Advance /\ UNCHANGED <<status, entryFunc>>

FixupData ==
  /\ AtEntry /\ Readable
  /\ Entry.kind \in {"String", "ResourceName", "ResourceNameChunk", "DebugInfoFiles"}
  /\ RelocateTo(heap[Base].bound)
  /\ Advance /\ UNCHANGED <<status, entryFunc, detectedError>>

FixupUnknown ==
  /\ AtEntry /\ Readable /\ Entry.kind = "Unknown"
  /\ RaiseError
  /\ Advance /\ UNCHANGED <<heap, entryFunc, detectedError>>

\* The ledger or the constants are not there, are of another package, or hold
\* pointers that were relocated before.
FixupAstray ==
  /\ At("fixup") /\ (Aligned => cursor \in DOMAIN Ledger /\ ~Readable)
  /\ Stops("fault")

FixupEnds ==
  /\ At("fixup") /\ Aligned /\ cursor = Len(Ledger) + 1
  /\ LET refused == detectedError \/ entryFunc = 0
     IN  /\ self' = [self EXCEPT !.entry =
                       IF refused THEN NullEntry ELSE [block |-> Base, at |-> entryFunc]]
         /\ Returns(IF refused THEN "refused" ELSE "accepted", heap)

(***************************************************************************)
(* swampUnpackFree frees what the fields point to and leaves them as they  *)
(* are.  An unset field is zero or points anywhere.                        *)
(***************************************************************************)
Owned == {self.constants, self.ledger, self.types}

Free ==
  /\ At("idle") /\ Len(calls) < MaxCalls
  /\ \A b \in Owned : Live(b) \/ (b = Unset /\ zeroed)
  /\ heap' = Without(Owned) /\ calls' = Append(calls, "freed")
  /\ UNCHANGED <<status, build, stage, image, stream, walk, self, allocated, mishaps>>

FreeWild ==
  /\ At("idle") /\ Len(calls) < MaxCalls
  /\ \E b \in Owned : ~Live(b) /\ ~(b = Unset /\ zeroed)
  /\ status' = "fault" /\ calls' = Append(calls, "freed")
  /\ UNCHANGED <<build, stage, image, stream, walk, self, heap, allocated, mishaps>>

Read ==
  \/ UnpackFilename \/ UnpackUnreadable \/ ReadHeader \/ Refuse \/ ReadTypeInformation
  \/ ReadConstantStaticMemory \/ TooMuchStaticMemory \/ ReadLedger \/ ReadEmptyChunk
Fixup ==
  \/ FixupFunc \/ FixupExternalFunc \/ FixupUnsupportedFunc \/ FixupMissingFunc
  \/ FixupData \/ FixupUnknown \/ FixupAstray \/ FixupEnds
Next == Read \/ Fixup \/ Free \/ FreeWild

\* A call the host made goes on until it returns.
Spec == Init /\ [][Next]_vars /\ WF_vars(stage # "idle" /\ Next)

(***************************************************************************)
(* swampLedgerFindFunction, swampLedgerGetDebugInfoFiles and               *)
(* swampLedgerFindResourceNames: the first entry that fits, 0 for none.    *)
(***************************************************************************)
Walked == heap[self.ledgerConstants]
First(indices) ==
  IF indices = {} THEN 0 ELSE CHOOSE i \in indices : \A j \in indices : i <= j
FindFunction(name) ==
  First({i \in DOMAIN Ledger : Ledger[i].kind = "Func" /\ Ledger[i].name = name})
FindKind(kind) == First({i \in DOMAIN Ledger : Ledger[i].kind = kind})

Loaded == At("idle") /\ calls # << >> /\ calls[Len(calls)] = "accepted"

(***************************************************************************)
(* Properties.                                                             *)
(***************************************************************************)
Indices(kind) == {i \in DOMAIN Ledger : Ledger[i].kind = kind}

\* A package that was accepted is ready to run: in the constants its ledger
\* leads to, every pointer was relocated once, also those of entries after one
\* that could not be resolved in an earlier call, and every host function has
\* its pointer.  The host looks main up in the ledger and runs what it gets
\* without a check: it is found, and is the entry point unless the package has
\* several.  Two things defeat all this: a chunk with no octets, and, where
\* CLOG_ERROR only logs, a host function of more than five parameters.
AcceptedIsReady ==
  Loaded /\ mishaps = {} =>
    /\ \A i \in DOMAIN Ledger : \A p \in Ledger[i].pointers :
         Ledger[i].kind # "Unknown" => Walked.moved[p] = 1
    /\ \A i \in Indices("ExternalFunc") :
         i \notin Walked.bound => ~errorTraps /\ Ledger[i].parameterCount > 5
    /\ Indices("Unknown") # {} => ~errorTraps
    /\ self.entry.block = self.ledgerConstants
    /\ FindFunction("main") \in 1 .. self.entry.at
    /\ Cardinality({i \in Indices("Func") : Ledger[i].name = "main"}) = 1
         => self.entry.at = FindFunction("main")

\* Loading goes astray for three reasons only: a file that cannot be read, a
\* chunk with no octets, and a swampUnpackFree with no accepted package since
\* swampUnpackInit or the last swampUnpackFree.  Unpacking again after a
\* refusal, or over an accepted package, is no reason.
AcceptedSinceFree(n) ==
  \E i \in 1..n : calls[i] = "accepted" /\ \A j \in i..n : calls[j] # "freed"
FaultsHaveACause ==
  status = "fault" /\ mishaps = {} =>
    /\ calls[Len(calls)] = "freed"
    /\ ~AcceptedSinceFree(Len(calls) - 1)

\* Between calls the only blocks are those the SwampUnpack points to, unless
\* the host unpacked twice with no swampUnpackFree between: a refused package
\* leaves nothing behind that swampUnpackFree does not find.
NothingIsLost ==
  /\ At("idle")
  /\ \A i \in 1..Len(calls) - 1 : calls[i] = "freed" \/ calls[i + 1] = "freed"
  => DOMAIN heap \subseteq Owned

\* Loading implements the catalog: the host gets whole tables or refusals,
\* keeps the table it had while another package is read, and every request is
\* answered or stops the process.
Abstract == INSTANCE Catalog WITH
  phase <- IF status # "running" THEN "stopped" ELSE IF stage = "idle" THEN "idle" ELSE "busy",
  table <- IF Live(self.entry.block) THEN heap[self.entry.block].image ELSE NoImage
ImplementsCatalog == Abstract!Spec
=============================================================================
