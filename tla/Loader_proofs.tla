--------------------------- MODULE Loader_proofs ---------------------------
(* Proofs about loading, for every set of packages, host functions and       *)
(* pointers, any number of calls, and both kinds of build.                   *)
EXTENDS Loader, FiniteSetTheorems, WellFoundedInduction, TLAPS

Stages == {"idle", "header", "types", "constants", "ledger", "fixup"}
Answers == {"accepted", "refused", "freed"}
BlockRecord == [image : Images \cup {NoImage}, moved : [Pointers -> Nat], bound : SUBSET Nat]
SelfRecord ==
  [entry : [block : Nat, at : Nat], types : Nat, constants : Nat, ledger : Nat, ledgerConstants : Nat]

(* A call in progress is one of those the bound allows.                      *)
TypeInv == TypeOK /\ (stage # "idle" => Len(calls) < MaxCalls)

-----------------------------------------------------------------------------
(* Blocks. *)

LEMMA WithHasType ==
  ASSUME TypeOK, NEW content \in Images \cup {NoImage}
  PROVE  /\ DOMAIN With(content) = DOMAIN heap \cup {Fresh}
         /\ DOMAIN With(content) \subseteq 1 .. Fresh
         /\ \A b \in DOMAIN With(content) : With(content)[b] \in BlockRecord
  <1>1. Fresh \in Nat /\ Fresh > allocated /\ 1 .. allocated \subseteq 1 .. Fresh /\ Fresh \in 1 .. Fresh
    BY DEF TypeOK, Fresh
  <1>2. Block(content) \in BlockRecord
    BY DEF Block, BlockRecord
  <1>3. QED
    BY <1>1, <1>2 DEF With, TypeOK, BlockRecord

LEMMA AppendHasType ==
  ASSUME NEW s \in Seq(Answers), NEW x \in Answers, Len(s) < MaxCalls
  PROVE  Append(s, x) \in Seq(Answers) /\ Len(Append(s, x)) <= MaxCalls /\ Len(Append(s, x)) = Len(s) + 1
  BY CallsAssumption

(* A walk of the ledger changes the block of the constants, and no other.    *)
LEMMA RelocationHasType ==
  ASSUME TypeOK, NEW bound \in SUBSET Nat, RelocateTo(bound), Live(Base)
  PROVE  /\ DOMAIN heap' = DOMAIN heap
         /\ \A b \in DOMAIN heap' : heap'[b] \in BlockRecord
  <1>1. Relocated \in [Pointers -> Nat]
    <2>1. heap[Base] \in BlockRecord
      BY DEF TypeOK, Live, BlockRecord
    <2>2. QED
      BY <2>1 DEF Relocated, BlockRecord
  <1>2. \A b \in DOMAIN heap : heap[b] \in BlockRecord
    BY DEF TypeOK, BlockRecord
  <1> DEFINE block == [heap[Base] EXCEPT !.moved = Relocated, !.bound = bound]
  <1>3. block \in BlockRecord
    BY <1>1, <1>2 DEF Live, BlockRecord
  <1>4. DOMAIN heap' = DOMAIN heap /\ \A b \in DOMAIN heap : heap'[b] = IF b = Base THEN block ELSE heap[b]
    BY DEF RelocateTo, Live
  <1> HIDE DEF block
  <1>5. QED
    BY <1>2, <1>3, <1>4

-----------------------------------------------------------------------------
(* The type invariant. *)

LEMMA InitHasType == Init => TypeInv
  <1> SUFFICES ASSUME Init PROVE TypeInv
    OBVIOUS
  <1>1. heap = << >> => DOMAIN heap = {}
    OBVIOUS
  <1>2. calls = << >> => calls \in Seq(Answers) /\ Len(calls) = 0
    OBVIOUS
  <1>3. self \in SelfRecord
    BY DEF Init, SelfRecord, NullEntry, Unset
  <1>4. calls \in Seq(Answers) /\ Len(calls) <= MaxCalls
    BY <1>2, CallsAssumption DEF Init
  <1>5. /\ DOMAIN heap \subseteq 1 .. allocated
        /\ \A b \in DOMAIN heap : heap[b] \in BlockRecord
    BY <1>1 DEF Init
  <1>6. TypeOK
    BY <1>3, <1>4, <1>5 DEF Init, TypeOK, Unset, SelfRecord, BlockRecord, Answers
  <1>7. QED
    BY <1>6 DEF Init, TypeInv

LEMMA ReturnsHasType ==
  ASSUME TypeInv, stage # "idle", NEW result \in Answers, Returns(result, heap), self' \in SelfRecord
  PROVE  TypeInv'
  <1>1. calls' \in Seq(Answers) /\ Len(calls') <= MaxCalls
    BY AppendHasType DEF TypeInv, TypeOK, Returns, Answers
  <1>2. /\ DOMAIN heap' \subseteq 1 .. allocated
        /\ \A b \in DOMAIN heap' : heap'[b] \in BlockRecord
    BY DEF TypeInv, TypeOK, Returns, BlockRecord
  <1>3. QED
    BY <1>1, <1>2 DEF TypeInv, TypeOK, Returns, build, Unset, BlockRecord, SelfRecord, Answers

LEMMA ReadHasType == TypeInv /\ Read => TypeInv'
  <1> SUFFICES ASSUME TypeInv, Read PROVE TypeInv'
    OBVIOUS
  <1> USE DEF TypeInv
  <1>1. CASE UnpackFilename
    <2>1. /\ DOMAIN heap' \subseteq 1 .. allocated'
          /\ \A b \in DOMAIN heap' : heap'[b] \in BlockRecord
      BY <1>1, WithHasType DEF UnpackFilename
    <2>2. QED
      BY <1>1, <2>1 DEF UnpackFilename, At, TypeOK, build, walk, Fresh, BlockRecord
  <1>2. CASE UnpackUnreadable
    <2>1. /\ DOMAIN heap' \subseteq 1 .. allocated' /\ allocated' \in Nat
          /\ \A b \in DOMAIN heap' : heap'[b] \in BlockRecord
      BY <1>2, WithHasType DEF UnpackUnreadable, TypeOK, BlockRecord, Fresh
    <2>2. QED
      BY <1>2, <2>1 DEF UnpackUnreadable, At, TypeOK, build, walk, BlockRecord
  <1>3. CASE ReadHeader
    BY <1>3 DEF ReadHeader, At, TypeOK, build, walk
  <1>4. CASE Refuse
    BY <1>4, ReturnsHasType DEF Refuse, TypeOK, SelfRecord, Answers
  <1>5. CASE ReadTypeInformation
    <2>1. /\ DOMAIN heap' \subseteq 1 .. allocated'
          /\ \A b \in DOMAIN heap' : heap'[b] \in BlockRecord
      BY <1>5, WithHasType DEF ReadTypeInformation
    <2>2. Fresh \in Nat /\ allocated' = Fresh /\ self' = [self EXCEPT !.types = Fresh]
      BY <1>5 DEF ReadTypeInformation, TypeOK, Fresh
    <2>3. self' \in SelfRecord
      BY <2>2 DEF TypeOK, SelfRecord
    <2>4. QED
      BY <1>5, <2>1, <2>2, <2>3 DEF ReadTypeInformation, At, TypeOK, build, walk, BlockRecord, SelfRecord
  <1>6. CASE ReadConstantStaticMemory
    <2>1. /\ DOMAIN heap' \subseteq 1 .. allocated'
          /\ \A b \in DOMAIN heap' : heap'[b] \in BlockRecord
      BY <1>6, WithHasType DEF ReadConstantStaticMemory, TypeOK
    <2>2. Fresh \in Nat /\ allocated' = Fresh /\ self' = [self EXCEPT !.constants = Fresh]
      BY <1>6 DEF ReadConstantStaticMemory, TypeOK, Fresh
    <2>3. self' \in SelfRecord
      BY <2>2 DEF TypeOK, SelfRecord
    <2>4. QED
      BY <1>6, <2>1, <2>2, <2>3 DEF ReadConstantStaticMemory, At, TypeOK, build, walk, BlockRecord, SelfRecord
  <1>7. CASE TooMuchStaticMemory
    BY <1>7 DEF TooMuchStaticMemory, Stops, At, TypeOK, build, walk
  <1>8. CASE ReadLedger
    <2>1. /\ DOMAIN heap' \subseteq 1 .. allocated'
          /\ \A b \in DOMAIN heap' : heap'[b] \in BlockRecord
      BY <1>8, WithHasType DEF ReadLedger, TypeOK
    <2>2. self' \in SelfRecord /\ Fresh \in Nat
      <3>1. self \in SelfRecord /\ self.constants \in Nat /\ Fresh \in Nat
        BY DEF TypeOK, Fresh, SelfRecord
      <3>2. [self EXCEPT !.ledger = Fresh] \in SelfRecord
        BY <3>1 DEF SelfRecord
      <3>3. self' = [[self EXCEPT !.ledger = Fresh] EXCEPT !.ledgerConstants = self.constants]
        BY <1>8 DEF ReadLedger
      <3>4. QED
        BY <3>1, <3>2, <3>3 DEF SelfRecord
    <2>3. QED
      BY <1>8, <2>1, <2>2 DEF ReadLedger, At, TypeOK, build, BlockRecord, SelfRecord
  <1>9. CASE ReadEmptyChunk
    <2>1. stage' \in Stages /\ cursor' \in Nat /\ stage # "idle"
      BY <1>9 DEF ReadEmptyChunk, At, TypeOK, Stages
    <2>2. QED
      BY <1>9, <2>1 DEF ReadEmptyChunk, At, TypeOK, build, Stages
  <1>10. QED
    BY <1>1, <1>2, <1>3, <1>4, <1>5, <1>6, <1>7, <1>8, <1>9 DEF Read

(* An entry that is relocated, whatever becomes of its function.             *)
LEMMA FixupEntryHasType ==
  ASSUME TypeInv, AtEntry, NEW bound \in SUBSET Nat, RelocateTo(bound),
         Advance, status' \in {"running", "trap"}, entryFunc' \in Nat, detectedError' \in BOOLEAN
  PROVE  TypeInv'
  <1>1. /\ DOMAIN heap' = DOMAIN heap
        /\ \A b \in DOMAIN heap' : heap'[b] \in BlockRecord
    BY RelocationHasType DEF TypeInv, AtEntry, Aligned
  <1>2. QED
    BY <1>1 DEF TypeInv, TypeOK, Advance, AtEntry, At, build, BlockRecord

LEMMA FixupHasType == TypeInv /\ Fixup => TypeInv'
  <1> SUFFICES ASSUME TypeInv, Fixup PROVE TypeInv'
    OBVIOUS
  <1>1. AtEntry => heap[Base].bound \in SUBSET Nat /\ cursor \in Nat
    BY DEF TypeInv, TypeOK, AtEntry, Aligned, Live
  <1>2. TypeOK
    BY DEF TypeInv
  <1>3. CASE FixupFunc
    BY <1>1, <1>2, <1>3, FixupEntryHasType DEF FixupFunc, TypeOK, AtEntry, At
  <1>4. CASE FixupExternalFunc
    <2>1. heap[Base].bound \cup {cursor} \in SUBSET Nat
      BY <1>1, <1>4 DEF FixupExternalFunc
    <2>2. QED
      BY <1>2, <1>4, <2>1, FixupEntryHasType DEF FixupExternalFunc, TypeOK, AtEntry, At
  <1>5. CASE FixupUnsupportedFunc
    BY <1>1, <1>2, <1>5, FixupEntryHasType DEF FixupUnsupportedFunc, TypeOK, RaiseError
  <1>6. CASE FixupMissingFunc
    BY <1>1, <1>2, <1>6, FixupEntryHasType DEF FixupMissingFunc, TypeOK, AtEntry, At
  <1>7. CASE FixupData
    BY <1>1, <1>2, <1>7, FixupEntryHasType DEF FixupData, TypeOK, AtEntry, At
  <1>8. CASE FixupUnknown
    BY <1>8 DEF FixupUnknown, TypeInv, TypeOK, AtEntry, At, RaiseError, Advance, build
  <1>9. CASE FixupAstray
    BY <1>9 DEF FixupAstray, Stops, At, TypeInv, TypeOK, build, walk
  <1>10. CASE FixupEnds
    <2>1. self' \in SelfRecord
      BY <1>2, <1>10 DEF FixupEnds, TypeOK, SelfRecord, NullEntry, Unset, Base
    <2>2. PICK result \in Answers : Returns(result, heap)
      BY <1>10 DEF FixupEnds, Answers
    <2>3. QED
      BY <1>10, <2>1, <2>2, ReturnsHasType DEF FixupEnds, At
  <1>11. QED
    BY <1>3, <1>4, <1>5, <1>6, <1>7, <1>8, <1>9, <1>10 DEF Fixup

LEMMA FreeHasType == TypeInv /\ (Free \/ FreeWild) => TypeInv'
  <1> SUFFICES ASSUME TypeInv, Free \/ FreeWild PROVE TypeInv'
    OBVIOUS
  <1>1. calls' \in Seq(Answers) /\ Len(calls') <= MaxCalls
    BY AppendHasType DEF TypeInv, TypeOK, Free, FreeWild, Answers
  <1>2. /\ DOMAIN heap' \subseteq 1 .. allocated
        /\ \A b \in DOMAIN heap' : heap'[b] \in BlockRecord
    BY DEF TypeInv, TypeOK, Free, FreeWild, Without, BlockRecord
  <1>3. QED
    BY <1>1, <1>2 DEF TypeInv, TypeOK, Free, FreeWild, At, build, walk, BlockRecord, Answers

LEMMA TypeInvariant == Spec => []TypeInv
  <1>1. TypeInv /\ [Next]_vars => TypeInv'
    <2>1. TypeInv /\ UNCHANGED vars => TypeInv'
      BY DEF TypeInv, TypeOK, vars, build, walk
    <2>2. QED
      BY <2>1, ReadHasType, FixupHasType, FreeHasType DEF Next
  <1>2. QED
    BY InitHasType, <1>1, PTL DEF Spec

(* The type invariant of the loader.                                         *)
THEOREM TypeCorrect == Spec => []TypeOK
  <1>1. TypeInv => TypeOK
    BY DEF TypeInv
  <1>2. QED
    BY <1>1, TypeInvariant, PTL

-----------------------------------------------------------------------------
(* Blocks between the calls and while one is in progress.                    *)

(* The host freed what it got before it unpacked again.                      *)
Tidy == \A i \in 1 .. Len(calls) - 1 : calls[i] = "freed" \/ calls[i + 1] = "freed"

(* Nothing of an earlier package is left.                                    *)
Clear == calls = << >> \/ calls[Len(calls)] = "freed"

(* The blocks the call in progress has stored in the SwampUnpack so far.     *)
Stored ==
  CASE stage = "constants" -> {self.types}
    [] stage = "ledger" -> {self.types, self.constants}
    [] stage = "fixup" -> Owned
    [] OTHER -> {}

(* NothingIsLost is not inductive: it says nothing while a call is in        *)
(* progress, and what a call finds depends on the calls before it.           *)
BlocksInv ==
  status = "running" /\ Tidy =>
    /\ stage = "idle" => DOMAIN heap \subseteq Owned
    /\ stage = "idle" /\ Clear => DOMAIN heap = {}
    /\ stage # "idle" /\ Clear => DOMAIN heap \subseteq {stream} \cup Stored

LEMMA AppendIsTidy ==
  ASSUME calls \in Seq(Answers), NEW x \in Answers, calls' = Append(calls, x), Tidy'
  PROVE  Tidy /\ (x # "freed" => Clear /\ ~Clear')
  <1>1. /\ Len(calls) \in Nat /\ Len(calls') = Len(calls) + 1
        /\ \A i \in 1 .. Len(calls) : calls'[i] = calls[i]
        /\ calls'[Len(calls) + 1] = x
    OBVIOUS
  <1>2. Tidy
    BY <1>1 DEF Tidy
  <1>3. ASSUME x # "freed" PROVE Clear
    <2>1. CASE Len(calls) = 0
      BY <2>1 DEF Clear
    <2>2. CASE Len(calls) > 0
      <3>1. calls'[Len(calls)] = "freed" \/ calls'[Len(calls) + 1] = "freed"
        BY <1>1, <2>2 DEF Tidy
      <3>2. QED
        BY <1>1, <1>3, <2>2, <3>1 DEF Clear
    <2>3. QED
      BY <1>1, <2>1, <2>2
  <1>4. ASSUME x # "freed" PROVE ~Clear'
    BY <1>1, <1>4 DEF Clear
  <1>5. QED
    BY <1>2, <1>3, <1>4

LEMMA ReturnsLosesNothing ==
  ASSUME TypeOK, BlocksInv, status = "running", stage # "idle",
         NEW result \in {"accepted", "refused"}, Returns(result, heap), Owned' = Owned
  PROVE  BlocksInv'
  <1>1. SUFFICES ASSUME Tidy' PROVE DOMAIN heap' \subseteq Owned' /\ ~Clear'
    BY DEF BlocksInv, Returns
  <1>2. Tidy /\ Clear /\ ~Clear'
    BY <1>1, AppendIsTidy DEF Returns, TypeOK, Answers
  <1>3. DOMAIN heap \subseteq {stream} \cup Stored
    BY <1>2 DEF BlocksInv
  <1>4. Stored \subseteq Owned
    BY DEF Stored, Owned
  <1>5. QED
    BY <1>2, <1>3, <1>4 DEF Returns

LEMMA ReadLosesNothing == TypeOK /\ BlocksInv /\ Read => BlocksInv'
  <1> SUFFICES ASSUME TypeOK, BlocksInv, Read PROVE BlocksInv'
    OBVIOUS
  <1>1. CASE UnpackFilename
    BY <1>1, WithHasType DEF UnpackFilename, At, BlocksInv, Tidy, Clear, Stored
  <1>2. CASE UnpackUnreadable
    BY <1>2 DEF UnpackUnreadable, BlocksInv
  <1>3. CASE ReadHeader
    BY <1>3 DEF ReadHeader, At, BlocksInv, Tidy, Clear, Stored
  <1>4. CASE Refuse
    <2>1. Owned' = Owned
      BY <1>4 DEF Refuse, Owned
    <2>2. QED
      BY <1>4, <2>1, ReturnsLosesNothing DEF Refuse
  <1>5. CASE ReadTypeInformation
    <2>1. DOMAIN heap' = DOMAIN heap \cup {Fresh} /\ self'.types = Fresh
      BY <1>5, WithHasType DEF ReadTypeInformation, TypeOK
    <2>2. QED
      BY <1>5, <2>1 DEF ReadTypeInformation, At, BlocksInv, Tidy, Clear, Stored
  <1>6. CASE ReadConstantStaticMemory
    <2>1. DOMAIN heap' = DOMAIN heap \cup {Fresh} /\ self'.constants = Fresh /\ self'.types = self.types
      BY <1>6, WithHasType DEF ReadConstantStaticMemory, TypeOK
    <2>2. QED
      BY <1>6, <2>1 DEF ReadConstantStaticMemory, At, BlocksInv, Tidy, Clear, Stored
  <1>7. CASE TooMuchStaticMemory
    BY <1>7 DEF TooMuchStaticMemory, Stops, BlocksInv
  <1>8. CASE ReadLedger
    <2>1. /\ DOMAIN heap' = DOMAIN heap \cup {Fresh} /\ self'.ledger = Fresh
          /\ self'.types = self.types /\ self'.constants = self.constants
      BY <1>8, WithHasType DEF ReadLedger, TypeOK
    <2>2. QED
      BY <1>8, <2>1 DEF ReadLedger, At, BlocksInv, Tidy, Clear, Stored, Owned
  <1>9. CASE ReadEmptyChunk
    BY <1>9 DEF ReadEmptyChunk, At, BlocksInv, Tidy, Clear, Stored, Owned
  <1>10. QED
    BY <1>1, <1>2, <1>3, <1>4, <1>5, <1>6, <1>7, <1>8, <1>9 DEF Read

LEMMA FixupLosesNothing == TypeOK /\ BlocksInv /\ Fixup => BlocksInv'
  <1> SUFFICES ASSUME TypeOK, BlocksInv, Fixup PROVE BlocksInv'
    OBVIOUS
  <1>1. ASSUME AtEntry, Advance, DOMAIN heap' = DOMAIN heap PROVE BlocksInv'
    BY <1>1 DEF AtEntry, At, Advance, BlocksInv, Tidy, Clear, Stored, Owned
  <1>2. ASSUME NEW bound, RelocateTo(bound) PROVE DOMAIN heap' = DOMAIN heap
    BY <1>2 DEF RelocateTo
  <1>3. CASE FixupFunc
    BY <1>1, <1>2, <1>3 DEF FixupFunc
  <1>4. CASE FixupExternalFunc
    BY <1>1, <1>2, <1>4 DEF FixupExternalFunc
  <1>5. CASE FixupUnsupportedFunc
    BY <1>1, <1>2, <1>5 DEF FixupUnsupportedFunc
  <1>6. CASE FixupMissingFunc
    BY <1>1, <1>2, <1>6 DEF FixupMissingFunc
  <1>7. CASE FixupData
    BY <1>1, <1>2, <1>7 DEF FixupData
  <1>8. CASE FixupUnknown
    BY <1>1, <1>8 DEF FixupUnknown
  <1>9. CASE FixupAstray
    BY <1>9 DEF FixupAstray, Stops, BlocksInv
  <1>10. CASE FixupEnds
    <2>1. Owned' = Owned
      BY <1>10 DEF FixupEnds, Owned, TypeOK
    <2>2. PICK result \in {"accepted", "refused"} : Returns(result, heap)
      BY <1>10 DEF FixupEnds
    <2>3. QED
      BY <1>10, <2>1, <2>2, ReturnsLosesNothing DEF FixupEnds, At
  <1>11. QED
    BY <1>3, <1>4, <1>5, <1>6, <1>7, <1>8, <1>9, <1>10 DEF Fixup

LEMMA FreeLosesNothing == TypeOK /\ BlocksInv /\ (Free \/ FreeWild) => BlocksInv'
  <1> SUFFICES ASSUME TypeOK, BlocksInv, Free \/ FreeWild PROVE BlocksInv'
    OBVIOUS
  <1>1. CASE Free
    <2>1. Tidy' => Tidy
      BY <1>1, AppendIsTidy DEF Free, TypeOK, Answers
    <2>2. Tidy' => DOMAIN heap' = {}
      BY <1>1, <2>1 DEF Free, At, BlocksInv, Without
    <2>3. QED
      BY <1>1, <2>2 DEF Free, At, BlocksInv
  <1>2. CASE FreeWild
    BY <1>2 DEF FreeWild, BlocksInv
  <1>3. QED
    BY <1>1, <1>2

(* A refused package leaves nothing that swampUnpackFree does not find, and  *)
(* neither does an accepted one, if the host frees before it unpacks again.  *)
THEOREM NoBlockIsLost == Spec => []NothingIsLost
  <1>1. Init => BlocksInv
    <2>1. heap = << >> => DOMAIN heap = {}
      OBVIOUS
    <2>2. QED
      BY <2>1 DEF Init, BlocksInv
  <1>2. TypeOK /\ BlocksInv /\ [Next]_vars => BlocksInv'
    <2>1. BlocksInv /\ UNCHANGED vars => BlocksInv'
      BY DEF BlocksInv, Tidy, Clear, Stored, Owned, vars, build, walk
    <2>2. QED
      BY <2>1, ReadLosesNothing, FixupLosesNothing, FreeLosesNothing DEF Next
  <1>3. BlocksInv => NothingIsLost
    BY DEF BlocksInv, NothingIsLost, At, Tidy
  <1>4. QED
    BY <1>1, <1>2, <1>3, TypeCorrect, PTL DEF Spec

-----------------------------------------------------------------------------
(* Relocation.                                                               *)

(* The constants of the package that is read are in a block of their own.    *)
HasConstants == Live(Base) /\ Base # stream /\ heap[Base].image = image
HasLedger ==
  /\ Live(self.ledger) /\ self.ledger # stream /\ self.ledger # Base
  /\ heap[self.ledger].image = image
  /\ self.ledgerConstants = Base

IsMain(i) == image[i].kind = "Func" /\ image[i].name = "main"

(* What is true of the entries before n when the walk is at n.               *)
RelocatedBefore(n) ==
  \A i \in DOMAIN image : \A p \in image[i].pointers :
    heap[Base].moved[p] = IF i < n /\ image[i].kind # "Unknown" THEN 1 ELSE 0
BoundBefore(n) ==
  \A i \in DOMAIN image :
    i < n /\ image[i].kind = "ExternalFunc" =>
      i \in heap[Base].bound \/ (~errorTraps /\ image[i].parameterCount > 5) \/ detectedError
KnownBefore(n) ==
  \A i \in DOMAIN image : i < n /\ image[i].kind = "Unknown" => ~errorTraps
MainBefore(n) ==
  /\ entryFunc # 0 => entryFunc \in DOMAIN image /\ entryFunc < n /\ IsMain(entryFunc)
  /\ \A i \in DOMAIN image : i < n /\ IsMain(i) => i <= entryFunc
WalkedBefore(n) ==
  RelocatedBefore(n) /\ BoundBefore(n) /\ KnownBefore(n) /\ MainBefore(n)

(* AcceptedIsReady is about the moment after a call; this is what leads to   *)
(* it while the call is in progress.                                         *)
ReadInv ==
  status = "running" =>
    /\ stage # "fixup" => entryFunc = 0
    /\ stage # "idle" => image \in Images /\ stream \in 1 .. allocated
    /\ mishaps = {} /\ stage = "ledger" =>
         HasConstants /\ \A p \in Pointers : heap[Base].moved[p] = 0
    /\ mishaps = {} /\ stage = "fixup" => HasConstants /\ HasLedger /\ WalkedBefore(cursor)

LEMMA RelocationIsExact ==
  ASSUME TypeOK, NEW bound, RelocateTo(bound), Live(Base)
  PROVE  /\ DOMAIN heap' = DOMAIN heap
         /\ \A b \in DOMAIN heap : heap'[b].image = heap[b].image
         /\ heap'[Base].bound = bound
         /\ \A p \in Pointers :
              heap'[Base].moved[p] = heap[Base].moved[p] + IF p \in Entry.pointers THEN 1 ELSE 0
  <1> DEFINE block == [heap[Base] EXCEPT !.moved = Relocated, !.bound = bound]
  <1>1. heap[Base] \in BlockRecord
    BY DEF TypeOK, Live, BlockRecord
  <1>2. /\ block.moved = Relocated /\ block.bound = bound
        /\ block.image = heap[Base].image
    BY <1>1 DEF BlockRecord
  <1>3. DOMAIN heap' = DOMAIN heap /\ \A b \in DOMAIN heap : heap'[b] = IF b = Base THEN block ELSE heap[b]
    BY DEF RelocateTo, Live
  <1> HIDE DEF block
  <1>4. QED
    BY <1>2, <1>3 DEF Relocated, Live

(* An entry of a kind the walk knows.                                        *)
LEMMA EntryIsWalked ==
  ASSUME TypeOK, ReadInv, AtEntry, Advance, mishaps = {}, status' = "running",
         NEW bound, RelocateTo(bound), heap[Base].bound \subseteq bound,
         Entry.kind # "Unknown",
         Entry.kind = "ExternalFunc" =>
           cursor \in bound \/ (~errorTraps /\ Entry.parameterCount > 5) \/ detectedError',
         detectedError => detectedError',
         entryFunc' = IF Entry.kind = "Func" /\ Entry.name = "main" THEN cursor ELSE entryFunc
  PROVE  ReadInv'
  <1>1. /\ HasConstants /\ HasLedger /\ WalkedBefore(cursor) /\ stage = "fixup"
        /\ image \in Images /\ stream \in 1 .. allocated
    BY DEF ReadInv, AtEntry, At
  <1>2. Ledger = image /\ cursor \in DOMAIN image /\ Entry = image[cursor]
    BY <1>1 DEF HasLedger, Ledger, AtEntry, Entry
  <1>3. image \in Seq(LedgerEntry) /\ DOMAIN image \subseteq Nat
    BY <1>1, ImagesAssumption
  <1>4. /\ self' = self /\ image' = image /\ stream' = stream /\ stage' = stage
        /\ errorTraps' = errorTraps /\ cursor' = cursor + 1 /\ allocated' = allocated
        /\ Base' = Base
    BY DEF Advance, build, Base
  <1>5. /\ DOMAIN heap' = DOMAIN heap
        /\ \A b \in DOMAIN heap : heap'[b].image = heap[b].image
        /\ heap'[Base].bound = bound
        /\ \A p \in Pointers :
             heap'[Base].moved[p] = heap[Base].moved[p] + IF p \in image[cursor].pointers THEN 1 ELSE 0
    BY <1>1, <1>2, RelocationIsExact DEF HasConstants
  <1>6. HasConstants' /\ HasLedger'
    BY <1>1, <1>4, <1>5 DEF HasConstants, HasLedger, Live
  <1>7. RelocatedBefore(cursor)'
    <2>1. SUFFICES ASSUME NEW i \in DOMAIN image, NEW p \in image[i].pointers
                   PROVE  heap'[Base].moved[p] =
                            IF i < cursor + 1 /\ image[i].kind # "Unknown" THEN 1 ELSE 0
      BY <1>4 DEF RelocatedBefore
    <2>2. p \in Pointers
      <3>1. image[i] \in LedgerEntry
        BY <1>3
      <3>2. QED
        BY <3>1 DEF LedgerEntry
    <2>3. heap[Base].moved[p] = IF i < cursor /\ image[i].kind # "Unknown" THEN 1 ELSE 0
      BY <1>1 DEF WalkedBefore, RelocatedBefore
    <2>4. CASE i = cursor
      BY <1>2, <1>3, <1>5, <2>2, <2>3, <2>4
    <2>5. CASE i # cursor
      <3>1. p \notin image[cursor].pointers
        BY <1>1, <1>2, <2>5, ImagesAssumption
      <3>2. QED
        BY <1>2, <1>3, <1>5, <2>2, <2>3, <2>5, <3>1
    <2>6. QED
      BY <2>4, <2>5
  <1>8. BoundBefore(cursor)'
    <2>1. SUFFICES ASSUME NEW i \in DOMAIN image, i < cursor + 1, image[i].kind = "ExternalFunc"
                   PROVE  i \in bound \/ (~errorTraps /\ image[i].parameterCount > 5) \/ detectedError'
      BY <1>4, <1>5 DEF BoundBefore
    <2>2. CASE i = cursor
      BY <1>2, <2>1, <2>2
    <2>3. CASE i < cursor
      BY <1>1, <2>1, <2>3 DEF WalkedBefore, BoundBefore
    <2>4. QED
      BY <1>2, <1>3, <2>1, <2>2, <2>3
  <1>9. KnownBefore(cursor)'
    <2>1. \A i \in DOMAIN image : i < cursor + 1 => i < cursor \/ i = cursor
      BY <1>2, <1>3
    <2>2. QED
      BY <1>1, <1>2, <1>4, <2>1 DEF WalkedBefore, KnownBefore
  <1>10. MainBefore(cursor)'
    <2>1. \A i \in DOMAIN image : i < cursor + 1 => i < cursor \/ i = cursor
      BY <1>2, <1>3
    <2>2. MainBefore(cursor)
      BY <1>1 DEF WalkedBefore
    <2>3. CASE IsMain(cursor)
      <3>1. entryFunc' = cursor
        BY <1>2, <2>3 DEF IsMain
      <3>2. QED
        BY <1>2, <1>3, <1>4, <2>1, <2>3, <3>1 DEF MainBefore, IsMain
    <2>4. CASE ~IsMain(cursor)
      <3>1. entryFunc' = entryFunc
        BY <1>2, <2>4 DEF IsMain
      <3>2. QED
        BY <1>2, <1>3, <1>4, <2>1, <2>2, <2>4, <3>1 DEF MainBefore, IsMain
    <2>5. QED
      BY <2>3, <2>4
  <1>11. QED
    BY <1>1, <1>4, <1>6, <1>7, <1>8, <1>9, <1>10 DEF ReadInv, WalkedBefore

LEMMA FixupReads == TypeOK /\ ReadInv /\ Fixup => ReadInv'
  <1> SUFFICES ASSUME TypeOK, ReadInv, Fixup PROVE ReadInv'
    OBVIOUS
  <1>1. CASE mishaps' # {} \/ status' # "running"
    <2>1. CASE status' # "running"
      BY <2>1 DEF ReadInv
    <2>2. CASE mishaps' # {} /\ status' = "running"
      <3>1. /\ mishaps' = mishaps /\ status = "running" /\ stage = "fixup" /\ allocated' = allocated
        BY <2>2
        DEF Fixup, FixupFunc, FixupExternalFunc, FixupUnsupportedFunc, FixupMissingFunc, FixupData,
            FixupUnknown, FixupAstray, FixupEnds, Advance, Returns, Stops, AtEntry, At
      <3>2. \/ stage' = stage /\ image' = image /\ stream' = stream
            \/ stage' = "idle" /\ entryFunc' = 0
        BY <2>2
        DEF Fixup, FixupFunc, FixupExternalFunc, FixupUnsupportedFunc, FixupMissingFunc, FixupData,
            FixupUnknown, FixupAstray, FixupEnds, Advance, Returns, Stops
      <3>3. QED
        BY <2>2, <3>1, <3>2 DEF ReadInv
    <2>3. QED
      BY <1>1, <2>1, <2>2
  <1>2. CASE mishaps' = {} /\ status' = "running"
    <2>1. mishaps = {}
      BY <1>2
      DEF Fixup, FixupFunc, FixupExternalFunc, FixupUnsupportedFunc, FixupMissingFunc, FixupData,
          FixupUnknown, FixupAstray, FixupEnds, Advance, Returns, Stops
    <2>2. CASE FixupFunc
      BY <1>2, <2>1, <2>2, EntryIsWalked DEF FixupFunc
    <2>3. CASE FixupExternalFunc
      BY <1>2, <2>1, <2>3, EntryIsWalked DEF FixupExternalFunc
    <2>4. CASE FixupUnsupportedFunc
      BY <1>2, <2>1, <2>4, EntryIsWalked DEF FixupUnsupportedFunc, RaiseError
    <2>5. CASE FixupMissingFunc
      BY <1>2, <2>1, <2>5, EntryIsWalked DEF FixupMissingFunc
    <2>6. CASE FixupData
      BY <1>2, <2>1, <2>6, EntryIsWalked DEF FixupData
    <2>7. CASE FixupUnknown
      <3>1. /\ HasConstants /\ HasLedger /\ WalkedBefore(cursor) /\ stage = "fixup"
            /\ image \in Images /\ stream \in 1 .. allocated
        BY <2>1, <2>7 DEF ReadInv, FixupUnknown, AtEntry, At
      <3>2. Ledger = image /\ cursor \in DOMAIN image /\ image[cursor].kind = "Unknown"
        BY <2>7, <3>1 DEF FixupUnknown, HasLedger, Ledger, AtEntry, Entry
      <3>3. \A i \in DOMAIN image : i < cursor + 1 <=> i < cursor \/ i = cursor
        BY <3>1, <3>2, ImagesAssumption
      <3>4. ~errorTraps
        BY <1>2, <2>7 DEF FixupUnknown, RaiseError
      <3>5. /\ UNCHANGED <<self, image, stream, stage, errorTraps, allocated, heap, entryFunc>>
            /\ detectedError' = detectedError /\ cursor' = cursor + 1
        BY <2>7 DEF FixupUnknown, Advance, build
      <3>6. HasConstants' /\ HasLedger'
        BY <3>1, <3>5 DEF HasConstants, HasLedger, Live, Base
      <3>7. RelocatedBefore(cursor)'
        BY <3>1, <3>2, <3>3, <3>5 DEF WalkedBefore, RelocatedBefore, Base
      <3>8. BoundBefore(cursor)' /\ KnownBefore(cursor)'
        BY <3>1, <3>2, <3>3, <3>4, <3>5 DEF WalkedBefore, BoundBefore, KnownBefore, Base
      <3>9. MainBefore(cursor)'
        BY <3>1, <3>2, <3>3, <3>5 DEF WalkedBefore, MainBefore, IsMain
      <3>10. QED
        BY <3>1, <3>5, <3>6, <3>7, <3>8, <3>9 DEF ReadInv, WalkedBefore
    <2>8. CASE FixupAstray
      BY <1>2, <2>8 DEF FixupAstray, Stops
    <2>9. CASE FixupEnds
      BY <2>9 DEF FixupEnds, Returns, ReadInv
    <2>10. QED
      BY <2>2, <2>3, <2>4, <2>5, <2>6, <2>7, <2>8, <2>9 DEF Fixup
  <1>3. QED
    BY <1>1, <1>2

LEMMA ReadReads == TypeOK /\ ReadInv /\ Read => ReadInv'
  <1> SUFFICES ASSUME TypeOK, ReadInv, Read PROVE ReadInv'
    OBVIOUS
  <1>1. /\ allocated \in Nat /\ Fresh \in 1 .. Fresh /\ 1 .. allocated \subseteq 1 .. Fresh
        /\ \A n \in 1 .. allocated : n # Fresh
        /\ DOMAIN heap \subseteq 1 .. allocated
    BY DEF TypeOK, Fresh
  <1>2. CASE UnpackFilename
    BY <1>1, <1>2 DEF UnpackFilename, At, ReadInv, walk
  <1>3. CASE UnpackUnreadable
    BY <1>3 DEF UnpackUnreadable, ReadInv
  <1>4. CASE ReadHeader
    BY <1>4 DEF ReadHeader, At, ReadInv, walk
  <1>5. CASE Refuse
    BY <1>5 DEF Refuse, Returns, ReadInv
  <1>6. CASE ReadTypeInformation
    BY <1>1, <1>6 DEF ReadTypeInformation, At, ReadInv, walk
  <1>7. CASE ReadConstantStaticMemory
    <2>1. self'.constants = Fresh /\ Fresh \in DOMAIN heap' /\ heap'[Fresh] = Block(image)
      BY <1>7, WithHasType DEF ReadConstantStaticMemory, TypeOK, With
    <2>2. image' = image /\ stream' = stream /\ stream # Fresh /\ stage' = "ledger"
          /\ image \in Images /\ allocated' = Fresh /\ stream \in 1 .. allocated /\ entryFunc' = 0
      BY <1>1, <1>7 DEF ReadConstantStaticMemory, At, ReadInv, walk
    <2>3. HasConstants' /\ \A p \in Pointers : heap'[self'.constants].moved[p] = 0
      BY <2>1, <2>2 DEF HasConstants, Live, Base, Block
    <2>4. QED
      BY <1>1, <2>2, <2>3 DEF ReadInv, Base
  <1>8. CASE TooMuchStaticMemory
    BY <1>8 DEF TooMuchStaticMemory, Stops, ReadInv
  <1>9. CASE ReadLedger
    <2>1. /\ self'.ledger = Fresh /\ self'.constants = self.constants
          /\ self'.ledgerConstants = self.constants
      BY <1>9 DEF ReadLedger, TypeOK
    <2>2. /\ Fresh \in DOMAIN heap' /\ heap'[Fresh] = Block(image)
          /\ \A b \in DOMAIN heap : b \in DOMAIN heap' /\ heap'[b] = heap[b]
      BY <1>1, <1>9, WithHasType DEF ReadLedger, TypeOK, With
    <2>3. /\ image' = image /\ stream' = stream /\ stream # Fresh /\ stage' = "fixup"
          /\ image \in Images /\ allocated' = Fresh /\ stream \in 1 .. allocated
          /\ entryFunc' = 0 /\ cursor' = 1 /\ mishaps' = mishaps /\ status = "running"
          /\ stage = "ledger"
      BY <1>1, <1>9 DEF ReadLedger, At, ReadInv
    <2>4. ASSUME mishaps = {} PROVE HasConstants' /\ HasLedger' /\ WalkedBefore(cursor)'
      <3>1. HasConstants /\ \A p \in Pointers : heap[Base].moved[p] = 0
        BY <2>3, <2>4 DEF ReadInv
      <3>2. HasConstants' /\ HasLedger'
        BY <1>1, <2>1, <2>2, <2>3, <3>1 DEF HasConstants, HasLedger, Live, Base, Block
      <3>3. \A i \in DOMAIN image : ~(i < 1) /\ image[i].pointers \subseteq Pointers
        <4>1. SUFFICES ASSUME NEW i \in DOMAIN image
                       PROVE  ~(i < 1) /\ image[i].pointers \subseteq Pointers
          OBVIOUS
        <4>2. image \in Seq(LedgerEntry)
          BY <2>3, ImagesAssumption
        <4>3. image[i] \in LedgerEntry /\ ~(i < 1)
          BY <4>2
        <4>4. QED
          BY <4>3 DEF LedgerEntry
      <3>4. Base' = Base /\ Base \in DOMAIN heap
        BY <2>1, <3>1 DEF Base, HasConstants, Live
      <3>5. RelocatedBefore(cursor)'
        BY <2>2, <2>3, <3>1, <3>3, <3>4 DEF RelocatedBefore
      <3>6. BoundBefore(cursor)' /\ KnownBefore(cursor)' /\ MainBefore(cursor)'
        BY <2>3, <3>3 DEF BoundBefore, KnownBefore, MainBefore
      <3>7. QED
        BY <3>2, <3>5, <3>6 DEF WalkedBefore
    <2>5. QED
      BY <1>1, <2>3, <2>4 DEF ReadInv
  <1>10. CASE ReadEmptyChunk
    BY <1>10 DEF ReadEmptyChunk, At, ReadInv
  <1>11. QED
    BY <1>2, <1>3, <1>4, <1>5, <1>6, <1>7, <1>8, <1>9, <1>10 DEF Read

LEMMA ReadInvariant == Spec => []ReadInv
  <1>1. Init => ReadInv
    BY DEF Init, ReadInv, walk
  <1>2. TypeOK /\ ReadInv /\ [Next]_vars => ReadInv'
    <2>1. ReadInv /\ UNCHANGED vars => ReadInv'
      BY DEF ReadInv, HasConstants, HasLedger, WalkedBefore, RelocatedBefore, BoundBefore, KnownBefore,
             MainBefore, IsMain, Live, Base, vars, build, walk
    <2>2. ReadInv /\ (Free \/ FreeWild) => ReadInv'
      BY DEF ReadInv, Free, FreeWild, At, walk
    <2>3. QED
      BY <2>1, <2>2, ReadReads, FixupReads DEF Next
  <1>3. QED
    BY <1>1, <1>2, TypeCorrect, PTL DEF Spec

-----------------------------------------------------------------------------
(* What the host gets. *)

LEMMA FirstIsLeast ==
  ASSUME NEW S \in SUBSET Nat, S # {}
  PROVE  First(S) \in S /\ \A j \in S : First(S) <= j
  <1>1. \E i \in S : \A j \in S : i <= j
    <2> DEFINE R == OpToRel(<, Nat)
    <2>1. \A x, y \in Nat : <<y, x>> \in R <=> y < x
      BY DEF OpToRel
    <2> HIDE DEF R
    <2>2. IsWellFoundedOn(R, Nat)
      BY NatLessThanWellFounded DEF R
    <2>3. PICK x \in S : \A y \in S : ~(<<y, x>> \in R)
      BY <2>2, WFMin
    <2>4. ASSUME NEW y \in S PROVE x <= y
      <3>1. x \in Nat /\ y \in Nat /\ ~(y < x)
        BY <2>1, <2>3
      <3>2. QED
        BY <3>1
    <2>5. QED
      BY <2>4
  <1>2. QED
    BY <1>1 DEF First

(* The end of a walk that is accepted.                                       *)
LEMMA AcceptedAtTheEnd ==
  ASSUME TypeOK, ReadInv, FixupEnds, Loaded', mishaps' = {}
  PROVE  AcceptedIsReady'
  <1>1. /\ HasConstants /\ HasLedger /\ WalkedBefore(cursor) /\ image \in Images
        /\ stage = "fixup" /\ status = "running"
    BY DEF FixupEnds, Returns, At, ReadInv
  <1>2. ~detectedError /\ entryFunc # 0
    <2> DEFINE result == IF detectedError \/ entryFunc = 0 THEN "refused" ELSE "accepted"
    <2>1. calls' = Append(calls, result)
      BY DEF FixupEnds, Returns
    <2> HIDE DEF result
    <2>2. calls'[Len(calls')] = result
      BY <2>1 DEF TypeOK
    <2>3. result = "accepted"
      BY <2>2 DEF Loaded
    <2>4. QED
      BY <2>3 DEF result
  <1>3. /\ self'.ledger = self.ledger /\ self'.ledgerConstants = Base /\ self'.constants = Base
        /\ self'.entry.block = Base /\ self'.entry.at = entryFunc
        /\ errorTraps' = errorTraps
    BY <1>1, <1>2 DEF FixupEnds, Returns, TypeOK, HasLedger, Base, build
  <1>4. heap'[self.ledger] = heap[self.ledger] /\ heap'[Base] = heap[Base]
    BY <1>1 DEF FixupEnds, Returns, HasConstants, HasLedger, Live
  <1>5. Ledger = image /\ Ledger' = image /\ Walked' = heap[Base]
    BY <1>1, <1>3, <1>4 DEF Ledger, Walked, HasLedger
  <1>6. \A i \in DOMAIN image : i \in Nat /\ i >= 1 /\ i < cursor
    <2>1. cursor = Len(image) + 1
      BY <1>5 DEF FixupEnds
    <2>2. image \in Seq(LedgerEntry)
      BY <1>1, ImagesAssumption
    <2>3. QED
      BY <2>1, <2>2
  <1>7. /\ \A i \in DOMAIN image : \A p \in image[i].pointers :
             image[i].kind # "Unknown" => heap[Base].moved[p] = 1
        /\ \A i \in DOMAIN image :
             image[i].kind = "ExternalFunc" /\ i \notin heap[Base].bound =>
               ~errorTraps /\ image[i].parameterCount > 5
        /\ \A i \in DOMAIN image : image[i].kind = "Unknown" => ~errorTraps
    BY <1>1, <1>2, <1>6 DEF WalkedBefore, RelocatedBefore, BoundBefore, KnownBefore
  <1> DEFINE mains == {i \in DOMAIN image : image[i].kind = "Func" /\ image[i].name = "main"}
  <1>8. entryFunc \in mains /\ mains \subseteq Nat \ {0} /\ \A i \in mains : i <= entryFunc
    BY <1>1, <1>2, <1>6 DEF WalkedBefore, MainBefore, IsMain
  <1>9. FindFunction("main")' = First(mains)
    BY <1>5 DEF FindFunction
  <1>10. {i \in Indices("Func") : Ledger[i].name = "main"}' = mains
    BY <1>5 DEF Indices
  <1>11. First(mains) \in mains
    BY <1>8, FirstIsLeast
  <1>12. First(mains) \in 1 .. entryFunc
    BY <1>8, <1>11
  <1>13. ASSUME Cardinality(mains) = 1 PROVE entryFunc = First(mains)
    <2>1. IsFiniteSet(mains)
      <3>1. image \in Seq(LedgerEntry)
        BY <1>1, ImagesAssumption
      <3>2. mains \subseteq 1 .. Len(image) /\ Len(image) \in Int /\ 1 \in Int
        BY <3>1
      <3>3. QED
        BY <3>2, FS_Interval, FS_Subset
    <2>2. \E x : mains = {x}
      BY <1>13, <2>1, FS_Singleton
    <2>3. QED
      BY <1>8, <1>11, <2>2
  <1> HIDE DEF mains
  <1>14. QED
    BY <1>3, <1>5, <1>7, <1>9, <1>10, <1>12, <1>13 DEF AcceptedIsReady, Indices

(* A package that was accepted is ready to run: every pointer of the         *)
(* constants was relocated once, and every host function has its pointer.    *)
THEOREM AcceptedPackagesAreReady == Spec => []AcceptedIsReady
  <1>1. Init => AcceptedIsReady
    BY DEF Init, AcceptedIsReady, Loaded
  <1>2. TypeOK /\ ReadInv /\ AcceptedIsReady /\ [Next]_vars => AcceptedIsReady'
    <2> SUFFICES ASSUME TypeOK, ReadInv, AcceptedIsReady, [Next]_vars, Loaded', mishaps' = {}
                 PROVE  AcceptedIsReady'
      BY DEF AcceptedIsReady
    <2>1. CASE UNCHANGED vars
      BY <2>1
      DEF AcceptedIsReady, Loaded, At, Ledger, Walked, Indices, FindFunction, vars, build, walk
    <2>2. CASE FixupEnds
      BY <2>2, AcceptedAtTheEnd
    <2>3. Read => FALSE
      <3>1. Refuse => FALSE
        <4>1. Refuse => calls' = Append(calls, "refused")
          BY DEF Refuse, Returns
        <4>2. calls' = Append(calls, "refused") => calls'[Len(calls')] = "refused"
          BY DEF TypeOK
        <4>3. QED
          BY <4>1, <4>2 DEF Loaded
      <3>2. QED
        BY <3>1
        DEF Read, UnpackFilename, UnpackUnreadable, ReadHeader, ReadTypeInformation,
            ReadConstantStaticMemory, TooMuchStaticMemory, ReadLedger, ReadEmptyChunk, Stops, Loaded, At
    <2>4. Fixup => FixupEnds
      BY DEF Fixup, FixupFunc, FixupExternalFunc, FixupUnsupportedFunc, FixupMissingFunc, FixupData,
             FixupUnknown, FixupAstray, Stops, Advance, AtEntry, At, Loaded
    <2>5. Free \/ FreeWild => FALSE
      <3>1. Free \/ FreeWild => calls' = Append(calls, "freed")
        BY DEF Free, FreeWild
      <3>2. calls' = Append(calls, "freed") => calls'[Len(calls')] = "freed"
        BY DEF TypeOK
      <3>3. QED
        BY <3>1, <3>2 DEF Loaded
    <2>6. QED
      BY <2>1, <2>2, <2>3, <2>4, <2>5 DEF Next
  <1>3. QED
    BY <1>1, <1>2, TypeCorrect, ReadInvariant, PTL DEF Spec

-----------------------------------------------------------------------------
(* What the fields of the SwampUnpack lead to. *)

Kept == DOMAIN heap \ {stream}

(* An accepted package stays whole until it is freed, also when another one  *)
(* is refused half-way.                                                      *)
FieldsInv ==
  status = "running" /\ mishaps = {} =>
    /\ AcceptedSinceFree(Len(calls)) => Owned \subseteq Kept
    /\ stage \in {"constants", "ledger", "fixup"} => self.types \in Kept
    /\ stage \in {"ledger", "fixup"} => self.constants \in Kept
    /\ stage = "fixup" => self.ledger \in Kept

LEMMA AppendAccepted ==
  ASSUME calls \in Seq(Answers), NEW x \in Answers, calls' = Append(calls, x)
  PROVE  /\ Len(calls') = Len(calls) + 1 /\ calls'[Len(calls')] = x
         /\ AcceptedSinceFree(Len(calls) - 1)' <=> AcceptedSinceFree(Len(calls))
         /\ x = "freed" => ~AcceptedSinceFree(Len(calls))'
         /\ x = "refused" /\ AcceptedSinceFree(Len(calls))' => AcceptedSinceFree(Len(calls))
  <1>1. /\ Len(calls) \in Nat /\ Len(calls') = Len(calls) + 1
        /\ \A i \in 1 .. Len(calls) : calls'[i] = calls[i]
        /\ calls'[Len(calls) + 1] = x
    OBVIOUS
  <1>2. AcceptedSinceFree(Len(calls) - 1)' <=> AcceptedSinceFree(Len(calls))
    <2>1. Len(calls') - 1 = Len(calls)
      BY <1>1
    <2>2. \A i, j \in 1 .. Len(calls) : calls'[i] = calls[i] /\ calls'[j] = calls[j]
      BY <1>1
    <2>3. \A i \in 1 .. Len(calls) : i .. Len(calls) \subseteq 1 .. Len(calls)
      BY <1>1
    <2>4. QED
      BY <2>1, <2>2, <2>3 DEF AcceptedSinceFree
  <1>3. ASSUME x = "freed" PROVE ~AcceptedSinceFree(Len(calls))'
    BY <1>1, <1>3 DEF AcceptedSinceFree
  <1>4. ASSUME x = "refused", AcceptedSinceFree(Len(calls))' PROVE AcceptedSinceFree(Len(calls))
    <2>1. PICK i \in 1 .. Len(calls') : calls'[i] = "accepted" /\ \A j \in i .. Len(calls') : calls'[j] # "freed"
      BY <1>4 DEF AcceptedSinceFree
    <2>2. i \in 1 .. Len(calls) /\ \A j \in i .. Len(calls) : j \in i .. Len(calls') /\ calls'[j] = calls[j]
      BY <1>1, <1>4, <2>1
    <2>3. QED
      BY <1>1, <2>1, <2>2 DEF AcceptedSinceFree
  <1>5. QED
    BY <1>1, <1>2, <1>3, <1>4

LEMMA ReturnsKeepsFields ==
  ASSUME TypeOK, FieldsInv, status = "running", NEW result \in {"accepted", "refused"},
         Returns(result, heap), Owned' = Owned, result = "accepted" => stage = "fixup"
  PROVE  FieldsInv'
  <1>1. SUFFICES ASSUME mishaps = {}, AcceptedSinceFree(Len(calls))' PROVE Owned \subseteq Kept'
    BY DEF FieldsInv, Returns
  <1>2. Kept \subseteq Kept'
    BY DEF Kept, Returns, TypeOK, Unset
  <1>3. CASE result = "accepted"
    BY <1>1, <1>2, <1>3 DEF FieldsInv, Owned
  <1>4. CASE result = "refused"
    <2>1. AcceptedSinceFree(Len(calls))
      BY <1>1, <1>4, AppendAccepted DEF Returns, TypeOK, Answers
    <2>2. QED
      BY <1>1, <1>2, <2>1 DEF FieldsInv
  <1>5. QED
    BY <1>3, <1>4

LEMMA ReadKeepsFields == TypeOK /\ ReadInv /\ FieldsInv /\ Read => FieldsInv'
  <1> SUFFICES ASSUME TypeOK, ReadInv, FieldsInv, Read, status' = "running", mishaps' = {} PROVE FieldsInv'
    BY DEF FieldsInv
  <1>1. Fresh \notin DOMAIN heap /\ (status = "running" /\ stage # "idle" => stream # Fresh)
    <2>1. /\ allocated \in Nat /\ DOMAIN heap \subseteq 1 .. allocated
          /\ status = "running" /\ stage # "idle" => stream \in 1 .. allocated
      BY DEF TypeOK, ReadInv
    <2>2. QED
      BY <2>1 DEF Fresh
  <1>2. CASE UnpackFilename
    <2>1. DOMAIN heap' = DOMAIN heap \cup {Fresh}
      BY <1>2, WithHasType DEF UnpackFilename
    <2>2. Kept \subseteq Kept'
      BY <1>1, <1>2, <2>1 DEF UnpackFilename, Kept
    <2>3. QED
      BY <1>2, <2>2 DEF UnpackFilename, At, FieldsInv, AcceptedSinceFree, Owned
  <1>3. CASE UnpackUnreadable
    BY <1>3 DEF UnpackUnreadable
  <1>4. CASE ReadHeader
    BY <1>4 DEF ReadHeader, At, FieldsInv, AcceptedSinceFree, Owned, Kept
  <1>5. CASE Refuse
    <2>1. Owned' = Owned
      BY <1>5 DEF Refuse, Owned
    <2>2. QED
      BY <1>5, <2>1, ReturnsKeepsFields DEF Refuse
  <1>6. CASE ReadTypeInformation
    <2>1. /\ DOMAIN heap' = DOMAIN heap \cup {Fresh} /\ self'.types = Fresh
          /\ self'.constants = self.constants /\ self'.ledger = self.ledger
      BY <1>6, WithHasType DEF ReadTypeInformation, TypeOK
    <2>2. Kept \subseteq Kept' /\ Fresh \in Kept'
      BY <1>1, <1>6, <2>1 DEF ReadTypeInformation, At, Kept
    <2>3. QED
      BY <1>6, <2>1, <2>2 DEF ReadTypeInformation, At, FieldsInv, AcceptedSinceFree, Owned
  <1>7. CASE ReadConstantStaticMemory
    <2>1. /\ DOMAIN heap' = DOMAIN heap \cup {Fresh} /\ self'.constants = Fresh
          /\ self'.types = self.types /\ self'.ledger = self.ledger
      BY <1>7, WithHasType DEF ReadConstantStaticMemory, TypeOK
    <2>2. Kept \subseteq Kept' /\ Fresh \in Kept'
      BY <1>1, <1>7, <2>1 DEF ReadConstantStaticMemory, At, Kept
    <2>3. QED
      BY <1>7, <2>1, <2>2 DEF ReadConstantStaticMemory, At, FieldsInv, AcceptedSinceFree, Owned
  <1>8. CASE TooMuchStaticMemory
    BY <1>8 DEF TooMuchStaticMemory, Stops
  <1>9. CASE ReadLedger
    <2>1. /\ DOMAIN heap' = DOMAIN heap \cup {Fresh} /\ self'.ledger = Fresh
          /\ self'.types = self.types /\ self'.constants = self.constants
      BY <1>9, WithHasType DEF ReadLedger, TypeOK
    <2>2. Kept \subseteq Kept' /\ Fresh \in Kept'
      BY <1>1, <1>9, <2>1 DEF ReadLedger, At, Kept
    <2>3. QED
      BY <1>9, <2>1, <2>2 DEF ReadLedger, At, FieldsInv, AcceptedSinceFree, Owned
  <1>10. CASE ReadEmptyChunk
    BY <1>10 DEF ReadEmptyChunk
  <1>11. QED
    BY <1>2, <1>3, <1>4, <1>5, <1>6, <1>7, <1>8, <1>9, <1>10 DEF Read

LEMMA FixupKeepsFields == TypeOK /\ FieldsInv /\ Fixup => FieldsInv'
  <1> SUFFICES ASSUME TypeOK, FieldsInv, Fixup PROVE FieldsInv'
    OBVIOUS
  <1>1. ASSUME AtEntry, Advance, DOMAIN heap' = DOMAIN heap PROVE FieldsInv'
    BY <1>1 DEF AtEntry, At, Advance, FieldsInv, AcceptedSinceFree, Owned, Kept
  <1>2. ASSUME NEW bound, RelocateTo(bound) PROVE DOMAIN heap' = DOMAIN heap
    BY <1>2 DEF RelocateTo
  <1>3. FixupFunc \/ FixupExternalFunc \/ FixupUnsupportedFunc => FieldsInv'
    BY <1>1, <1>2 DEF FixupFunc, FixupExternalFunc, FixupUnsupportedFunc
  <1>4. FixupMissingFunc \/ FixupData \/ FixupUnknown => FieldsInv'
    BY <1>1, <1>2 DEF FixupMissingFunc, FixupData, FixupUnknown
  <1>5. CASE FixupAstray
    BY <1>5 DEF FixupAstray, Stops, FieldsInv
  <1>6. CASE FixupEnds
    <2>1. Owned' = Owned
      BY <1>6 DEF FixupEnds, Owned, TypeOK
    <2>2. PICK result \in {"accepted", "refused"} : Returns(result, heap)
      BY <1>6 DEF FixupEnds
    <2>3. QED
      BY <1>6, <2>1, <2>2, ReturnsKeepsFields DEF FixupEnds, At
  <1>7. QED
    BY <1>3, <1>4, <1>5, <1>6 DEF Fixup

LEMMA FreeKeepsFields == TypeOK /\ FieldsInv /\ (Free \/ FreeWild) => FieldsInv'
  <1> SUFFICES ASSUME TypeOK, FieldsInv, Free PROVE FieldsInv'
    BY DEF FreeWild, FieldsInv
  <1>1. ~AcceptedSinceFree(Len(calls))'
    BY AppendAccepted DEF Free, TypeOK, Answers
  <1>2. QED
    BY <1>1 DEF Free, At, FieldsInv

LEMMA FieldsInvariant == Spec => []FieldsInv
  <1>1. Init => FieldsInv
    BY DEF Init, FieldsInv, AcceptedSinceFree
  <1>2. TypeOK /\ ReadInv /\ FieldsInv /\ [Next]_vars => FieldsInv'
    <2>1. FieldsInv /\ UNCHANGED vars => FieldsInv'
      BY DEF FieldsInv, AcceptedSinceFree, Owned, Kept, vars, build, walk
    <2>2. QED
      BY <2>1, ReadKeepsFields, FixupKeepsFields, FreeKeepsFields DEF Next
  <1>3. QED
    BY <1>1, <1>2, TypeCorrect, ReadInvariant, PTL DEF Spec

(* A walk over a package that was read as a whole never goes astray.         *)
LEMMA WalkIsNeverAstray == TypeOK /\ ReadInv /\ mishaps = {} => ~FixupAstray
  <1> SUFFICES ASSUME TypeOK, ReadInv, mishaps = {}, FixupAstray PROVE FALSE
    OBVIOUS
  <1>1. HasConstants /\ HasLedger /\ WalkedBefore(cursor)
    BY DEF ReadInv, FixupAstray, At
  <1>2. Aligned /\ Ledger = image
    BY <1>1 DEF Aligned, HasConstants, HasLedger, Ledger
  <1>3. cursor \in DOMAIN image /\ ~Readable /\ Entry = image[cursor]
    BY <1>2 DEF FixupAstray, Entry
  <1>4. \A p \in Entry.pointers : heap[Base].moved[p] = 0
    <2>1. ~(cursor < cursor)
      BY DEF TypeOK
    <2>2. QED
      BY <1>1, <1>3, <2>1 DEF WalkedBefore, RelocatedBefore
  <1>5. QED
    BY <1>3, <1>4 DEF Readable

(* Loading goes astray only for an unreadable file, an empty chunk, or a     *)
(* swampUnpackFree with nothing accepted to free.                            *)
THEOREM EveryFaultHasACause == Spec => []FaultsHaveACause
  <1>1. Init => FaultsHaveACause
    BY DEF Init, FaultsHaveACause
  <1>2. TypeOK /\ ReadInv /\ FieldsInv /\ FaultsHaveACause /\ [Next]_vars => FaultsHaveACause'
    <2> SUFFICES ASSUME TypeOK, ReadInv, FieldsInv, FaultsHaveACause, [Next]_vars,
                        status' = "fault", mishaps' = {}
                 PROVE  FaultsHaveACause'
      BY DEF FaultsHaveACause
    <2>1. CASE UNCHANGED vars
      BY <2>1 DEF FaultsHaveACause, AcceptedSinceFree, vars
    <2>2. CASE FreeWild
      <3>1. calls' = Append(calls, "freed") /\ status = "running" /\ mishaps = {}
        BY <2>2 DEF FreeWild, At
      <3>2. /\ Len(calls') - 1 = Len(calls) /\ calls'[Len(calls')] = "freed"
            /\ AcceptedSinceFree(Len(calls) - 1)' <=> AcceptedSinceFree(Len(calls))
        BY <3>1, AppendAccepted DEF TypeOK, Answers
      <3>3. ~AcceptedSinceFree(Len(calls))
        BY <2>2, <3>1 DEF FreeWild, FieldsInv, Kept, Live
      <3>4. QED
        BY <3>2, <3>3 DEF FaultsHaveACause
    <2>3. ~Free
      BY DEF Free, At
    <2>4. ~Read
      BY DEF Read, UnpackFilename, UnpackUnreadable, ReadHeader, Refuse, Returns, ReadTypeInformation,
             ReadConstantStaticMemory, TooMuchStaticMemory, ReadLedger, ReadEmptyChunk, Stops, At
    <2>5. Fixup => FixupAstray
      BY DEF Fixup, FixupFunc, FixupExternalFunc, FixupUnsupportedFunc, FixupMissingFunc, FixupData,
             FixupUnknown, FixupEnds, Returns, AtEntry, At, RaiseError
    <2>6. ~FixupAstray
      BY WalkIsNeverAstray DEF FixupAstray, Stops
    <2>7. QED
      BY <2>1, <2>2, <2>3, <2>4, <2>5, <2>6 DEF Next
  <1>3. QED
    BY <1>1, <1>2, TypeCorrect, ReadInvariant, FieldsInvariant, PTL DEF Spec

-----------------------------------------------------------------------------
(* Refinement of the catalog. *)

(* The state of the catalog, as Abstract maps it.                            *)
Phase == IF status # "running" THEN "stopped" ELSE IF stage = "idle" THEN "idle" ELSE "busy"
Table == IF Live(self.entry.block) THEN heap[self.entry.block].image ELSE NoImage

LEMMA CatalogStep ==
  ASSUME provided' = provided,
         \/ Phase' = Phase /\ Table' = Table
         \/ Phase = "idle" /\ Phase' = "busy" /\ Table' = Table
         \/ Phase = "busy" /\ Phase' = "idle" /\ Table' \in Images /\ Abstract!Complete(Table')
         \/ Phase = "busy" /\ Phase' = "idle" /\ Table' \in {Table, NoImage}
         \/ Phase = "idle" /\ Phase' = "idle" /\ Table' \in {Table, NoImage}
         \/ Phase' = "stopped" /\ Table' = Table
  PROVE  [Abstract!Next]_(Abstract!vars)
  BY DEF Phase, Table, Abstract!Next, Abstract!Ask, Abstract!Answer, Abstract!Accept, Abstract!Refuse,
         Abstract!Release, Abstract!Stop, Abstract!vars

(* Blocks are numbered in the order they are made, so that no new one is one *)
(* the SwampUnpack already points to; and the walk keeps its promise about   *)
(* any ledger it goes over, also that of an earlier package.                 *)
NumbersInv ==
  /\ self.entry.block <= allocated /\ self.constants <= allocated /\ self.ledger <= allocated
  /\ status = "running" /\ stage # "idle" => self.constants # stream /\ self.ledger # stream
LedgerInv ==
  /\ Live(self.ledger) => heap[self.ledger].image \in Images
  /\ status = "running" /\ stage = "fixup" /\ Live(self.ledger) =>
       /\ entryFunc # 0 =>
            entryFunc \in DOMAIN Ledger /\ Ledger[entryFunc].kind = "Func"
              /\ Ledger[entryFunc].name = "main"
       /\ \A i \in DOMAIN Ledger :
            i < cursor /\ Ledger[i].kind = "ExternalFunc" => Ledger[i].name \in provided \/ detectedError
TableInv == NumbersInv /\ LedgerInv

(* Another block, behind all others.                                         *)
LEMMA WithKeeps ==
  ASSUME TypeOK, NEW content, heap' = With(content)
  PROVE  /\ DOMAIN heap' = DOMAIN heap \cup {Fresh} /\ heap'[Fresh] = Block(content)
         /\ \A b \in 0 .. allocated : b \in DOMAIN heap' <=> b \in DOMAIN heap
         /\ \A b \in DOMAIN heap : heap'[b] = heap[b]
         /\ Fresh \notin DOMAIN heap /\ Fresh \in Nat /\ allocated < Fresh
  <1>1. Fresh \in Nat /\ allocated < Fresh /\ DOMAIN heap \subseteq 1 .. allocated /\ allocated \in Nat
    BY DEF TypeOK, Fresh
  <1>2. Fresh \notin DOMAIN heap /\ Fresh \notin 0 .. allocated
    BY <1>1
  <1>3. QED
    BY <1>1, <1>2 DEF With

LEMMA FieldsAreNumbers ==
  ASSUME TypeOK, TableInv
  PROVE  /\ self.entry.block \in 0 .. allocated /\ self.constants \in 0 .. allocated
         /\ self.ledger \in 0 .. allocated /\ allocated \in Nat
  BY DEF TypeOK, TableInv, NumbersInv

LEMMA ReturnsImplements ==
  ASSUME TypeOK, TableInv, status = "running", stage # "idle",
         Returns("refused", heap), self' = [self EXCEPT !.entry = NullEntry] \/ self' = self
  PROVE  TableInv' /\ [Abstract!Next]_(Abstract!vars)
  <1>1. /\ DOMAIN heap' \subseteq DOMAIN heap /\ \A b \in DOMAIN heap' : heap'[b] = heap[b]
        /\ allocated' = allocated /\ status' = status /\ stage' = "idle" /\ provided' = provided
    BY DEF Returns, build
  <1>2. /\ self'.constants = self.constants /\ self'.ledger = self.ledger
        /\ self'.entry = self.entry \/ self'.entry = NullEntry
    BY DEF TypeOK
  <1>3. TableInv'
    BY <1>1, <1>2 DEF TableInv, NumbersInv, LedgerInv, Live, NullEntry, Unset, TypeOK
  <1>4. 0 \notin DOMAIN heap
    BY DEF TypeOK
  <1>5. Table' \in {Table, NoImage}
    BY <1>1, <1>2, <1>4 DEF Table, Live, NullEntry, Unset
  <1>6. Phase = "busy" /\ Phase' = "idle"
    BY <1>1 DEF Phase
  <1>7. QED
    BY <1>1, <1>3, <1>5, <1>6, CatalogStep

LEMMA ReadImplements ==
  TypeOK /\ ReadInv /\ TableInv /\ Read => TableInv' /\ [Abstract!Next]_(Abstract!vars)
  <1> SUFFICES ASSUME TypeOK, ReadInv, TableInv, Read
               PROVE  TableInv' /\ [Abstract!Next]_(Abstract!vars)
    OBVIOUS
  <1>1. CASE UnpackFilename
    <2>1. TableInv' /\ Table' = Table
      BY <1>1, WithKeeps, FieldsAreNumbers
      DEF UnpackFilename, At, TableInv, NumbersInv, LedgerInv, Live, Table
    <2>2. provided' = provided /\ Phase = "idle" /\ Phase' = "busy"
      BY <1>1 DEF UnpackFilename, At, build, Phase
    <2>3. QED
      BY <2>1, <2>2, CatalogStep
  <1>2. CASE UnpackUnreadable
    <2>1. TableInv' /\ Table' = Table
      <3>1. CASE UNCHANGED <<heap, allocated>>
        BY <1>2, <3>1 DEF UnpackUnreadable, At, TableInv, NumbersInv, LedgerInv, Live, Table
      <3>2. CASE allocated' = Fresh /\ heap' = With(NoImage)
        BY <1>2, <3>2, WithKeeps, FieldsAreNumbers
        DEF UnpackUnreadable, At, TableInv, NumbersInv, LedgerInv, Live, Table
      <3>3. QED
        BY <1>2, <3>1, <3>2 DEF UnpackUnreadable
    <2>2. provided' = provided /\ Phase' = "stopped"
      BY <1>2 DEF UnpackUnreadable, build, Phase
    <2>3. QED
      BY <2>1, <2>2, CatalogStep
  <1>3. CASE ReadHeader
    <2>1. TableInv' /\ Table' = Table
      BY <1>3 DEF ReadHeader, At, TableInv, NumbersInv, LedgerInv, Live, Table
    <2>2. provided' = provided /\ Phase' = Phase
      BY <1>3 DEF ReadHeader, At, build, Phase
    <2>3. QED
      BY <2>1, <2>2, CatalogStep
  <1>4. CASE Refuse
    BY <1>4, ReturnsImplements DEF Refuse
  <1>5. CASE ReadTypeInformation
    <2>1. /\ self'.entry = self.entry /\ self'.constants = self.constants
          /\ self'.ledger = self.ledger
      BY <1>5 DEF ReadTypeInformation, TypeOK
    <2>2. TableInv' /\ Table' = Table
      BY <1>5, <2>1, WithKeeps, FieldsAreNumbers
      DEF ReadTypeInformation, At, TableInv, NumbersInv, LedgerInv, Live, Table
    <2>3. provided' = provided /\ Phase' = Phase
      BY <1>5 DEF ReadTypeInformation, At, build, Phase
    <2>4. QED
      BY <2>2, <2>3, CatalogStep
  <1>6. CASE ReadConstantStaticMemory
    <2>1. /\ self'.entry = self.entry /\ self'.constants = Fresh
          /\ self'.ledger = self.ledger
      BY <1>6 DEF ReadConstantStaticMemory, TypeOK
    <2>2. stream # Fresh
      BY <1>6 DEF ReadConstantStaticMemory, At, ReadInv, Fresh, TypeOK
    <2>3. TableInv' /\ Table' = Table
      BY <1>6, <2>1, <2>2, WithKeeps, FieldsAreNumbers
      DEF ReadConstantStaticMemory, At, TableInv, NumbersInv, LedgerInv, Live, Table
    <2>4. provided' = provided /\ Phase' = Phase
      BY <1>6 DEF ReadConstantStaticMemory, At, build, Phase
    <2>5. QED
      BY <2>3, <2>4, CatalogStep
  <1>7. CASE TooMuchStaticMemory
    <2>1. TableInv' /\ Table' = Table
      BY <1>7 DEF TooMuchStaticMemory, Stops, At, TableInv, NumbersInv, LedgerInv, Live, Table
    <2>2. provided' = provided /\ Phase' = "stopped"
      BY <1>7 DEF TooMuchStaticMemory, Stops, build, Phase
    <2>3. QED
      BY <2>1, <2>2, CatalogStep
  <1>8. CASE ReadLedger
    <2>1. /\ self'.entry = self.entry /\ self'.constants = self.constants
          /\ self'.ledger = Fresh
      BY <1>8 DEF ReadLedger, TypeOK
    <2>2. stream # Fresh /\ image \in Images /\ entryFunc = 0 /\ status = "running" /\ stage = "ledger"
      BY <1>8 DEF ReadLedger, At, ReadInv, Fresh, TypeOK
    <2>3. heap' = With(image) /\ allocated' = Fresh /\ cursor' = 1 /\ entryFunc' = 0 /\ stream' = stream
      BY <1>8, <2>2 DEF ReadLedger
    <2>4. heap'[self'.ledger].image = image
      <3>1. heap'[Fresh] = Block(image)
        BY <2>3, WithKeeps
      <3>2. QED
        BY <2>1, <3>1 DEF Block
    <2>5. NumbersInv' /\ Table' = Table
      BY <2>1, <2>2, <2>3, WithKeeps, FieldsAreNumbers DEF TableInv, NumbersInv, Live, Table
    <2>6. LedgerInv'
      <3>1. \A i \in DOMAIN image : ~(i < 1)
        BY <2>2, ImagesAssumption
      <3>2. QED
        BY <2>2, <2>3, <2>4, <3>1 DEF LedgerInv, Ledger
    <2>7. provided' = provided /\ Phase' = Phase
      BY <1>8 DEF ReadLedger, At, build, Phase
    <2>8. QED
      BY <2>5, <2>6, <2>7, CatalogStep DEF TableInv
  <1>9. CASE ReadEmptyChunk
    <2>1. /\ UNCHANGED <<status, provided, self, heap, allocated, stream, entryFunc>>
          /\ stage # "idle" /\ stage # "fixup" /\ stage' # "idle" /\ status = "running" /\ entryFunc = 0
          /\ stage' = "fixup" => cursor' = 1
      BY <1>9 DEF ReadEmptyChunk, At, ReadInv, build
    <2>2. NumbersInv' /\ Table' = Table /\ Phase' = Phase
      BY <2>1 DEF TableInv, NumbersInv, Live, Table, Phase
    <2>3. LedgerInv'
      <3>1. Live(self.ledger) => \A i \in DOMAIN Ledger : ~(i < 1)
        <4>1. Live(self.ledger) => Ledger \in Seq(LedgerEntry)
          BY ImagesAssumption DEF TableInv, LedgerInv, Ledger
        <4>2. QED
          BY <4>1
      <3>2. QED
        BY <2>1, <3>1 DEF TableInv, LedgerInv, Live, Ledger
    <2>4. QED
      BY <2>1, <2>2, <2>3, CatalogStep DEF TableInv
  <1>10. QED
    BY <1>1, <1>2, <1>3, <1>4, <1>5, <1>6, <1>7, <1>8, <1>9 DEF Read

(* An entry of the ledger, whatever becomes of it.                           *)
LEMMA EntryImplements ==
  ASSUME TypeOK, TableInv, AtEntry, Advance,
         DOMAIN heap' = DOMAIN heap, \A b \in DOMAIN heap : heap'[b].image = heap[b].image,
         detectedError => detectedError',
         Entry.kind = "ExternalFunc" => Entry.name \in provided \/ detectedError',
         \/ entryFunc' = entryFunc
         \/ entryFunc' = cursor /\ Entry.kind = "Func" /\ Entry.name = "main"
  PROVE  TableInv' /\ [Abstract!Next]_(Abstract!vars)
  <1>1. /\ UNCHANGED <<provided, self, stream, stage, allocated>> /\ cursor' = cursor + 1
        /\ status = "running" /\ stage = "fixup" /\ Live(self.ledger) /\ cursor \in DOMAIN Ledger
    BY DEF Advance, AtEntry, At, Aligned, build
  <1>2. Ledger' = Ledger /\ Ledger \in Images
    BY <1>1 DEF Ledger, Live, TableInv, LedgerInv
  <1>3. \A i \in DOMAIN Ledger : i < cursor + 1 => i < cursor \/ i = cursor
    <2>1. Ledger \in Seq(LedgerEntry)
      BY <1>2, ImagesAssumption
    <2>2. \A i \in DOMAIN Ledger : i \in Nat
      BY <2>1
    <2>3. QED
      BY <1>1, <2>2
  <1>4. NumbersInv'
    BY <1>1 DEF TableInv, NumbersInv
  <1>5. LedgerInv'
    <2>1. /\ entryFunc # 0 =>
               entryFunc \in DOMAIN Ledger /\ Ledger[entryFunc].kind = "Func"
                 /\ Ledger[entryFunc].name = "main"
          /\ \A i \in DOMAIN Ledger :
               i < cursor /\ Ledger[i].kind = "ExternalFunc" =>
                 Ledger[i].name \in provided \/ detectedError
      BY <1>1 DEF TableInv, LedgerInv
    <2>2. Live(self.ledger)' /\ heap'[self.ledger].image \in Images
      BY <1>1, <1>2 DEF Live, Ledger
    <2>3. entryFunc' # 0 =>
            entryFunc' \in DOMAIN Ledger /\ Ledger[entryFunc'].kind = "Func"
              /\ Ledger[entryFunc'].name = "main"
      BY <1>1, <2>1 DEF Entry
    <2>4. \A i \in DOMAIN Ledger :
            i < cursor + 1 /\ Ledger[i].kind = "ExternalFunc" =>
              Ledger[i].name \in provided \/ detectedError'
      BY <1>3, <2>1 DEF Entry
    <2>5. QED
      BY <1>1, <1>2, <2>2, <2>3, <2>4 DEF LedgerInv
  <1>6. Table' = Table
    BY <1>1 DEF Table, Live
  <1>7. Phase = "busy" /\ Phase' \in {"busy", "stopped"}
    BY <1>1 DEF Phase
  <1>8. QED
    BY <1>1, <1>4, <1>5, <1>6, <1>7, CatalogStep DEF TableInv

LEMMA FixupImplements ==
  TypeOK /\ ReadInv /\ TableInv /\ Fixup => TableInv' /\ [Abstract!Next]_(Abstract!vars)
  <1> SUFFICES ASSUME TypeOK, ReadInv, TableInv, Fixup
               PROVE  TableInv' /\ [Abstract!Next]_(Abstract!vars)
    OBVIOUS
  <1>1. ASSUME AtEntry, NEW bound, RelocateTo(bound)
        PROVE  DOMAIN heap' = DOMAIN heap /\ \A b \in DOMAIN heap : heap'[b].image = heap[b].image
    BY <1>1, RelocationIsExact DEF AtEntry, Aligned
  <1>2. CASE FixupFunc
    BY <1>1, <1>2, EntryImplements DEF FixupFunc
  <1>3. CASE FixupExternalFunc
    BY <1>1, <1>3, EntryImplements DEF FixupExternalFunc
  <1>4. CASE FixupUnsupportedFunc
    BY <1>1, <1>4, EntryImplements DEF FixupUnsupportedFunc
  <1>5. CASE FixupMissingFunc
    BY <1>1, <1>5, EntryImplements DEF FixupMissingFunc
  <1>6. CASE FixupData
    BY <1>1, <1>6, EntryImplements DEF FixupData
  <1>7. CASE FixupUnknown
    BY <1>7, EntryImplements DEF FixupUnknown
  <1>8. CASE FixupAstray
    <2>1. TableInv' /\ Table' = Table
      BY <1>8 DEF FixupAstray, Stops, At, TableInv, NumbersInv, LedgerInv, Live, Table
    <2>2. provided' = provided /\ Phase' = "stopped"
      BY <1>8 DEF FixupAstray, Stops, build, Phase
    <2>3. QED
      BY <2>1, <2>2, CatalogStep
  <1>9. CASE FixupEnds
    <2>1. status = "running" /\ stage = "fixup" /\ Aligned /\ cursor = Len(Ledger) + 1
      BY <1>9 DEF FixupEnds, At
    <2>2. CASE detectedError \/ entryFunc = 0
      BY <1>9, <2>1, <2>2, ReturnsImplements DEF FixupEnds
    <2>3. CASE ~(detectedError \/ entryFunc = 0)
      <3>1. /\ self' = [self EXCEPT !.entry = [block |-> Base, at |-> entryFunc]]
            /\ Returns("accepted", heap)
        BY <1>9, <2>3 DEF FixupEnds
      <3>2. /\ self'.entry.block = Base /\ self'.constants = Base /\ self'.ledger = self.ledger
        BY <3>1 DEF TypeOK, Base
      <3>3. /\ DOMAIN heap' = DOMAIN heap \ {stream} /\ \A b \in DOMAIN heap' : heap'[b] = heap[b]
            /\ allocated' = allocated /\ status' = status /\ stage' = "idle" /\ provided' = provided
        BY <3>1 DEF Returns, build
      <3>4. Base # stream /\ Live(Base) /\ Live(self.ledger)
        BY <2>1 DEF TableInv, NumbersInv, Base, Aligned
      <3>5. TableInv'
        BY <3>2, <3>3 DEF TableInv, NumbersInv, LedgerInv, Live, Base
      <3>6. Table' = Ledger
        BY <2>1, <3>2, <3>3, <3>4 DEF Table, Live, Aligned
      <3>7. Ledger \in Images
        BY <3>4 DEF TableInv, LedgerInv, Ledger
      <3>8. \A i \in DOMAIN Ledger : i < cursor
        <4>1. Ledger \in Seq(LedgerEntry)
          BY <3>7, ImagesAssumption
        <4>2. QED
          BY <2>1, <4>1
      <3>9. Abstract!Complete(Ledger)
        BY <2>1, <2>3, <3>4, <3>8
        DEF Abstract!Complete, Abstract!Entries, TableInv, LedgerInv
      <3>10. Abstract!Complete(Table')
        BY <3>6, <3>9 DEF Abstract!Complete, Abstract!Entries
      <3>11. Phase = "busy" /\ Phase' = "idle"
        BY <2>1, <3>3 DEF Phase
      <3>12. QED
        BY <3>3, <3>5, <3>6, <3>7, <3>10, <3>11, CatalogStep
    <2>4. QED
      BY <2>2, <2>3
  <1>10. QED
    BY <1>2, <1>3, <1>4, <1>5, <1>6, <1>7, <1>8, <1>9 DEF Fixup

LEMMA FreeImplements ==
  TypeOK /\ TableInv /\ (Free \/ FreeWild) => TableInv' /\ [Abstract!Next]_(Abstract!vars)
  <1> SUFFICES ASSUME TypeOK, TableInv, Free \/ FreeWild
               PROVE  TableInv' /\ [Abstract!Next]_(Abstract!vars)
    OBVIOUS
  <1>1. CASE Free
    <2>1. /\ DOMAIN heap' \subseteq DOMAIN heap /\ \A b \in DOMAIN heap' : heap'[b] = heap[b]
          /\ UNCHANGED <<provided, status, stage, stream, self, allocated, cursor, entryFunc, detectedError>>
          /\ status = "running" /\ stage = "idle"
      BY <1>1 DEF Free, Without, At, build, walk
    <2>2. TableInv' /\ Table' \in {Table, NoImage}
      BY <2>1 DEF TableInv, NumbersInv, LedgerInv, Live, Table
    <2>3. Phase = "idle" /\ Phase' = "idle"
      BY <2>1 DEF Phase
    <2>4. QED
      BY <2>1, <2>2, <2>3, CatalogStep
  <1>2. CASE FreeWild
    <2>1. TableInv' /\ Table' = Table
      BY <1>2 DEF FreeWild, TableInv, NumbersInv, LedgerInv, Live, Table
    <2>2. provided' = provided /\ Phase' = "stopped"
      BY <1>2 DEF FreeWild, build, Phase
    <2>3. QED
      BY <2>1, <2>2, CatalogStep
  <1>3. QED
    BY <1>1, <1>2

(* The safety part of ImplementsCatalog: the host never gets a table that is *)
(* not whole, and a table it has never changes under it.                     *)
THEOREM LoadingImplementsCatalog == Spec => Abstract!Init /\ [][Abstract!Next]_(Abstract!vars)
  <1>1. Init => TableInv /\ Abstract!Init
    <2>1. heap = << >> => \A b : b \notin DOMAIN heap
      OBVIOUS
    <2>2. QED
      BY <2>1 DEF Init, TableInv, NumbersInv, LedgerInv, Live, NullEntry, Unset, Abstract!Init
  <1>2. TypeOK /\ ReadInv /\ TableInv /\ [Next]_vars => TableInv' /\ [Abstract!Next]_(Abstract!vars)
    <2>1. TableInv /\ UNCHANGED vars => TableInv' /\ Phase' = Phase /\ Table' = Table /\ provided' = provided
      BY DEF TableInv, NumbersInv, LedgerInv, Live, Ledger, Phase, Table, vars, build, walk
    <2>2. TableInv /\ UNCHANGED vars => TableInv' /\ [Abstract!Next]_(Abstract!vars)
      BY <2>1, CatalogStep
    <2>3. QED
      BY <2>2, ReadImplements, FixupImplements, FreeImplements DEF Next
  <1>3. QED
    BY <1>1, <1>2, TypeCorrect, ReadInvariant, PTL DEF Spec
=============================================================================
