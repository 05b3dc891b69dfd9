------------------------------- MODULE Machine -------------------------------
(***************************************************************************)
(* The interpreter of lib/swamp.c with the machine contexts of             *)
(* lib/context.c: how compiled functions call, tail call and return, how   *)
(* they call the host's functions, and how those run a Swamp function they *)
(* were given, on a temporary context of their own and in a nested         *)
(* swampRun.                                                               *)
(*                                                                         *)
(* A context keeps an array of call stack entries and a count.  The entry  *)
(* of the function that runs is not up to date: swampRun holds its program *)
(* counter and base pointer in C locals, and writes them back only where   *)
(* it calls.  The C stack is part of the state for that reason: the        *)
(* activations of swampRun, and those of external functions, oldest first. *)
(* The host runs runs[1], which calls hosts[1], which runs runs[2], ...    *)
(*                                                                         *)
(* Opcodes that only compute are left out.  The operands that are Swamp    *)
(* values (which function, which branch) are chosen from those the         *)
(* instruction lists.  status is as in DynamicMemory: "fault" is undefined *)
(* behaviour of the C code.                                                *)
(***************************************************************************)
EXTENDS Naturals, Sequences

CONSTANTS
  Internal,        \* the SwampFunc: functions compiled to opcodes
  External,        \* the SwampFunctionExternal: functions of the host
  Curried,         \* the SwampCurryFunc: closures
  NoFunction,      \* what an entry holds before it is first written
  Closes,          \* curryFunction of a closure
  Code,            \* the opcodes of an internal function
  ParameterCount,  \* parameterCount of an internal function
  HigherOrder,     \* the external functions that run a function argument
  Arguments,       \* the functions a higher order function can be given
  PassesOne,       \* those that pass parameterCount 1, whatever the function
  Strange,         \* those with a parameter count no call opcode handles
  Contexts,        \* the SwampMachineContext structs of the process
  Root,            \* the one the host set up with swampContextInit
  NoContext,
  MaxFrame,        \* the largest frame of a function
  MaxCount,        \* maxCount of a call stack, 1024 in the code
  ErrorTraps,      \* does CLOG_ERROR stop the process?
  HasDebugInfo     \* did the host give Root the debug infos of its code?

Functions == Internal \cup External \cup Curried

\* An instruction names the places of its own function it may go on at, and a
\* call the offset of the callee's frame; jump operands are unsigned, so no
\* jump goes backwards.
IsInstruction(f, i) ==
  LET instr == Code[f][i]
      Ahead == i + 1 .. Len(Code[f])
  IN /\ instr.op \in {"return", "tail", "match", "enum", "call", "sized"}
     /\ instr.op \in {"match", "enum"} => instr.to \subseteq Ahead
     /\ instr.op \in {"call", "sized"} =>
          /\ Ahead # {}
          /\ instr.to \subseteq IF instr.op = "call" THEN Functions ELSE External
          /\ instr.base \in 0 .. MaxFrame

ASSUME FunctionsAssumption ==
  /\ Internal \cap External = {} /\ Internal \cap Curried = {} /\ External \cap Curried = {}
  /\ NoFunction \notin Functions
  /\ Closes \in [Curried -> Internal \cup External]
  /\ Arguments \in [HigherOrder -> SUBSET Functions]
  /\ PassesOne \subseteq HigherOrder /\ HigherOrder \subseteq External /\ Strange \subseteq External
ASSUME CodeAssumption ==
  /\ DOMAIN Code = Internal
  /\ ParameterCount \in [Internal -> Nat]
  /\ \A f \in Internal :
       /\ Len(Code[f]) \in Nat \ {0}
       /\ \A i \in 1 .. Len(Code[f]) : IsInstruction(f, i)
ASSUME ContextsAssumption == Root \in Contexts /\ NoContext \notin Contexts
ASSUME BoundsAssumption == MaxCount \in Nat \ {0} /\ MaxFrame \in Nat
ASSUME ErrorTrapsAssumption == ErrorTraps \in BOOLEAN /\ HasDebugInfo \in BOOLEAN

VARIABLES
  live,     \* the contexts whose memory is allocated
  entries,  \* callStack.entries, of every context
  count,    \* callStack.count, of every context
  runs,     \* the activations of swampRun
  hosts,    \* the activations of external functions
  status

vars == <<live, entries, count, runs, hosts, status>>

Start(f) == [code |-> f, at |-> 1]
Entry(f, pc, bp) == [func |-> f, pc |-> pc, bp |-> bp]
Unwritten == Entry(NoFunction, Start(NoFunction), 0)
NoEntries == [k \in 0 .. MaxCount - 1 |-> Unwritten]

\* In swampRun: the context, the index of call_stack_entry, pc and bp.
Run(c, entry, pc, bp) == [context |-> c, entry |-> entry, pc |-> pc, bp |-> bp]

\* In an external function: its temporary context, its function argument, and
\* what the last swampRun it called returned.  saves is a history variable: it
\* was called by an opcode that saves the program counter.
Hosted(e, own, fn, returned, saves) ==
  [external |-> e, own |-> own, fn |-> fn, returned |-> returned, saves |-> saves]

AllBut(s) == SubSeq(s, 1, Len(s) - 1)
Running == status = "running" /\ Len(runs) > Len(hosts)
Hosting == status = "running" /\ Len(runs) = Len(hosts)
Calling == Hosting /\ hosts # << >>
Top == runs[Len(runs)]
Host == hosts[Len(hosts)]
TopBecomes(r) == runs' = [runs EXCEPT ![Len(runs)] = r]
HostBecomes(h) == hosts' = [hosts EXCEPT ![Len(hosts)] = h]

PCs == [code : Internal, at : Nat \ {0}]
Entries == [0 .. MaxCount - 1 -> [func : Internal, pc : PCs, bp : Nat] \cup {Unwritten}]
Activations == [context : Contexts, entry : 0 .. MaxCount - 1, pc : PCs, bp : Nat]
HostActivations ==
  [external : External, own : Contexts \cup {NoContext}, fn : Functions \cup {NoFunction},
   returned : {"none", "ok", "-2", "-3"}, saves : BOOLEAN]

TypeOK ==
  /\ live \subseteq Contexts
  /\ entries \in [Contexts -> Entries]
  /\ count \in [Contexts -> 0 .. MaxCount]
  /\ runs \in Seq(Activations)
  /\ hosts \in Seq(HostActivations)
  /\ status \in {"running", "trap", "abort", "fault"}

-----------------------------------------------------------------------------
Stop(how) == status' = how /\ UNCHANGED <<live, entries, count, runs, hosts>>

\* A context is set up, or its memory freed.
Blank(c) ==
  /\ entries' = [entries EXCEPT ![c] = NoEntries]
  /\ count' = [count EXCEPT ![c] = 0]

Init ==
  /\ live = {}
  /\ entries = [c \in Contexts |-> NoEntries]
  /\ count = [c \in Contexts |-> 0]
  /\ runs = << >>
  /\ hosts = << >>
  /\ status = "running"

\* swampContextInit.
InitContext ==
  /\ Hosting /\ Root \notin live
  /\ live' = live \cup {Root}
  /\ Blank(Root)
  /\ UNCHANGED <<runs, hosts, status>>

\* swampContextDestroy, by a host that does not run the program.
DestroyContext ==
  /\ Hosting /\ hosts = << >> /\ Root \in live
  /\ live' = live \ {Root}
  /\ Blank(Root)
  /\ UNCHANGED <<runs, hosts, status>>

\* swampRun up to its loop: entry 0 is written before the parameters and the
\* result are looked at, and the count is taken to be 0.
Accepts(parametersAgree, sizesAgree) ==
  IF ~parametersAgree THEN "-3" ELSE IF ~sizesAgree THEN "-2" ELSE "ok"

\* Mutant of Rooted: entry 0 is not written.
RootedForgotten(c, f) == entries
Rooted(c, f) == [entries EXCEPT ![c][0] = Entry(f, Start(f), 0)]

SwampRun(c, f, accepts) ==
  /\ entries' = Rooted(c, f)
  /\ runs' = IF accepts = "ok" THEN Append(runs, Run(c, 0, Start(f), 0)) ELSE runs
  /\ UNCHANGED <<live, count, status>>

\* The host runs a function of the program; its parameters and its result may
\* not fit the function.
HostRuns(f, parametersAgree, sizesAgree) ==
  /\ Hosting /\ hosts = << >> /\ Root \in live
  /\ SwampRun(Root, f, Accepts(parametersAgree, sizesAgree))
  /\ UNCHANGED hosts

-----------------------------------------------------------------------------
Instr == Code[Top.pc.code][Top.pc.at]
After == [Top.pc EXCEPT !.at = @ + 1]

\* SwampOpcodeReturn with an empty call stack: out of swampRun, to the external
\* function below it or to the host.
ReturnFromRun ==
  /\ Running /\ Instr.op = "return" /\ count[Top.context] = 0
  /\ runs' = AllBut(runs)
  /\ hosts' = IF hosts = << >> THEN hosts ELSE [hosts EXCEPT ![Len(hosts)].returned = "ok"]
  /\ UNCHANGED <<live, entries, count, status>>

\* Mutant of Resumed: the frame of the callee is kept.
ResumedWithFrame(c, k) == Run(c, k, entries[c][k].pc, Top.bp)
Resumed(c, k) == Run(c, k, entries[c][k].pc, entries[c][k].bp)

\* SwampOpcodeReturn to the caller in the same swampRun.
Return ==
  /\ Running /\ Instr.op = "return" /\ count[Top.context] # 0
  /\ LET k == count[Top.context] - 1
     IN count' = [count EXCEPT ![Top.context] = k] /\ TopBecomes(Resumed(Top.context, k))
  /\ UNCHANGED <<live, entries, hosts, status>>

\* SwampOpcodeTailCall.
TailCall ==
  /\ Running /\ Instr.op = "tail"
  /\ LET start == Start(entries[Top.context][Top.entry].func)
     IN /\ entries' = [entries EXCEPT ![Top.context][Top.entry].pc = start]
        /\ TopBecomes([Top EXCEPT !.pc = start])
  /\ UNCHANGED <<live, count, hosts, status>>

\* The jumps and branches, and the opcodes that select one of several places.
Jump ==
  /\ Running /\ Instr.op \in {"match", "enum"}
  /\ \E at \in Instr.to : TopBecomes([Top EXCEPT !.pc.at = at])
  /\ UNCHANGED <<live, entries, count, hosts, status>>

\* SwampOpcodeEnumCase with a value no case names: pc becomes null.
NoCase ==
  /\ Running /\ Instr.op = "enum"
  /\ Stop(IF ErrorTraps THEN "trap" ELSE "fault")

\* Mutant of Saved: pc and bp stay in the locals.
SavedForgotten(c) == entries
Saved(c) == [entries EXCEPT ![c][Top.entry] = Entry(@.func, After, Top.bp)]

\* Mutant of IsFull: one entry too late.
IsFullLate(k) == k > MaxCount
IsFull(k) == k = MaxCount

\* SwampOpcodeCall of an internal function.  Without room for its entry it is
\* written behind the array.
Call(f) ==
  /\ Running /\ Instr.op = "call" /\ f \in Instr.to \cap Internal
  /\ LET c == Top.context
         k == count[c] + 1
         bp == Top.bp + Instr.base
     IN /\ count' = [count EXCEPT ![c] = k]
        /\ IF IsFull(k)
             THEN /\ entries' = Saved(c)
                  /\ status' = IF ErrorTraps THEN "trap" ELSE "fault"
                  /\ UNCHANGED <<live, runs, hosts>>
             ELSE /\ entries' = [Saved(c) EXCEPT ![c][k] = Entry(f, Start(f), bp)]
                  /\ TopBecomes(Run(c, k, Start(f), bp))
                  /\ UNCHANGED <<live, hosts, status>>

\* The same opcode, given a closure: it reads the parametersOctetSize of a
\* SwampFunc, where the SwampCurryFunc has the pointer curryOctets, and moves
\* that many octets.
CallClosure ==
  /\ Running /\ Instr.op = "call" /\ Instr.to \cap Curried # {}
  /\ Stop("fault")

ArgumentsOf(e) == IF e \in HigherOrder THEN Arguments[e] ELSE {NoFunction}

\* An external function is entered, with one of the function arguments it can
\* be given.
Enter(e, fn, saves) ==
  /\ TopBecomes([Top EXCEPT !.pc = After])
  /\ hosts' = Append(hosts, Hosted(e, NoContext, fn, "none", saves))
  /\ UNCHANGED <<live, count, status>>

\* SwampOpcodeCall of an external function.
CallExternal(e, fn) ==
  /\ Running /\ Instr.op = "call" /\ e \in Instr.to \cap External
  /\ IF e \in Strange THEN Stop("abort") ELSE Enter(e, fn, FALSE) /\ UNCHANGED entries

\* Mutant of Positioned: the program counter is not saved.
PositionedForgotten == entries
Positioned == [entries EXCEPT ![Top.context][Top.entry].pc = Top.pc]

\* SwampOpcodeCallExternalWithSizes, SwampOpcodeCallExternalWithExtendedSizes.
CallExternalWithSizes(e, fn) ==
  /\ Running /\ Instr.op = "sized" /\ e \in Instr.to
  /\ IF e \in Strange THEN Stop("abort")
     ELSE Enter(e, fn, TRUE) /\ entries' = Positioned

-----------------------------------------------------------------------------
\* An external function that runs its function argument first makes a
\* temporary context: swampContextCreateTemp, which wants debug infos in the
\* context it is made from.
Own(c) ==
  /\ live' = live \cup {c}
  /\ Blank(c)
  /\ HostBecomes([Host EXCEPT !.own = c])
  /\ UNCHANGED <<runs, status>>

CreateTemp(c) ==
  /\ Calling /\ Host.external \in HigherOrder /\ Host.own = NoContext
  /\ c \notin live
  /\ IF ErrorTraps /\ ~HasDebugInfo THEN Stop("trap") ELSE Own(c)

\* swampExecutePrepare: the compiled function behind a function value.
Prepared(fn) == IF fn \in Curried THEN Closes[fn] ELSE fn

\* For each item it prepares the call on its own context and runs the
\* function there, in a nested swampRun whose result code it ignores.
RunArgument ==
  /\ Calling /\ Host.own # NoContext
  /\ LET f == Prepared(Host.fn)
         accepts == Accepts(Host.external \in PassesOne => ParameterCount[f] = 1, TRUE)
     IN IF f \in Internal
          THEN /\ SwampRun(Host.own, f, accepts)
               /\ HostBecomes([Host EXCEPT !.returned = IF accepts = "ok" THEN @ ELSE accepts])
          ELSE Stop(IF ErrorTraps /\ Host.fn \in External THEN "trap" ELSE "fault")

\* Mutant of LiveAfterDestroyTemp: the context leaks.
LiveAfterNothing == live
LiveAfterDestroyTemp == live \ {Host.own}

\* It returns, after swampContextDestroyTemp.
ReturnExternal ==
  /\ Calling
  /\ Host.external \in HigherOrder => Host.own # NoContext
  /\ live' = LiveAfterDestroyTemp
  /\ Blank(Host.own)
  /\ hosts' = AllBut(hosts)
  /\ UNCHANGED <<runs, status>>

Next ==
  \/ InitContext \/ DestroyContext
  \/ \E f \in Internal, parametersAgree, sizesAgree \in BOOLEAN : HostRuns(f, parametersAgree, sizesAgree)
  \/ ReturnFromRun \/ Return \/ TailCall \/ Jump \/ NoCase
  \/ \E f \in Internal : Call(f)
  \/ CallClosure
  \/ \E e \in External : \E fn \in ArgumentsOf(e) : CallExternal(e, fn) \/ CallExternalWithSizes(e, fn)
  \/ \E c \in Contexts : CreateTemp(c)
  \/ RunArgument \/ ReturnExternal

Spec == Init /\ [][Next]_vars

-----------------------------------------------------------------------------
\* What lib/debug.c and lib/debug_variables.c read at any moment: the entries
\* 0 .. count of a context in use were all written, each pc lies in the code
\* of its entry's own function, and the last one is of the running function
\* and its frame.
Readable(c, k) ==
  LET e == entries[c][k]
  IN e.func \in Internal /\ e.pc.code = e.func /\ e.pc.at \in 1 .. Len(Code[e.func])

EntriesAreReadable ==
  status = "running" => \A i \in DOMAIN runs :
    LET r == runs[i]
    IN /\ count[r.context] = r.entry
       /\ \A k \in 0 .. r.entry : Readable(r.context, k)
       /\ entries[r.context][r.entry].func = r.pc.code
       /\ entries[r.context][r.entry].bp = r.bp

\* A context is used by one swampRun at a time, and while its memory is
\* allocated; one that is not in use has an empty call stack, as the next
\* swampRun takes for granted.  The temporary contexts are those of the
\* external functions that have not returned.
InUse == {runs[i].context : i \in DOMAIN runs}
Owned == {hosts[i].own : i \in DOMAIN hosts} \ {NoContext}

ContextsAreOwned ==
  status = "running" =>
    /\ live \ {Root} = Owned /\ InUse \subseteq live
    /\ \A i, j \in DOMAIN runs : runs[i].context = runs[j].context => i = j
    /\ \A c \in live \ InUse : count[c] = 0

\* While an external function that was called with sizes runs, the top entry
\* of its caller is at that call, whatever nested runs do: the location that
\* core/debug.c logs.
PositionIsOfTheCall ==
  \A i \in DOMAIN hosts : hosts[i].saves =>
    LET r == runs[i]
    IN [entries[r.context][r.entry].pc EXCEPT !.at = @ + 1] = r.pc

\* A frame begins at most one frame above its caller's, so that the data stack
\* a context needs is bounded by the depth of its calls.
BoundedByDepth == \A i \in DOMAIN runs : runs[i].bp <= runs[i].entry * MaxFrame

\* An external function uses the result of a run that took place.
ResultsAreFresh == \A i \in DOMAIN hosts : hosts[i].returned \in {"none", "ok"}

\* Saving and restoring pc and bp in entries, across nested runs and their
\* contexts, implements subroutines: module Subroutines.
FramesOf(r) ==
  [k \in 1 .. r.entry + 1 |->
     IF k = r.entry + 1 THEN [pc |-> r.pc, bp |-> r.bp]
     ELSE [pc |-> entries[r.context][k - 1].pc, bp |-> entries[r.context][k - 1].bp]]
Abstract == INSTANCE Subroutines WITH
  Places <- UNION {1 .. Len(Code[f]) : f \in Internal},
  Bases <- 0 .. MaxCount * MaxFrame,
  stack <- [i \in DOMAIN runs |-> FramesOf(runs[i])],
  calls <- Len(hosts)
ImplementsSubroutines == Abstract!Spec
=============================================================================
