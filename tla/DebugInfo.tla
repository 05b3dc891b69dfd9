----------------------------- MODULE DebugInfo -----------------------------
(***************************************************************************)
(* The lookups of debug.c and debug_variables.c in the tables a package    *)
(* has for each function, and what core/debug.c shows with them.           *)
(*                                                                         *)
(* A table of lines has an entry [at, file, line, column] for each place   *)
(* where the source position changes, in the order of at, the position of  *)
(* the opcode.  A table of variables has an entry [start, end] for each.   *)
(* A frame is what an entry of a call stack leads to: the tables of its    *)
(* function and how far its program counter is behind the first opcode.    *)
(***************************************************************************)
EXTENDS Integers, Sequences, SequencesExt, Outcomes

CONSTANTS
  PositionLimit,     \* opcode positions are stored modulo this, 2^16 in the code
  MaxEntries         \* variables there is room for, 64 in the code

ASSUME LimitAssumption == PositionLimit \in Nat \ {0, 1} /\ MaxEntries \in Nat

OpcodePosition(frame) == frame.pc % PositionLimit

\* The last entry before the first that is behind the position; an entry with
\* line 0 or column 0 is none.  The index of the entry, 0 for none.
FindLines(lines, position) ==
  LET behind == {i \in DOMAIN lines : lines[i].at > position}
      found == {i \in DOMAIN lines :
                  /\ \A j \in behind : i < j
                  /\ lines[i].line # 0 /\ lines[i].column # 0}
  IN  IF found = {} THEN 0 ELSE Max(found)

FindLinesInFrame(frame) == FindLines(frame.lines, OpcodePosition(frame))

HasFile(fileCount, index) == index < fileCount

(***************************************************************************)
(* The place of one context, as Debug.log shows it: a text, or an error    *)
(* that leaves the text as it was.                                         *)
(***************************************************************************)
SingleLine(frame, fileCount) ==
  LET i == FindLinesInFrame(frame)
  IN  CASE i = 0 -> [kind |-> "nothing", entry |-> 0]
        [] i # 0 /\ HasFile(fileCount, frame.lines[i].file) -> [kind |-> "place", entry |-> i]
        [] OTHER -> [kind |-> "error", entry |-> 0]

(***************************************************************************)
(* The places of a context and all its parents, as swampPanic shows them.  *)
(* The text ends where a zero was written, which it is after a context     *)
(* nothing was found for.  A context may have a name of the engine.        *)
(***************************************************************************)
Token(kind, context, entry) == [kind |-> kind, context |-> context, entry |-> entry]

WriteLine(frame, k, fileCount) ==
  LET line == SingleLine(frame, fileCount)
  IN  CASE line.kind = "nothing" -> <<Token("nothing", k, 0), Token("zero", k, 0)>>
        [] line.kind = "place" -> <<Token("place", k, line.entry)>>
        [] OTHER -> << >>

LinesToString(frames, fileCount) ==
  FlattenSeq([k \in 1 .. Len(frames) |->
    WriteLine(frames[k], k, fileCount)
      \o (IF frames[k].named THEN <<Token("engine", k, 0)>> ELSE << >>)
      \o (IF k < Len(frames) THEN <<Token("lineEnd", k, 0)>> ELSE << >>)])

AsString(tokens) ==
  LET zeros == {k \in DOMAIN tokens : tokens[k].kind = "zero"}
  IN  IF zeros = {} THEN tokens ELSE SubSeq(tokens, 1, Min(zeros) - 1)

(***************************************************************************)
(* The variables that are alive, of one frame and of a call stack, from    *)
(* the running function down.  Too many in one frame are an error of all.  *)
(***************************************************************************)
TooMany == <<0>>

FindVariables(variables, position) ==
  LET IsAlive(i) == variables[i].start < position /\ position <= variables[i].end
      found[i \in 0 .. Len(variables)] ==
        IF i = 0 THEN << >> ELSE IF IsAlive(i) THEN Append(found[i - 1], i) ELSE found[i - 1]
      alive == found[Len(variables)]
  IN  IF Len(alive) > MaxEntries THEN TooMany ELSE alive

VariablesToString(frames) ==
  LET found == [k \in 1 .. Len(frames) |->
                  FindVariables(frames[k].variables, OpcodePosition(frames[k]))]
  IN  IF \E k \in DOMAIN found : found[k] = TooMany THEN << >> ELSE found

(***************************************************************************)
(* Debug.log and Debug.panic.  The string they return is a null pointer.   *)
(* Of a tuple each field is dumped, and any result but 0 is an error; of   *)
(* another value only a negative one is.                                   *)
(***************************************************************************)
DebugLog(traps, predicting, isTuple, dumped) ==
  IF ~predicting /\ (IF isTuple THEN dumped # 0 ELSE dumped < 0)
  THEN AfterError(traps, Returned(0))
  ELSE Returned(0)

DebugPanic(traps) == AfterError(traps, Returned(0))
=============================================================================
