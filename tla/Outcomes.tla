------------------------------ MODULE Outcomes ------------------------------
(***************************************************************************)
(* How a call of a native function of lib/core ends: it returns a value,   *)
(* it returns and leaves the octets for its result as they were, or the    *)
(* process stops.  CLOG_ERROR and swampPanic stop it where they trap.      *)
(***************************************************************************)
EXTENDS Integers, Sequences

CONSTANTS
  Half,          \* integers are -Half .. Half - 1; 2^31 in the code
  Capacity       \* items the arena has room for

ASSUME HalfAssumption == Half \in Nat \ {0}

\* The arena is smaller than the largest integer.
ASSUME CapacityAssumption == Capacity \in 0 .. Half - 1

Integers32 == -Half .. Half - 1

\* Sums and products wrap, as they do in the machine code.
Int32(n) == ((n + Half) % (2 * Half)) - Half

Returned(v) == [how |-> "returned", value |-> v]
NotSet == [how |-> "notSet"]
Stopped(how) == [how |-> how]

IsReturned(outcome) == outcome.how = "returned"
IsStopped(outcome) == outcome.how \in {"trap", "abort", "fault"}

\* After CLOG_ERROR the function goes on to `then`, unless it traps.
AfterError(traps, then) == IF traps THEN Stopped("trap") ELSE then

\* swampPanic returns like any function where CLOG_BREAK does nothing, and its
\* callers return then, with nothing written.
Panic(traps) == AfterError(traps, NotSet)

\* An allocation of count items, taken as an unsigned number, where
\* Capacity fit: `then` follows.  The size check only logs where errors do not trap; what
\* it lets through is found by the check of the arena's end, or, if the size
\* wrapped past that, written to.
Allocated(traps, count, then) ==
  CASE count \in 0 .. Capacity -> then
    [] count > Capacity -> {Stopped(how) : how \in {"abort"} \cup IF traps THEN {"trap"} ELSE {}}
    [] OTHER -> {Stopped(how) : how \in IF traps THEN {"trap"} ELSE {"abort", "fault"}}

\* A string of these characters, with room for the zero behind them.
Text(traps, characters) == Allocated(traps, Len(characters) + 1, {Returned(characters)})

\* A Maybe: Nothing, or Just one value.
Nothing == << >>
Just(v) == <<v>>
=============================================================================
