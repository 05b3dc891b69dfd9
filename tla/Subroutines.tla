----------------------------- MODULE Subroutines -----------------------------
(***************************************************************************)
(* What calling and returning mean to a Swamp program and to the host      *)
(* functions it calls, without call stack entries, saved registers or      *)
(* machine contexts.  An activation of the interpreter is the sequence of  *)
(* frames of its calls.  A return goes on in the caller from where it was, *)
(* with the frame it had, and so does the return of a host function, that  *)
(* can have run other activations meanwhile.                               *)
(***************************************************************************)
EXTENDS Naturals, Sequences

CONSTANTS
  Internal,  \* the functions
  Places,    \* the places in their code
  Bases      \* where frames can begin on the data stack

VARIABLES
  stack,  \* the activations of the interpreter, oldest first
  calls   \* how many of them wait for a host function they called: the first ones

vars == <<stack, calls>>

Frame(f, at, bp) == [pc |-> [code |-> f, at |-> at], bp |-> bp]

\* A host function called by the last activation has control, or the program.
Hosting == calls = Len(stack)
Frames == stack[Len(stack)]
Active == Frames[Len(Frames)]
FramesBecome(frames) == stack' = [stack EXCEPT ![Len(stack)] = frames]
ActiveAt(at) == [Frames EXCEPT ![Len(Frames)].pc.at = at]

Init == stack = << >> /\ calls = 0

\* The host has the interpreter run f.
Run(f) == Hosting /\ stack' = Append(stack, <<Frame(f, 1, 0)>>) /\ UNCHANGED calls

GoOn(at) == ~Hosting /\ at > Active.pc.at /\ FramesBecome(ActiveAt(at)) /\ UNCHANGED calls

Again == ~Hosting /\ FramesBecome(ActiveAt(1)) /\ UNCHANGED calls

Call(f, bp) ==
  /\ ~Hosting /\ bp >= Active.bp
  /\ FramesBecome(Append(ActiveAt(Active.pc.at + 1), Frame(f, 1, bp)))
  /\ UNCHANGED calls

Return ==
  /\ ~Hosting /\ Len(Frames) > 1
  /\ FramesBecome(SubSeq(Frames, 1, Len(Frames) - 1))
  /\ UNCHANGED calls

End ==
  /\ ~Hosting /\ Len(Frames) = 1
  /\ stack' = SubSeq(stack, 1, Len(stack) - 1)
  /\ UNCHANGED calls

CallHost == ~Hosting /\ FramesBecome(ActiveAt(Active.pc.at + 1)) /\ calls' = calls + 1

ReturnHost == Hosting /\ calls > 0 /\ calls' = calls - 1 /\ UNCHANGED stack

Next ==
  \/ \E f \in Internal : Run(f) \/ \E bp \in Bases : Call(f, bp)
  \/ \E at \in Places : GoOn(at)
  \/ Again \/ Return \/ End \/ CallHost \/ ReturnHost

Spec == Init /\ [][Next]_vars
=============================================================================
