----------------------------- MODULE Reclamation -----------------------------
(***************************************************************************)
(* What the two-arena scheme of compact.c promises the program and its     *)
(* host, without arenas, pointers or registries.  A tick computes a value; *)
(* collecting then keeps that value and exactly the objects it uses.       *)
(* Nothing else ever destroys an object.                                   *)
(***************************************************************************)

CONSTANT NoValue

VARIABLES
  running,    \* the process was not stopped by an error
  computing,  \* the program runs, as opposed to: its value is to be kept
  value,      \* the last computed value, objects standing for what they cloned
  uses,       \* the objects that value refers to
  live        \* the objects not destroyed

vars == <<running, computing, value, uses, live>>

Init ==
  /\ running = TRUE /\ computing = TRUE
  /\ value = NoValue /\ uses = {} /\ live = {}

\* The host makes objects, for the program or as clones.
Create ==
  /\ live \subseteq live'
  /\ UNCHANGED <<running, computing, value, uses>>

Compute ==
  /\ computing = TRUE
  /\ computing' = FALSE
  /\ uses' \subseteq live
  /\ UNCHANGED <<running, live>>

\* A clone uses other objects than its original: as many, or fewer than it
\* had references.
Collect ==
  /\ computing = FALSE
  /\ computing' = TRUE
  /\ live' = uses'
  /\ UNCHANGED <<running, value>>

Stop == running' = FALSE

Next == running = TRUE /\ (Create \/ Compute \/ Collect \/ Stop)

Spec == Init /\ [][Next]_vars
=============================================================================
