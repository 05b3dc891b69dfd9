------------------------------ MODULE Catalog -------------------------------
(***************************************************************************)
(* What loading a package promises the host.  The host asks for a package; *)
(* the answer is a table of functions ready to run, or a refusal.  A table *)
(* is whole: it has a main function and every host function it names was   *)
(* provided.  A table the host has is only replaced by another one or      *)
(* lost, it never changes under the host.                                  *)
(***************************************************************************)
EXTENDS Naturals, Sequences

CONSTANTS
  Images,  \* the packages: each the sequence of entries of its ledger
  NoImage  \* no package

VARIABLES
  provided,  \* the names of the host functions the host can resolve
  phase,     \* "idle", "busy" while a package is asked for, "stopped"
  table      \* the package whose functions the host can run

vars == <<provided, phase, table>>

Entries(image) == {image[i] : i \in DOMAIN image}

Complete(image) ==
  /\ \E e \in Entries(image) : e.kind = "Func" /\ e.name = "main"
  /\ \A e \in Entries(image) : e.kind = "ExternalFunc" => e.name \in provided

Init == phase = "idle" /\ table = NoImage

Ask == phase = "idle" /\ phase' = "busy" /\ UNCHANGED <<provided, table>>

Accept(image) ==
  /\ phase = "busy" /\ Complete(image)
  /\ phase' = "idle" /\ table' = image /\ UNCHANGED provided

\* A table from before survives a refusal or is lost by it.
Refuse ==
  /\ phase = "busy"
  /\ phase' = "idle" /\ table' \in {table, NoImage} /\ UNCHANGED provided

Release == phase = "idle" /\ table' \in {table, NoImage} /\ UNCHANGED <<provided, phase>>

Stop == phase' = "stopped" /\ UNCHANGED <<provided, table>>

Answer == (\E image \in Images : Accept(image)) \/ Refuse \/ (phase = "busy" /\ Stop)

Next == Ask \/ Answer \/ Release \/ Stop

\* Every request is answered, or the process has stopped.
Spec == Init /\ [][Next]_vars /\ WF_vars(Answer)
=============================================================================
