------------------------------ MODULE MCLoader ------------------------------
(***************************************************************************)
(* Loader on four packages: one with the kinds of entries a program needs, *)
(* one with a host function of six parameters before main, one with no     *)
(* main, and one with two, every kind of data and an entry of a kind the   *)
(* runtime does not know.                                                  *)
(***************************************************************************)
EXTENDS Loader

Item(kind, name, count, pointers) ==
  [kind |-> kind, name |-> name, parameterCount |-> count, pointers |-> pointers]

Usual == <<Item("String", "", 0, {"p1"}),
           Item("ExternalFunc", "f", 2, {"p2"}),
           Item("Func", "main", 1, {"p3", "p4"})>>
Wide == <<Item("ExternalFunc", "g", 6, {"p1"}), Item("Func", "main", 0, {"p2"})>>
NoMain == <<Item("Func", "init", 0, {"p1"})>>
Data == <<Item("DebugInfoFiles", "", 0, {"p1"}), Item("ResourceNameChunk", "", 0, {"p2"}),
          Item("ResourceName", "", 0, {}), Item("Unknown", "", 0, {}),
          Item("Func", "main", 0, {"p3"}), Item("Func", "main", 0, {"p4"})>>

MCImages == {Usual, Wide, NoMain, Data}
MCPointers == {"p1", "p2", "p3", "p4"}
MCHostNames == {"f", "g"}
=============================================================================
