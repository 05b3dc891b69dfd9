---------------------------- MODULE CompactValues ----------------------------
(***************************************************************************)
(* What a state of Compact means, and what reclaiming its memory must keep *)
(* of it.  The operators follow the pointers of a value down to its        *)
(* leaves.                                                                 *)
(***************************************************************************)
EXTENDS Compact, SequencesExt

Words(words, offset, t) == SubSeq(words, offset + 1, offset + SizeOf(t))

VariantOf(words, t) == TypeInfo[t].variants[words[1][1] + 1]

\* The items of a cell, each a sequence of words.
ItemsOf(cell, item) ==
  [i \in 1 .. cell.count |-> Words(cell.words, (i - 1) * SizeOf(item), item)]

\* A value as a tree, with no address in it: a pointer to nothing is << >>,
\* an object is the one it was first cloned from.
RECURSIVE Tree(_, _)
Tree(words, t) ==
  LET FieldTrees(fields) ==
        [i \in DOMAIN fields |-> Tree(Words(words, fields[i].offset, fields[i].type), fields[i].type)]
  IN CASE Kind(t) = "record" -> FieldTrees(TypeInfo[t].fields)
       [] Kind(t) = "custom" -> <<words[1], FieldTrees(VariantOf(words, t))>>
       [] Kind(t) = "alias" -> Tree(words, TypeInfo[t].item)
       [] Kind(t) = "unmanaged" -> origin[words[1]]
       [] Kind(t) \in {"octets", "list"} /\ words[1] \notin DOMAIN mem -> << >>
       [] Kind(t) = "octets" /\ words[1] \in DOMAIN mem -> mem[words[1]].words
       [] Kind(t) = "list" /\ words[1] \in DOMAIN mem ->
            LET items == ItemsOf(mem[words[1]], TypeInfo[t].item)
            IN <<[i \in DOMAIN items |-> Tree(items[i], TypeInfo[t].item)]>>
       [] OTHER -> words[1]

\* The cells and objects a value refers to, however deep.
RECURSIVE Reached(_, _)
Reached(words, t) ==
  LET InFields(fields) ==
        UNION {Reached(Words(words, fields[i].offset, fields[i].type), fields[i].type) : i \in DOMAIN fields}
  IN CASE Kind(t) = "record" -> InFields(TypeInfo[t].fields)
       [] Kind(t) = "custom" -> InFields(VariantOf(words, t))
       [] Kind(t) = "alias" -> Reached(words, TypeInfo[t].item)
       [] Kind(t) = "unmanaged" -> {words[1]}
       [] Kind(t) = "octets" -> {words[1]}
       [] Kind(t) = "list" ->
            {words[1]} \cup
              (IF words[1] \notin DOMAIN mem THEN {}
               ELSE UNION {Reached(i, TypeInfo[t].item) : i \in ToSet(ItemsOf(mem[words[1]], TypeInfo[t].item))})
       [] OTHER -> {}

NoState == << >>
ReachedByState == IF state = NoState THEN {} ELSE Reached(state, stateType)
-----------------------------------------------------------------------------
(* Reclaiming memory keeps the value of the state, and exactly the objects  *)
(* it uses: the detailed copy implements Reclamation.                       *)
Promise == INSTANCE Reclamation WITH
  NoValue   <- NoState,
  running   <- status = "running",
  computing <- phase = "main",
  value     <- IF state = NoState THEN NoState ELSE Tree(state, stateType),
  uses      <- ReachedByState \cap Objects,
  live      <- Registry!Live

KeepsTheState == Promise!Spec
=============================================================================
