------------------------------ MODULE MCMachine ------------------------------
(* Machine with a program that calls, recurses, tail calls and branches, and *)
(* passes functions of every kind to the host's.                             *)
EXTENDS Machine, TLC

CONSTANTS main, step, add, map, mapToBlob, log, strange, partial, applied, root, t1, t2

MCInternal == {main, step, add}
MCExternal == {map, mapToBlob, log, strange}
MCCurried == {partial, applied}
MCCloses == (partial :> add) @@ (applied :> map)

Op(op, to, base) == [op |-> op, to |-> to, base |-> base]
MCCode ==
  (main :> <<Op("enum", {2, 3}, 0), Op("call", {step, add, partial}, 2), Op("sized", {map, log}, 1), Op("return", {}, 0)>>) @@
  (step :> <<Op("match", {2, 3, 4}, 0), Op("call", {step, mapToBlob}, 1), Op("tail", {}, 0),
             Op("sized", {map, strange}, 2), Op("return", {}, 0)>>) @@
  (add  :> <<Op("call", {log}, 1), Op("return", {}, 0)>>)
MCParameterCount == (main :> 0) @@ (step :> 1) @@ (add :> 2)
MCHigherOrder == {map, mapToBlob}
MCArguments == (map :> {step, partial, applied, log}) @@ (mapToBlob :> {step, partial})
MCPassesOne == {mapToBlob}
MCStrange == {strange}
MCContexts == {root, t1, t2}
Temporaries == Permutations({t1, t2})
=============================================================================
