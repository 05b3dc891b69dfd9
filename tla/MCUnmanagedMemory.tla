-------------------------- MODULE MCUnmanagedMemory --------------------------
(* UnmanagedMemory with two registries of two slots and four objects: enough *)
(* for a registry to fill, for a full target and for an object in the second *)
(* slot behind a gap in the first.  Objects and registries are interchangeable.*)
EXTENDS UnmanagedMemory, TLC

CONSTANTS r1, r2, o1, o2, o3, o4

MCRegistries == {r1, r2}
MCObjects == {o1, o2, o3, o4}
Interchangeable == Permutations(MCRegistries) \cup Permutations(MCObjects)
=============================================================================
