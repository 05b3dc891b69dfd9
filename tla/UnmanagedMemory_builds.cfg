SPECIFICATION Spec
CONSTANTS
  r1 = r1
  r2 = r2
  o1 = o1
  o2 = o2
  o3 = o3
  o4 = o4
  NoObject = NoObject
  Registries <- MCRegistries
  Objects <- MCObjects
  Capacity = 2
SYMMETRY Interchangeable
INVARIANTS TypeOK CountIsOccupied OneOwner NoneLost DestroyedAtMostOnce NoFreedObjectHeld
\* The process stops at a trap or a fault.
CHECK_DEADLOCK FALSE
