\* Every build: with and without the allocation ledger, where CLOG_ERROR stops
\* the process and where it does not.
SPECIFICATION Spec
CONSTANTS
  MaxAllocatedSize = 12
  TooLarge = 20
  Word <- MCWord
  LedgerCapacity = 4
  Requests <- MCRequests
CONSTRAINT BlocksBound
INVARIANTS TypeOK BlocksDisjoint BlocksAligned ChecksPreventFault
PROPERTIES OnlyResetFrees
\* The process stops at a trap or an abort.
CHECK_DEADLOCK FALSE
