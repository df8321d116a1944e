\* Several rotations and restarts.
SPECIFICATION Spec
CONSTANTS
  iTimePerFile = 2
  Lookahead = 1
  MaxFrames = 5
  MaxTime = 7
INVARIANTS TypeOK EveryPacketStored FilesInOrder
PROPERTIES NothingOverwritten FilesAreShort
\* The program may end, or crash.
CHECK_DEADLOCK FALSE
