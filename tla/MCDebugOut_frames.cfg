\* Two messages, in pieces, over connections of which one may fail.
SPECIFICATION FairSpec
CONSTANTS
  Shapes <- TwoShapes
  ResponseLen = 3
  CodeLen = 2
  Few = 2
  MaxLen = 1
  MaxMsgs = 2
  MaxFails = 1
INVARIANTS TypeOK MessagesIntact BufferHolds
PROPERTIES ComesBack
\* The program may end.
CHECK_DEADLOCK FALSE
