\* One message, over connections that do not fail.
SPECIFICATION FairSpec
CONSTANTS
  Shapes <- TwoShapes
  ResponseLen = 3
  CodeLen = 2
  Few = 2
  MaxLen = 1
  MaxMsgs = 1
  MaxFails = 0
PROPERTIES NeverBlocks
\* The program may end.
CHECK_DEADLOCK FALSE
