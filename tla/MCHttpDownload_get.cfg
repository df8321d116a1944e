\* Any number of redirects and signals, one failure.
SPECIFICATION FairSpec
CONSTANTS
  Responses <- SomeResponses
  RECV_BUF = 2
  EndValues <- EitherEnd
  MaxPart = 1
  MaxFails = 1
INVARIANTS TypeOK  FileIsPrefix NothingHeld
PROPERTIES Returns
\* The program ends.
CHECK_DEADLOCK FALSE
