\* A camera that is faster or slower than the program, and a reader that comes and goes.
SPECIFICATION FairSpec
CONSTANTS
  N = 3
  Lookahead = 1
  MaxFrames = 6
INVARIANTS TypeOK EveryBufferOwned OverwrittenOnlyWhenLapped
PROPERTIES BuffersComeBack ReaderFound
