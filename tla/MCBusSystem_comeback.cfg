\* Two clients, a server that crashes and links that fail.
SPECIFICATION SysFairSpec
CONSTANTS
  NoName = ""
  Names <- DemoNames
  Prefixes <- DemoPairs
  Conns = {c1, c2, c3, c4}
  NULL = NULL
  BUS_TYPE_MAX = 2
  HeapNames = {""}
  HeapConns = {NULL}
  PeerNames = {"demo1", "demo2"}
  JoinsPerConn = 1
  Traffic = {}
  MaxBuf = 1
  Recreates = {"demo2"}
  HeapExit = {0}
  MaxFails = 2
INVARIANTS SysTypeOK JoinedMeansRegistered
PROPERTIES ClientsComeBack
\* Once both clients are registered and the failures are used up, all wait.
CHECK_DEADLOCK FALSE
