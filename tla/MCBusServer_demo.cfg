\* Prefix-free names, a slot for each, every kind of message in every order.
SPECIFICATION FairSpec
CONSTANTS
  NoName = ""
  Names <- DemoNames
  Prefixes <- DemoPairs
  Conns = {c1, c2}
  NULL = NULL
  BUS_TYPE_MAX = 2
  HeapNames = {""}
  HeapConns = {NULL}
  PeerNames = {"demo1", "demo2"}
  JoinsPerConn = 2
  Traffic <- AnyTraffic
  MaxBuf = 2
INVARIANTS TypeOK NothingLeftBehind
PROPERTIES ImplementsRegistry RecvReturns
