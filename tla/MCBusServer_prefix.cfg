\* Names that are prefixes of each other, fewer slots than names, peers that
\* join once per connection and send malformed messages.
SPECIFICATION Spec
CONSTANTS
  NoName = ""
  Names <- PrefixNames
  Prefixes <- PrefixPairs
  Conns = {c1, c2, c3}
  NULL = NULL
  BUS_TYPE_MAX = 2
  HeapNames = {""}
  HeapConns = {NULL}
  PeerNames = {"bt", "btavk", "dlna"}
  JoinsPerConn = 1
  Traffic <- OneBadKind
  MaxBuf = 2
INVARIANTS NoDanglingSlot SlotNamesItsPeer NoDoubleDelivery
SYMMETRY ConnSymmetry
