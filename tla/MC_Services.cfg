SPECIFICATION Spec
CONSTANTS
  s1 = s1
  s2 = s2
  s3 = s3
  added = added
  chan1 = chan1
  chan2 = chan2
  Types = {added}
  Wildcard = Wildcard
  Channels = {chan1, chan2}
  Capacity = 1
  Subs = {s1, s2, s3}
  SubOf <- Subscriptions
  Publishers = {p1}
  Closer = Closer
  Nobody = Nobody
  n1 = n1
  n2 = n2
  Nodes = {n1, n2}
  Stale = 0
  Removal = 1
  Joins <- JoinPairs
  Unknown = Unknown
  object = object
  external1 = external1
  external2 = external2
  name1 = name1
  name2 = name2
  Plugs = {object, external1, external2}
  Objects = {object}
  Names = {name1, name2}
  NameOf <- PluginNames
  Visitors = {v1, v2}
  NoPlug = NoPlug
INVARIANTS
  BusInv
  ClusterInv
  PluginInv
PROPERTIES
  WritersReturn
  GoneIsForgotten
  PeersMeetAgain
  ShutdownReturns
