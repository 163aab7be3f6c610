SPECIFICATION Spec
CONSTANTS
  n1 = n1
  n2 = n2
  c1 = c1
  c2 = c2
  c3 = c3
  Nodes = {n1, n2}
  Holders = {c1, c2, c3}
  NodeOf <- CallersNode
  Entries = {e1, e2}
  Asks <- CallersAsk
  Ttls = {1, 2}
  NoEntry = NoEntry
  NoHolder = NoHolder
PROPERTY CleansUpOwnEntry
