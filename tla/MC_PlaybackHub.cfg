SPECIFICATION PlaybackSpec
CONSTANTS
  Clients = {tv1, tv2, phone, old, new}
  Devices = {old, new}
  Receivers = {tv1, tv2}
  Keys = {tv1, tv2, phone, tablet}
  NoClient = NoClient
INVARIANTS
  PlaybackInv
  LoneClientIsListener
SYMMETRY Interchangeable
\* every connection may have come and gone
CHECK_DEADLOCK FALSE
