SPECIFICATION DhcpSpec
CONSTANTS
  c1 = c1
  c2 = c2
  none = none
  Clients = {c1, c2}
  NoMac = none
  Bounds <- MCBounds
  Lease = 4
  Floor = 1
  OfferTime = 1
  Tries = 1
  MaxDelay = 1
SYMMETRY MCSymmetry
INVARIANTS
  DhcpTypeOK
  NoTwoHolders
  HeldIsKept
