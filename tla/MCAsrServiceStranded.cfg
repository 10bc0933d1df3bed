CONSTANTS
  c1 = c1
  c2 = c2
  l1 = l1
  l2 = l2
  None = None
  Conns = {c1, c2}
  Leases = {l1, l2}
  Slots = 1
  MaxQueued = 1
  MaxConnections = 2
  MaxPackets = 2
  Faults = {"start_blocks"}
SPECIFICATION Spec
INVARIANT NoStranded
