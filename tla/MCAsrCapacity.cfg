CONSTANTS
  l1 = l1
  l2 = l2
  l3 = l3
  l4 = l4
  l5 = l5
  l6 = l6
  h1 = h1
  h2 = h2
  h3 = h3
  Leases = {l1, l2, l3, l4, l5, l6}
  Handlers = {h1, h2, h3}
  Slots = 2
  MaxQueued = 3
  MaxConnections = 2
SPECIFICATION Spec
SYMMETRY Symmetry
INVARIANTS
  TypeOK
  BookkeepingExact
  NoIdleSlot
  ReadyTellsTruth
PROPERTY KeepsAdmissionPromise
