CONSTANTS
  c1 = c1
  c2 = c2
  c3 = c3
  l1 = l1
  l2 = l2
  s1 = s1
  s2 = s2
  None = None
  Free = Free
  Conns = {c1, c2, c3}
  Leases = {l1, l2}
  Slots = 1
  MaxQueued = 1
  MaxConnections = 3
  MaxPackets = 2
  Faults = {"start_blocks", "activation_fails"}
  Sessions = {s1, s2}
  ChunkSize = 2
  MaxAudio = 5
  Online = {0, 1, 2, 3}
  CpuLists <- MCCpuLists
  Limits <- MCLimits
  Told = {0, 7}
SPECIFICATION MCSpec
SYMMETRY Symmetry
INVARIANT RepliesInOrder
INVARIANT SlotsAccounted
INVARIANT Isolated
INVARIANT FinalHearsAll
INVARIANT StartsAsConfigured
CHECK_DEADLOCK FALSE
