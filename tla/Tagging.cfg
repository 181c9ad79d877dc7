CONSTANTS
  t1 = t1  t2 = t2  s1 = s1  c1 = c1  p1 = p1  p2 = p2  b1 = b1  b2 = b2
  NoTag = NoTag
  Txs <- MCTxs
  SystemTags <- MCSystemTags
  CustomTags <- MCCustomTags
  Procs <- MCProcs
  Slots <- MCSlots
  MaxRequests = 2
  MaxFaults = 1
SPECIFICATION MCSpec
CHECK_DEADLOCK FALSE
VIEW MCView
SYMMETRY Symmetry
INVARIANTS TypeOK HandKept CaughtUp SharedSound
