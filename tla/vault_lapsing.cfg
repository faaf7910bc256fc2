SPECIFICATION FairSpec
CONSTANTS
  k1 = k1 k2 = k2 o1 = o1 o2 = o2
  Process = {p1, p2}
  Scope = {s1}
  Kind = {k1}
  Upper <- Capitals
  Original = {o1}
  Entropy = {e1, e2}
  Key = {}
  TTLs = {1}
  Batches <- Single
  LegacyFile = TRUE
  FreshEntropy = TRUE
  ClockMayFail = TRUE
  MaxNow = 1
  MaxOps = 4
  Plain = Plain NoFile = NoFile NoTTL = NoTTL NoTime = NoTime NoScope = NoScope
CHECK_DEADLOCK FALSE
PROPERTIES LockIsReleased AtomicVault
