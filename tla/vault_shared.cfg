SPECIFICATION Spec
CONSTANTS
  k1 = k1 k2 = k2 o1 = o1 o2 = o2
  Process = {p1, p2}
  Scope = {s1, s2}
  Kind = {k1, k2}
  Upper <- Capitals
  Original = {o1, o2}
  Entropy = {e1, e2}
  Key = {}
  TTLs = {}
  Batches <- OneAndPairs
  LegacyFile = FALSE
  FreshEntropy = TRUE
  ClockMayFail = FALSE
  MaxNow = 0
  MaxOps = 6
  Plain = Plain NoFile = NoFile NoTTL = NoTTL NoTime = NoTime NoScope = NoScope
SYMMETRY Symmetry
CHECK_DEADLOCK FALSE
PROPERTIES ReadsSeeForget AtomicVault
