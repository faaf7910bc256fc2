SPECIFICATION Spec
CONSTANTS
  k1 = k1 k2 = k2 o1 = o1 o2 = o2
  Process = {p1, p2}
  Scope = {s1}
  Kind = {k1}
  Upper <- Capitals
  Original = {o1, o2}
  Entropy = {e1}
  Key = {kA, kB}
  TTLs = {1}
  Batches <- Two
  LegacyFile = TRUE
  FreshEntropy = FALSE
  ClockMayFail = TRUE
  MaxNow = 1
  MaxOps = 4
  Plain = Plain NoFile = NoFile NoTTL = NoTTL NoTime = NoTime NoScope = NoScope
SYMMETRY SymmetryKeys
CHECK_DEADLOCK FALSE
INVARIANTS MainNeverTorn NoPlaintextBeside TokenNamesOneValue AckedSurvives OneAliasPerValue
