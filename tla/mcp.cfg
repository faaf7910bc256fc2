SPECIFICATION Spec
CONSTANTS
  s0 = s0
  s1 = s1
  k1 = k1
  o1 = o1
  o2 = o2
  e1 = e1
  e2 = e2
  Scope = {s0, s1}
  Kind = {k1}
  Original = {o1, o2}
  Entropy = {e1, e2}
  TTL = 1
  NoTTL = NoTTL
  MaxNow = 1
  Byte = {"letter", "stray", "newline"}
  Limit = 1
  DefaultScope = s0
  NoScope = NoScope
  NoRequest = NoRequest
  NoReply = NoReply
  MaxBytes = 5
  Requests <- MCRequests
  ToolSets <- MCToolSets
  Batches <- MCBatches
SYMMETRY MCSymmetry
CHECK_DEADLOCK FALSE
PROPERTIES RefusalsWriteNothing TransportContract MemoryContract
