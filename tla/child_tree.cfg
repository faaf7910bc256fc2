SPECIFICATION Spec
CONSTANTS
  Child = child
  Heir = {h1}
  Timeout = 1
  Grace = 1
  TreeWait = 1
  NoTime = NoTime
CHECK_DEADLOCK FALSE
INVARIANT LeavesNoProcess
