SPECIFICATION FairSpec
CONSTANTS
  Child = child
  Heir = {h1}
  Timeout = 2
  Grace = 1
  TreeWait = 1
  NoTime = NoTime
CHECK_DEADLOCK FALSE
INVARIANTS FailedExitIsReported CallIsBounded LingererIsKilled
PROPERTIES SignalsOnlyItsTree CallReturns
