SPECIFICATION Spec
CONSTANTS
  Process = {p1, p2}
  Inode = {i1, i2, i3, i4}
  Event = {1, 2, 3}
  Length <- Lengths
  Genesis = Genesis
  Retentions <- OneRecord
  LegacyFile = FALSE
  OpensRace = TRUE
  Recycling = TRUE
  Unbounded = Unbounded
  NoInode = NoInode
  NoProcess = NoProcess
  NoEvent = NoEvent
  NoLine = NoLine
SYMMETRY Symmetry
CHECK_DEADLOCK FALSE
INVARIANT ChainUnbroken
