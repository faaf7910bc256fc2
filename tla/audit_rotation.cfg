SPECIFICATION Spec
CONSTANTS
  Process = {p1, p2}
  Inode = {i1, i2, i3}
  Event = {1, 2, 3, 4}
  Length <- Lengths
  Genesis = Genesis
  Retentions <- Bounds
  LegacyFile = TRUE
  OpensRace = FALSE
  Recycling = FALSE
  Unbounded = Unbounded
  NoInode = NoInode
  NoProcess = NoProcess
  NoEvent = NoEvent
  NoLine = NoLine
SYMMETRY Symmetry
CHECK_DEADLOCK FALSE
INVARIANTS ChainUnbroken RecordedOnce
PROPERTIES AppendOnly WritesItsFile WithinRetention RotatesForRoom
