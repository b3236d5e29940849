\* Two goroutines log four entries into a ring of two, so it wraps, with
\* two subscribers that may join at any point and read at any speed.
SPECIFICATION FairSpec
CONSTANTS
  Emitters = {e1, e2}
  Subscribers = {s1, s2}
  Nobody = Nobody
  Cap = 2
  MaxEntries = 4
INVARIANTS
  TypeOK
  SnapshotIsTail
  FillFits
  GapIsFlagged
PROPERTIES
  ImplementsLogStream
  EmitCompletes
  SubscribeCompletes
CHECK_DEADLOCK FALSE
