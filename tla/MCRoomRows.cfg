SPECIFICATION Spec
CONSTANTS
  u1 = u1  u2 = u2  a = a  b = b
  Users = {u1}
  Tracks = {a, b}
  LocalTracks = {a}
  Timed = {a}
  Locks = {}
  Likers = {u1}
  None = None
  MaxSize = 2
  MaxUserSongs = 1
  HistorySize = 1
  MaxBatch = 2
  MaxItems = 3
  MaxStateVersion = 4
  MaxQueueVersion = 3
  MaxScopes = 2
  MaxCancelled = 1
INVARIANTS QueueWithinLimits MemoryMatchesDisk TombstonesUnreferenced RowsNotBehind
PROPERTIES PublishedStateIsVersioned
