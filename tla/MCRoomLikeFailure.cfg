SPECIFICATION Spec
CONSTANTS
  u1 = u1  u2 = u2  a = a  b = b
  Users = {u1, u2}
  Tracks = {a}
  LocalTracks = {}
  Timed = {a}
  Locks = {}
  Likers = {u1, u2}
  None = None
  MaxSize = 2
  MaxUserSongs = 2
  HistorySize = 2
  MaxBatch = 1
  MaxItems = 2
  MaxStateVersion = 4
  MaxQueueVersion = 4
  MaxScopes = 2
  MaxCancelled = 0
PROPERTIES FailedLikeLeavesNothing
