SPECIFICATION Spec
SYMMETRY Members
CONSTANTS
  u1 = u1  u2 = u2  a = a  b = b
  Users = {u1, u2}
  Tracks = {a}
  LocalTracks = {}
  Timed = {a}
  Locks = {}
  Likers = {}
  None = None
  MaxSize = 3
  MaxUserSongs = 2
  HistorySize = 0
  MaxBatch = 4
  MaxItems = 4
  MaxStateVersion = 3
  MaxQueueVersion = 4
  MaxScopes = 2
  MaxCancelled = 0
INVARIANTS NoItemTwice NeverIdleWithSongs DropLandsBesideTarget
PROPERTIES SongsLeaveInTurn
