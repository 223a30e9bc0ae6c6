SPECIFICATION CatalogSpec
SYMMETRY Equal
CONSTANTS
  u1 = u1  u2 = u2
  None = None
  MaxUploads = 2
  Contents = {n1}
  Uploaders = {u1, u2}
  Feeder = n2
  Deleters = {a}
  Workers = {x}
  Capacity = 1
  Parts = {"library", "access", "lists", "music"}
  Rooms = {hall, r1}
  Lounge = hall
  Requesters = {x}
  Users = {a, v}
  Admins = {a}
  Names = {n1, n2}
  Invites = {x}
  MaxPasswords = 2
  MaxVersion = 3
  System = System
  ListUsers = {v}
  ListRooms = {r1}
  Songs = {n1, n2}
  Local = {n1}
  MaxLists = 2
  MaxTracks = 3
  Gone = Gone
  Sources = {x}
  EnvSource = x
  Creds = {n1, n2}
  EnvCred = n1
  Policies = {a, v}
  Off = v
  Keys = {x}
  CacheLimit = 2
  Listeners = {x, v}
INVARIANTS OneOwnerPerTrack MaterialIsKept TicketsProvePassword OwnersAgree
  PositionsAreDistinct NothingOutlivesItsOwner RegistryMatchesRows
  CacheIsOfTheSource
PROPERTIES DeletedStaysDeleted EditsAreAuthorised
CHECK_DEADLOCK FALSE
