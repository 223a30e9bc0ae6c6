SPECIFICATION ServicesSpec
SYMMETRY Equal
CONSTANTS
  u1 = u1  u2 = u2  t1 = t1  t2 = t2  t3 = t3  c1 = c1  c2 = c2
  None = None
  Parts = {"mutations", "sessions", "media", "orders", "chat", "logins", "presence"}
  QueueIds = {t1, t2, t3}
  ControlIds = {t4}
  Bodies = {u1, u2}
  QueueCapacity = 2
  ControlCapacity = 1
  TTL = 2
  MaxApply = 1
  MaxTime = 4
  MaxRuns = 2
  MaxScopes = 2
  Accounts = {u1, u2}
  Tokens = {t1, t2, t3}
  Callers = {c1, c2}
  Conns = {x}
  MaxPasswords = 3
  MediaKeys = {t1, t2, t3}
  Workers = {c1, c2}
  Readers = {x}
  MediaCapacity = 1
  Limit = 2
  MaxBytes = 3
  MaxFile = 2
  Initial = 1
  Retries = 1
  Items = {t1, t2, t3, t4}
  Step = 2
  MaxOrder = 8
  Found = {0}
  Authors = {x}
  Rooms = {r}
  Public = lounge
  MinInterval = 2
  MaxHistory = 2
  MaxSlots = 1
  ChatMaxTime = 5
  Senders = {c1, c2}
  Addresses = {u1, u2}
  MaxAttempts = 2
  MaxTracked = 1
  Window = 2
  Block = 3
  LoginMaxTime = 4
  Requests = {c1, c2}
  Browsers = {c1, c2}
  Users = {x}
  MaxRevision = 4
  MaxBroadcasts = 2
INVARIANTS CapacityIsHonest SessionsUseCurrentPassword RevokedSessionsAreClosed
  QuotaCoversDisk ReadersKeepTheirFile QueueReadsBack MessagesAreSpaced
  AttemptsAreLimited
PROPERTIES AtMostOncePerWindow PresenceMovesOn
CHECK_DEADLOCK FALSE
