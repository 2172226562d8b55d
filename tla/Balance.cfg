\* Two users, two front ends of one shard with room for one player; a front
\* end crashes and starts again.
SPECIFICATION SpecF
CONSTANTS
  u1 = u1  u2 = u2  A = A  a1 = a1  a2 = a2
  LS = LS  SS = SS  NoShard = NoShard  NoFes = NoFes
  Users = {u1, u2}
  Shards = {A}
  Fess = {a1, a2}
  ShardOf <- AllOnA
  MainShard <- MainIsA
  UserLimit <- Tight
  BusyPercent = 60
  InitDbCur <- NewUsers
  ClientsWait = TRUE
  MaxDbFaults = 0
  MaxMoveTimeouts = 0
  MaxCookieTimeouts = 0
  MaxConns = 1
  MaxLogins = 1
  MaxChoices = 2
  MaxChanges = 0
  MaxPlays = 0
  MaxCrashes = 1
INVARIANTS
  PendingCounted
  PlayersCounted
  SessionsRecovered
  LogoffsRecovered
  LoadRecovered
PROPERTIES
  IdentifierIsNew
SYMMETRY Alike
CHECK_DEADLOCK FALSE
