\* One user and two logins, up to two sockets on a front end, a cookie timeout;
\* the data was left on a guest shard.
SPECIFICATION Spec
CONSTANTS
  u1 = u1  u2 = u2  A = A  B = B  C = C  a1 = a1  a2 = a2  b1 = b1  c1 = c1
  LS = LS  SS = SS  NoShard = NoShard  NoFes = NoFes
  Users = {u1}
  Shards = {A, B, C}
  Fess = {b1, c1}
  ShardOf <- HomeOf
  MainShard <- MainIsA
  UserLimit <- Roomy
  BusyPercent = 60
  InitDbCur <- OnB
  ClientsWait = TRUE
  MaxDbFaults = 0
  MaxMoveTimeouts = 0
  MaxCookieTimeouts = 1
  MaxConns = 2
  MaxLogins = 2
  MaxChoices = 2
  MaxChanges = 0
  MaxPlays = 1
INVARIANTS
  EnteredOnOneShard
  
  CookieOrSession
  SessionSockets
  PendingCounted
  PlayersCounted
  OnlineHasSession

  
CHECK_DEADLOCK FALSE
