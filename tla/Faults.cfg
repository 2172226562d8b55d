\* Failing queries, timeouts, and clients that wait for nothing.
SPECIFICATION Spec
CONSTANTS
  u1 = u1  u2 = u2  A = A  B = B  C = C  a1 = a1  a2 = a2  b1 = b1  c1 = c1
  LS = LS  SS = SS  NoShard = NoShard  NoFes = NoFes
  Users = {u1}
  Shards = {A, B}
  Fess = {a1, b1}
  ShardOf <- HomeOf
  MainShard <- MainIsA
  UserLimit <- Roomy
  BusyPercent = 60
  InitDbCur <- NewUsers
  ClientsWait = FALSE
  MaxDbFaults = 1
  MaxMoveTimeouts = 1
  MaxCookieTimeouts = 1
  MaxConns = 1
  MaxLogins = 1
  MaxChoices = 1
  MaxChanges = 1
  MaxPlays = 1
INVARIANTS
  TypeOK
  WaitsForAnotherShard
  WSKnowsItsSessions
CHECK_DEADLOCK FALSE
