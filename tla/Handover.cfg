\* One user, two shards with a front end each and one without.
SPECIFICATION FairSpec
CONSTANTS
  u1 = u1  u2 = u2  A = A  B = B  C = C  a1 = a1  a2 = a2  b1 = b1  c1 = c1
  LS = LS  SS = SS  NoShard = NoShard  NoFes = NoFes
  Users = {u1}
  Shards = {A, B, C}
  Fess = {a1, b1}
  ShardOf <- HomeOf
  MainShard <- MainIsA
  UserLimit <- Roomy
  BusyPercent = 60
  InitDbCur <- NewUsers
  ClientsWait = TRUE
  MaxDbFaults = 0
  MaxMoveTimeouts = 0
  MaxCookieTimeouts = 0
  MaxConns = 1
  MaxLogins = 1
  MaxChoices = 1
  MaxChanges = 2
  MaxPlays = 1
INVARIANTS
  EnteredOnOneShard
  
  
  PlayIsRecorded
  NoClientStranded
PROPERTIES
  
  WaitingIsServed
  ChangeIsAnswered
CHECK_DEADLOCK FALSE
