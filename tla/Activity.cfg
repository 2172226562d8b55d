SPECIFICATION FairSpec
CONSTANTS
  Users = {u1,u2,u3}
  NoUser = none
  Positions = {1,2}
  MultiAt = {1}
  LuckAt = {1}
  DeskCount <- OneAndTwo
  Guests = 2
  MultiTypes = {"multi","pray"}
  Waits = TRUE
  LateInvites = FALSE

INVARIANTS
  TypeOK
  NoIdleDesk
  
  
PROPERTIES
  QueueKept
  WaiterIsServed
