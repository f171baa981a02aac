CONSTANTS
  Guid = {g1, g2}
  Client = {c1, c2}
  ApiKey <- Keys
  NoKey = NoKey
  MaxEvents = 2
SPECIFICATION Spec
INVARIANTS
  TypeOK
  LockListInv
PROPERTIES
  NotPreempted
  ApiThreadTellsStatus
  SilentPluginLosesLock
