CONSTANTS
  Client = {c1, c2}
  Nobody = Nobody
  Command <- Commands
  LedCounts = {1, 2}
  MaxRequests = 2
  MaxQueued = 2
SPECIFICATION Spec
INVARIANTS
  TypeOK
  BusyForAReason
  ReplyIsOwn
  NewestRequestShows
PROPERTIES
  BecomesAvailable
