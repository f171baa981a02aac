CONSTANTS
  Guid = {}
  Client = {c1, c2}
  ApiKey <- Keys
  NoKey = NoKey
  MaxEvents = 2
SPECIFICATION Spec
INVARIANTS
  OneClientHasAccess
