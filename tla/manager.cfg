CONSTANTS
  v1 = v1
  v2 = v2
  Param <- OneParam
  Void <- OneVoid
  Value = {v1, v2}
  NoValue = NoValue
  MaxPending = 2
  MaxReplies = 1
SPECIFICATION Spec
INVARIANTS
  TypeOK
  DispatcherInv
PROPERTIES
  ChannelSafe
  BacklogDrains
  ChannelLive
