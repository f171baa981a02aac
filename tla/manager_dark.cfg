CONSTANTS
  v1 = v1
  v2 = v2
  Param <- OneParam
  Void <- OneVoid
  Value = {v1}
  NoValue = NoValue
  MaxPending = 3
  MaxReplies = 2
SPECIFICATION SafeSpec
PROPERTIES
  NoFrameWhileOff
