\* Contracts that are derived, compiled, called and listened to.
SPECIFICATION Spec
CONSTANTS
  WordLen = 5
  AddrPad = 2
  Radix = 4
  UsizeSize = 65536
  InvalidUtf8 = {}
  Depth = 3
  ParamTypes <- MCTypes
  Keccak256 <- MCKeccak256
  Keccak <- MCKeccak
  Snake <- MCSnake
  UpperCamel <- MCUpperCamel
  Keywords <- MCKeywords
  Invocations <- MCInvocations
  NoText = NoText
  Missing = Missing
  Files <- MCFiles
  Given <- MCGiven
  Bytecode <- MCBytecode
  Junk <- MCJunk
  StrayLogs <- MCStrayLogs
INVARIANTS InternalErrors SendsTheCall GetsTheResults ReadsTheLog SelectsTheLog
CHECK_DEADLOCK FALSE
