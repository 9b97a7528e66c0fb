\* Filters on values of reference types.
SPECIFICATION EventSpec
CONSTANTS
  WordLen = 5
  AddrPad = 2
  Radix = 4
  UsizeSize = 65536
  AllocLimit = 300
  MaxWords = 2
  InvalidUtf8 = {3}
  Replacement <- MCReplacement
  Depth = 3
  ParamTypes <- MCTypes
  Inputs = {}
  Sessions <- RefSessions
  Keccak <- MCKeccak
  Signature <- MCSignature
  ParamNames <- MCNames
INVARIANT FilterSelectsReferences
CHECK_DEADLOCK FALSE
