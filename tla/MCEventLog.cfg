\* Emitted and arbitrary logs, parsed in both modes.
SPECIFICATION EventSpec
CONSTANTS
  WordLen = 5
  AddrPad = 2
  Radix = 4
  UsizeSize = 65536
  AllocLimit = 300
  MaxWords = 2
  InvalidUtf8 = {3}
  Replacement <- MCReplacement
  Depth = 3
  ParamTypes <- MCTypes
  Inputs = {}
  Sessions <- MCSessions
  Keccak <- MCKeccak
  Signature <- MCSignature
  ParamNames <- MCNames
INVARIANTS ParsesEmission ParseNeverPanics ParamsFollowInputs
           StrictLogExact FilterSelects
CHECK_DEADLOCK FALSE
