\* decode_validate on an encoding with a tail.
SPECIFICATION SessionSpec
CONSTANTS
  WordLen = 5
  AddrPad = 2
  Radix = 4
  UsizeSize = 65536
  AllocLimit = 300
  MaxWords = 2
  Long = 2
  InvalidUtf8 = {3}
  Replacement <- MCReplacement
  Depth = 3
  ParamTypes <- MCParamTypes
  Inputs <- NoInputs
  Calls <- DynamicCalls
INVARIANT ValidateAccepts
CHECK_DEADLOCK FALSE
