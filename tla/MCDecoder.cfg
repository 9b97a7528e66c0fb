\* usize is far wider than u32, as on a 64-bit target.
SPECIFICATION Spec
CONSTANTS
  WordLen = 5
  AddrPad = 2
  Radix = 4
  UsizeSize = 65536
  AllocLimit = 1
  MaxWords = 4
  InvalidUtf8 = {3}
  Replacement <- MCReplacement
  ParamTypes <- MCParamTypes
  Inputs <- MCInputs
INVARIANTS TypeOK StackOK NoPanic CursorAtHead FollowsTypes
CHECK_DEADLOCK FALSE
