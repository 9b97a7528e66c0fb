\* Components three deep.
SPECIFICATION Spec
CONSTANTS
  WordLen = 5
  AddrPad = 2
  Radix = 4
  UsizeSize = 65536
  InvalidUtf8 = {}
  Length = 0
  ParamTypes = {}
  Objects <- NestedObjects
INVARIANT NestedReadsBack
CHECK_DEADLOCK FALSE
