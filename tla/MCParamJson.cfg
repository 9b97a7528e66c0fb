\* Fields in any order, nested components, and every text of 5 characters.
SPECIFICATION Spec
CONSTANTS
  WordLen = 5
  AddrPad = 2
  Radix = 4
  UsizeSize = 65536
  InvalidUtf8 = {}
  Length = 5
  ParamTypes = {}
  Objects <- MCObjects
INVARIANTS TypeOK OrderIrrelevant ReloadsSame PanicsOnlyUnclosed ShallowReadsBack
CHECK_DEADLOCK FALSE
