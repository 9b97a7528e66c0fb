\* Whatever lengths the data claims, the call returns what it should, and
\* builds no more than the data has room for; no reservation fails.
SPECIFICATION Spec
CONSTANTS
  WordLen = 5
  AddrPad = 2
  Radix = 4
  UsizeSize = 65536
  AllocLimit = 256
  MaxWords = 4
  InvalidUtf8 = {3}
  Replacement <- MCReplacement
  ParamTypes <- MCParamTypes
  Inputs <- ImplementsInputs
INVARIANT TokensWithinData
PROPERTY Implements
CHECK_DEADLOCK FALSE
