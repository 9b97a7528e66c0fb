\* Callers' tokens, and received data of up to MaxWords words.
SPECIFICATION SessionSpec
CONSTANTS
  WordLen = 5
  AddrPad = 2
  Radix = 4
  UsizeSize = 65536
  AllocLimit = 300
  MaxWords = 4
  Long = 2
  InvalidUtf8 = {3}
  Replacement <- MCReplacement
  Depth = 3
  ParamTypes <- MCParamTypes
  Inputs <- MCInputs
  Calls <- MCCalls
INVARIANTS EncodingIsCanonical RoundTrip StrictRefinesLax
           Normalising ChecksCalls StaticStrict EmptyArraysVanish
CHECK_DEADLOCK FALSE
