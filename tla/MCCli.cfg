\* Values as text, encoded, read by the other side, printed and encoded again.
SPECIFICATION Spec
CONSTANTS
  WordLen = 5
  AddrPad = 2
  Radix = 25
  UsizeSize = 390625
  InvalidUtf8 = {}
  Depth = 3
  ParamTypes <- MCTypes
  HexBase = 5
  Ten = 3
  Length = 4
  Decimals <- MCDecimals
  Charset <- MCCharset
  Keccak256 <- MCKeccak256
  Keccak <- MCKeccak
  Requests <- MCRequests
  Answers <- MCAnswers
  Code <- MCCode
INVARIANTS EncodedIsRead ReadsWhatWasMeant AsciiNeverPanics NumbersExact PrintsTheLog PrintedReadsBack
CHECK_DEADLOCK FALSE
