\* ABIs of up to MaxElements operations, loaded, serialized, loaded again.
SPECIFICATION Spec
CONSTANTS
  Names = {1, 2}
  Rests = {"(u)"}
  NoRest = ""
  Inputs = {"u", "b"}
  Outputs = {"u"}
  NoOutputs = ""
  MaxElements = 4
  Sources <- MCSources
INVARIANTS TypeOK WellFiled KeepsOverloads ReloadSame SignatureSelects
CHECK_DEADLOCK FALSE
