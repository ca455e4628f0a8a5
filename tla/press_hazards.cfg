CONSTANTS
  Keys = {a, b, c}
  NoKey = none
  Modulus = 5
  Threshold = 2
  MaxHold = 2
  BufSize = 7
  Streams = {{"late", "overflow"}, {"late", "clock", "chord"}}
SPECIFICATION Spec
SYMMETRY KeySymmetry
INVARIANT TypeOK
PROPERTIES InStepIsExact OnlyReleasesAct
