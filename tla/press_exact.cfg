CONSTANTS
  Keys = {a, b}
  NoKey = none
  Modulus = 8
  Threshold = 2
  MaxHold = 3
  BufSize = 8
  Streams = {{}}
SPECIFICATION Spec
PROPERTY ActsAsPromised
