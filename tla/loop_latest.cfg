CONSTANTS
  Nodes = {n1, n2}
  Devices = {r1, r2}
  Remotes = {r1, r2}
  Fds = {f1, f2}
  NoNode = nonode
  NoDevice = nodevice
  NoFd = nofd
  Keys = {a}
  NoKey = none
  Modulus = 4
  Threshold = 1
  Times = {1}
  BatchSize = 2
  BufBound = 3
  Binder = FALSE
SPECIFICATION Spec
PROPERTY LatestServed
CHECK_DEADLOCK FALSE
