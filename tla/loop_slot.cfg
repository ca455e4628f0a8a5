CONSTANTS
  Nodes = {n1, n2}
  Devices = {r1, r2, r3, x}
  Remotes = {r1, r2, r3}
  Fds = {f1, f2}
  NoNode = nonode
  NoDevice = nodevice
  NoFd = nofd
  Keys = {}
  NoKey = none
  Modulus = 4
  Threshold = 1
  Times = {1}
  BatchSize = 2
  BufBound = 3
  Binder = TRUE
SPECIFICATION Spec
SYMMETRY Symmetry
INVARIANTS DescriptorOwned TracksNode LatestWins RemoteFound
