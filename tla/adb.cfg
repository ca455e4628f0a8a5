CONSTANTS
  Threads = {worker, killer}
  MaxFaults = 3
SPECIFICATION Spec
INVARIANTS TypeOK OneIdentity InstanceIsStored
PROPERTY EventuallyConnected
