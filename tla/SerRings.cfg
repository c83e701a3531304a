SPECIFICATION Spec
CONSTANTS
  Empty = Empty
  Faults = {"Frame"}
  MaxPeer = 2
  N = 3
  MaxPut = 3
PROPERTIES HoldingSafe ImplementsQueues
