SPECIFICATION FairSpec
CONSTANTS
  Empty = Empty
  Faults = {"Frame", "Break"}
  MaxPeer = 2
  N = 3
  MaxPut = 2
INVARIANTS NoLostWakeup
PROPERTIES EveryByteSent ReceiverServed
