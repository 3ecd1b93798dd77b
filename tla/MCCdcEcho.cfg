\* Two packets for each port, empty, short or full, over up to two sessions.
CONSTANTS
  EXLINK_BULK_MPS = 2
  MaxPackets = 2
  MaxSessionEnds = 1
SPECIFICATION FairSpec
INVARIANTS TypeOK EchoInOrder
PROPERTIES Echoed
