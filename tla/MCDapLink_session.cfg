\* The shipped sizes, a host that fills its window and may stall, and one
\* session that ends at any moment.
CONSTANTS
  DAP_PACKET_COUNT = 2
  EXLINK_BULK_MPS = 2
  RT_SEM_VALUE_MAX = 2
  Window = 2
  HostStalls = TRUE
  MaxReq = 4
  MaxSessionEnds = 1
SPECIFICATION FairSpec
INVARIANTS TypeOK NoLostWakeup NoOrphanBusy OutListening Framed InOrder
PROPERTIES SlotHeld BufferHeld DropsOnlyAtHandover SlotReleased
