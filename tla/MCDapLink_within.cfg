\* A host that keeps one command fewer outstanding than the ring holds.
CONSTANTS
  DAP_PACKET_COUNT = 3
  EXLINK_BULK_MPS = 2
  RT_SEM_VALUE_MAX = 2
  Window = 2
  HostStalls = TRUE
  MaxReq = 5
  MaxSessionEnds = 0
SPECIFICATION HostFairSpec
INVARIANTS NoOverrun Paired
PROPERTIES Answered PipeImplemented
