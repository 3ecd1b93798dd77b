\* The shipped sizes and a host that uses the window the probe advertises.
CONSTANTS
  DAP_PACKET_COUNT = 2
  EXLINK_BULK_MPS = 2
  RT_SEM_VALUE_MAX = 2
  Window = 2
  HostStalls = FALSE
  MaxReq = 3
  MaxSessionEnds = 0
SPECIFICATION Spec
INVARIANTS NoOverrun
