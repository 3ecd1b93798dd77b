\* A host that does not wait, a ring its requests overrun, and one session cut
\* at any moment.
CONSTANTS
  EXLINK_MAX_PAYLOAD = 5
  EXLINK_BULK_MPS = 8
  EXLINK_RX_RING_SIZE = 12
  RT_SEM_VALUE_MAX = 2
  BOARD_NAME <- NoName
  Requests <- BackToBack
  Window = 3
  HostStalls = TRUE
  MaxSessionEnds = 1
SPECIFICATION FairSpec
INVARIANTS NoFalseAnswer
PROPERTIES Drained
