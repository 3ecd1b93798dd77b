\* A host that waits for each answer and reads it, over up to two sessions; a
\* ring that just holds the largest frame.
CONSTANTS
  EXLINK_MAX_PAYLOAD = 5
  EXLINK_BULK_MPS = 4
  EXLINK_RX_RING_SIZE = 13
  RT_SEM_VALUE_MAX = 2
  BOARD_NAME <- NoName
  Requests <- OneByOne
  Window = 1
  HostStalls = FALSE
  MaxSessionEnds = 1
SPECIFICATION HostFairSpec
INVARIANTS TypeOK NoByteLost AnswersPair
PROPERTIES Answered
