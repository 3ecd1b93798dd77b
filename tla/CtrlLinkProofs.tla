--------------------------- MODULE CtrlLinkProofs ---------------------------
(***************************************************************************)
(* The command channel of ExLink, for every ring, packet, frame and window *)
(* size, every board name and every host: its variables keep to their      *)
(* ranges.  And for every host that writes whole requests, good frames and *)
(* broken ones, as many ahead as it likes: as long as no session is cut,   *)
(* no send gives up and no byte is lost, the n-th response is the answer   *)
(* to the n-th request; and no byte is lost if the ring holds what the     *)
(* host keeps unanswered.                                                  *)
(* And whatever is lost, cut or delayed: a response that is no error is    *)
(* the answer to a request written, and they come in the order of the      *)
(* requests, if no loss can make a good frame of the pieces of two.        *)
(*                                                                         *)
(* The invariant follows the bytes of the requests as one stream: parser,  *)
(* ring, packet and host hold, in this order, what of it has not been      *)
(* decided on (Carries).  With losses each byte on its way keeps its place *)
(* in that stream (Traced), and what the parser holds is one of the byte   *)
(* strings a loss can leave of it (Heard, Scraps).                         *)
(***************************************************************************)
EXTENDS CtrlLink, FrameCodecProofs

(* The tuples of unchanged variables the actions name.                     *)
USE DEF ringVars, dispVars, epVars, hostVars, histVars

----------------------------------------------------------------------------
(* Answers.                                                                *)

LEMMA Sizes ==
  /\ EXLINK_MAX_PAYLOAD \in Nat /\ EXLINK_MAX_PAYLOAD >= 1
  /\ EXLINK_MAX_FRAME = 7 + EXLINK_MAX_PAYLOAD /\ EXLINK_MAX_FRAME \in Nat
  /\ EXLINK_BULK_MPS \in Nat /\ EXLINK_BULK_MPS >= 1
  /\ EXLINK_RX_RING_SIZE \in Nat /\ EXLINK_RX_RING_SIZE >= 2
  /\ RT_SEM_VALUE_MAX \in Nat /\ RT_SEM_VALUE_MAX >= 1
  /\ Window \in Nat /\ Window >= 1
  /\ MaxSessionEnds \in Nat
  /\ BOARD_NAME \in Bytes
  /\ Len(Requests) \in Nat
  /\ \A n \in 1 .. Len(Requests) : Requests[n] \in Bytes /\ Requests[n] # <<>>
  <1>1. EXLINK_MAX_PAYLOAD \in Nat
    BY WordsAreNaturals
  <1>2. EXLINK_MAX_FRAME = 7 + EXLINK_MAX_PAYLOAD
    BY <1>1 DEF EXLINK_MAX_FRAME, EXLINK_FRAME_OVERHEAD, EXLINK_HEADER_LEN, EXLINK_CRC_LEN
  <1>3. Requests \in Seq(Bytes)
    BY CtrlAssumption DEF CtrlAssumption, Bytes
  <1>4. Len(Requests) \in Nat /\ \A n \in 1 .. Len(Requests) : Requests[n] \in Bytes
    BY <1>3, LenProperties, ElementOfSeq
  <1>5. QED
    BY <1>1, <1>2, <1>4, CtrlAssumption DEF CtrlAssumption, Bytes

(* The smaller of two naturals. *)
LEMMA MinOfTwo ==
  ASSUME NEW x \in Nat, NEW y \in Nat
  PROVE  Min({x, y}) = IF x <= y THEN x ELSE y
  <1> DEFINE from == {x, y}
  <1>1. x \in from /\ y \in from /\ from \in SUBSET Nat /\ \A j \in from : j = x \/ j = y
    OBVIOUS
  <1> HIDE DEF from
  <1>2. CASE x <= y
    <2>1. \A j \in from : x <= j
      BY <1>1, <1>2
    <2>2. Min(from) = x
      BY <1>1, <2>1, LeastIndex
    <2>3. QED
      BY <1>2, <2>2 DEF from
  <1>3. CASE ~ (x <= y)
    <2>1. \A j \in from : y <= j
      BY <1>1, <1>3
    <2>2. Min(from) = y
      BY <1>1, <2>1, LeastIndex
    <2>3. QED
      BY <1>3, <2>2 DEF from
  <1>4. QED
    BY <1>2, <1>3

LEMMA FirstBytes ==
  ASSUME NEW s \in Bytes, NEW n \in Nat
  PROVE  /\ SubSeq(s, 1, Min({Len(s), n})) \in Bytes
         /\ Len(SubSeq(s, 1, Min({Len(s), n}))) = Min({Len(s), n})
         /\ Min({Len(s), n}) \in 0 .. Len(s) /\ Min({Len(s), n}) <= n
  <1>1. Len(s) \in Nat
    BY LenProperties DEF Bytes
  <1> DEFINE m == Min({Len(s), n})
  <1>2. m \in 0 .. Len(s) /\ m <= n
    BY <1>1, MinOfTwo
  <1> HIDE DEF m
  <1>3. SubSeq(s, 1, m) \in Bytes /\ Len(SubSeq(s, 1, m)) = m
    BY <1>2, Prefixes
  <1>4. QED
    BY <1>2, <1>3 DEF m

LEMMA BuildType ==
  ASSUME NEW op \in Byte, NEW payload \in Bytes,
         NEW r, r = exlink_frame_build(op, payload, EXLINK_MAX_FRAME)
  PROVE  /\ r \in Bytes /\ Len(r) \in 0 .. EXLINK_MAX_FRAME
         /\ Len(payload) <= EXLINK_MAX_PAYLOAD => r # <<>>
  <1>1. Len(payload) \in Nat
    BY LenProperties DEF Bytes
  <1>2. CASE Len(payload) <= EXLINK_MAX_PAYLOAD
    <2>1. r \in Bytes /\ Len(r) = EXLINK_FRAME_OVERHEAD + Len(payload)
      BY <1>2, BuiltFrame DEF Decided
    <2>2. Len(r) \in 0 .. EXLINK_MAX_FRAME /\ Len(r) # 0
      BY <1>1, <1>2, <2>1, Sizes
      DEF EXLINK_FRAME_OVERHEAD, EXLINK_HEADER_LEN, EXLINK_CRC_LEN
    <2>3. r # <<>>
      BY <2>2
    <2>4. QED
      BY <2>1, <2>2, <2>3
  <1>3. CASE ~ (Len(payload) <= EXLINK_MAX_PAYLOAD)
    <2>1. Len(payload) > EXLINK_MAX_PAYLOAD
      BY <1>1, <1>3, Sizes
    <2>2. r = <<>>
      BY <2>1, Zenon DEF exlink_frame_build
    <2>3. <<>> \in Bytes /\ Len(<<>>) = 0
      BY Headers
    <2>4. QED
      BY <1>3, <2>2, <2>3, Sizes
  <1>4. QED
    BY <1>2, <1>3

(* A frame that fits, or nothing. *)
Answerable(r) == r \in Bytes /\ Len(r) \in 0 .. EXLINK_MAX_FRAME

LEMMA ErrorBuilt ==
  ASSUME NEW err \in Byte
  PROVE  Answerable(build_error(err)) /\ build_error(err) # <<>>
  <1>1. EXLINK_OP_ERROR \in Byte
    BY DEF EXLINK_OP_ERROR, Byte
  <1>2. <<err>> \in Bytes /\ Len(<<err>>) = 1
    BY Headers
  <1>3. QED
    BY <1>1, <1>2, BuildType, Sizes DEF build_error, Answerable

LEMMA PingBuilt == Answerable(handle_ping) /\ (PingFits => handle_ping # <<>>)
  <1> DEFINE n    == Min({Len(BOARD_NAME), 31})
             name == SubSeq(BOARD_NAME, 1, n)
             head == <<0, 1, 0, 1>>
             all  == head \o name \o <<0>>
  <1>1. name \in Bytes /\ Len(name) = n /\ n \in Nat
    <2>1. 31 \in Nat /\ Len(BOARD_NAME) \in Nat
      BY Sizes, LenProperties DEF Bytes
    <2>2. QED
      BY <2>1, Sizes, FirstBytes
  <1>2. 0 \in Byte /\ 1 \in Byte
    BY DEF Byte
  <1>3. head \in Bytes /\ Len(head) = 4 /\ <<0>> \in Bytes /\ Len(<<0>>) = 1
    BY <1>2, Headers
  <1> HIDE DEF name, n, head
  <1>4. head \o name \in Bytes /\ Len(head \o name) = 4 + n
    <2>1. /\ head \o name \in Bytes
          /\ Len(head \o name) = Len(head) + Len(name)
      BY <1>1, <1>3, ConcatProperties DEF Bytes
    <2>2. QED
      BY <1>1, <1>3, <2>1
  <1>5. all \in Bytes /\ Len(all) = (4 + n) + 1
    BY <1>3, <1>4, ConcatProperties DEF Bytes
  <1> HIDE DEF all
  <1>6. EXLINK_OP_PING \in Byte
    BY DEF EXLINK_OP_PING, Byte
  <1>7. handle_ping = exlink_frame_build(EXLINK_OP_PING, all, EXLINK_MAX_FRAME)
    BY DEF handle_ping, all, head, name, n
  <1>8. PingFits => Len(all) <= EXLINK_MAX_PAYLOAD
    BY <1>1, <1>5, Sizes DEF PingFits, n
  <1>9. QED
    BY <1>5, <1>6, <1>7, <1>8, BuildType DEF Answerable

LEMMA DispatchBuilt ==
  ASSUME NEW op \in Byte, NEW payload \in Bytes
  PROVE  /\ Answerable(exlink_dispatch(op, payload))
         /\ PingFits /\ Len(payload) <= EXLINK_MAX_PAYLOAD
              => exlink_dispatch(op, payload) # <<>>
  <1>1. EXLINK_ERR_NOT_IMPLEMENTED \in Byte /\ EXLINK_ERR_UNKNOWN_OP \in Byte
    BY DEF EXLINK_ERR_NOT_IMPLEMENTED, EXLINK_ERR_UNKNOWN_OP, Byte
  <1>2. CASE op = EXLINK_OP_PING
    <2>1. exlink_dispatch(op, payload) = handle_ping
      BY <1>2 DEF exlink_dispatch, EXLINK_OP_ECHO, EXLINK_OP_PING, NotImplemented
    <2>2. QED
      BY <2>1, PingBuilt
  <1>3. CASE op = EXLINK_OP_ECHO
    <2>1. exlink_dispatch(op, payload) = exlink_frame_build(op, payload, EXLINK_MAX_FRAME)
      BY <1>3 DEF exlink_dispatch, EXLINK_OP_ECHO, EXLINK_OP_PING, NotImplemented
    <2>2. QED
      BY <2>1, BuildType DEF Answerable
  <1>4. CASE op # EXLINK_OP_PING /\ op # EXLINK_OP_ECHO
    <2>1. exlink_dispatch(op, payload) \in {build_error(EXLINK_ERR_NOT_IMPLEMENTED),
                                            build_error(EXLINK_ERR_UNKNOWN_OP)}
      BY <1>4 DEF exlink_dispatch, NotImplemented, EXLINK_OP_ECHO, EXLINK_OP_PING
    <2>2. QED
      BY <1>1, <2>1, ErrorBuilt
  <1>5. QED
    BY <1>2, <1>3, <1>4

LEMMA ResponseBuilt ==
  ASSUME NEW p \in Parser, NEW result \in {"NONE", "OK", "BAD_CRC", "BAD_LEN"}
  PROVE  Answerable(Response(p, result))
  <1>1. EXLINK_ERR_BAD_CRC \in Byte /\ EXLINK_ERR_BAD_LEN \in Byte
    BY DEF EXLINK_ERR_BAD_CRC, EXLINK_ERR_BAD_LEN, Byte
  <1>2. CASE result = "OK"
    <2>1. Response(p, result) = exlink_dispatch(p.op, p.payload)
      BY <1>2 DEF Response
    <2>2. QED
      BY <2>1, ParserFields, DispatchBuilt
  <1>3. CASE result \in {"BAD_CRC", "BAD_LEN"}
    <2>1. Response(p, result) \in {build_error(EXLINK_ERR_BAD_CRC),
                                   build_error(EXLINK_ERR_BAD_LEN)}
      BY <1>3 DEF Response
    <2>2. QED
      BY <1>1, <2>1, ErrorBuilt
  <1>4. CASE result = "NONE"
    <2>1. Response(p, result) = <<>> /\ Len(<<>>) = 0
      BY <1>4 DEF Response
    <2>2. QED
      BY <2>1, Headers, Sizes DEF Answerable
  <1>5. QED
    BY <1>2, <1>3, <1>4

----------------------------------------------------------------------------
(* The byte ring.                                                          *)

(* A place in a ring wraps at most once.                                   *)
LEMMA WrapOnce ==
  ASSUME NEW S \in Nat, S >= 2, NEW x \in Nat, x < S + S
  PROVE  x % S = IF x < S THEN x ELSE x - S
  OBVIOUS

LEMMA Wrap ==
  ASSUME NEW x \in Nat, x < EXLINK_RX_RING_SIZE + EXLINK_RX_RING_SIZE
  PROVE  x % EXLINK_RX_RING_SIZE = IF x < EXLINK_RX_RING_SIZE THEN x
                                   ELSE x - EXLINK_RX_RING_SIZE
  <1>1. EXLINK_RX_RING_SIZE \in Nat /\ EXLINK_RX_RING_SIZE >= 2
    BY Sizes
  <1>2. QED
    BY <1>1, WrapOnce

LEMMA Places ==
  /\ RingIndex \in SUBSET Nat
  /\ \A i \in RingIndex : i < EXLINK_RX_RING_SIZE
  /\ \A x \in Nat : x < EXLINK_RX_RING_SIZE => x \in RingIndex
  /\ \A x \in Nat : x < EXLINK_RX_RING_SIZE + EXLINK_RX_RING_SIZE
       => x % EXLINK_RX_RING_SIZE \in RingIndex
  /\ \A i \in RingIndex : Succ(i) \in RingIndex
  <1>1. EXLINK_RX_RING_SIZE \in Nat /\ EXLINK_RX_RING_SIZE >= 2
    BY Sizes
  <1>2. /\ RingIndex \in SUBSET Nat
        /\ \A i \in RingIndex : i < EXLINK_RX_RING_SIZE
        /\ \A x \in Nat : x < EXLINK_RX_RING_SIZE => x \in RingIndex
    BY <1>1 DEF RingIndex
  <1>3. ASSUME NEW x \in Nat, x < EXLINK_RX_RING_SIZE + EXLINK_RX_RING_SIZE
        PROVE  x % EXLINK_RX_RING_SIZE \in RingIndex
    <2>1. x % EXLINK_RX_RING_SIZE \in Nat /\ x % EXLINK_RX_RING_SIZE < EXLINK_RX_RING_SIZE
      BY <1>1, <1>3, Wrap
    <2>2. QED
      BY <1>2, <2>1
  <1>4. ASSUME NEW i \in RingIndex PROVE Succ(i) \in RingIndex
    <2>1. i + 1 \in Nat /\ i + 1 < EXLINK_RX_RING_SIZE + EXLINK_RX_RING_SIZE
      BY <1>1, <1>2
    <2>2. QED
      BY <1>3, <2>1 DEF Succ
  <1>5. QED
    BY <1>2, <1>3, <1>4

(* How far the head is ahead of the tail. *)
LEMMA RingCount ==
  ASSUME s_rx_head \in RingIndex, s_rx_tail \in RingIndex
  PROVE  /\ s_rx_head \in Nat /\ s_rx_tail \in Nat
         /\ s_rx_head < EXLINK_RX_RING_SIZE /\ s_rx_tail < EXLINK_RX_RING_SIZE
         /\ InRing = IF s_rx_tail <= s_rx_head THEN s_rx_head - s_rx_tail
                     ELSE s_rx_head + EXLINK_RX_RING_SIZE - s_rx_tail
         /\ InRing \in Nat /\ InRing < EXLINK_RX_RING_SIZE
         /\ InRing = 0 <=> s_rx_head = s_rx_tail
         /\ Room \in Nat /\ Room = EXLINK_RX_RING_SIZE - 1 - InRing
  <1>1. /\ s_rx_head \in Nat /\ s_rx_tail \in Nat
        /\ s_rx_head < EXLINK_RX_RING_SIZE /\ s_rx_tail < EXLINK_RX_RING_SIZE
    BY Places
  <1>2. EXLINK_RX_RING_SIZE \in Nat /\ EXLINK_RX_RING_SIZE >= 2
    BY Sizes
  <1> DEFINE x == s_rx_head + EXLINK_RX_RING_SIZE - s_rx_tail
  <1>3. x \in Nat /\ x < EXLINK_RX_RING_SIZE + EXLINK_RX_RING_SIZE
    BY <1>1, <1>2
  <1>4. x % EXLINK_RX_RING_SIZE = IF x < EXLINK_RX_RING_SIZE THEN x ELSE x - EXLINK_RX_RING_SIZE
    <2> HIDE DEF x
    <2>1. QED
      BY <1>3, Wrap
  <1>5. InRing = IF s_rx_tail <= s_rx_head THEN s_rx_head - s_rx_tail
                 ELSE s_rx_head + EXLINK_RX_RING_SIZE - s_rx_tail
    BY <1>1, <1>2, <1>4 DEF InRing
  <1>6. QED
    BY <1>1, <1>2, <1>5 DEF Room

(* What the interrupt puts into the ring. *)
Put(packet, n) ==
  /\ n \in Nat /\ n <= Len(packet) /\ n <= Room
  /\ Len(packet) <= Room => n = Len(packet)
  /\ s_rx_head' = (s_rx_head + n) % EXLINK_RX_RING_SIZE
  /\ s_rx_ring' \in [RingIndex -> Byte]
  /\ \A i \in RingIndex :
       s_rx_ring'[i] = LET k == (i + EXLINK_RX_RING_SIZE - s_rx_head) % EXLINK_RX_RING_SIZE
                       IN  IF k < n THEN packet[k + 1] ELSE s_rx_ring[i]
  /\ s_rx_dropped' = IF n < Len(packet) THEN s_rx_dropped + 1 ELSE s_rx_dropped

LEMMA PutIs ==
  ASSUME s_rx_ring \in [RingIndex -> Byte], s_rx_head \in RingIndex, s_rx_tail \in RingIndex,
         NEW packet \in Bytes, rx_ring_put(packet)
  PROVE  \E n : Put(packet, n)
  <1> DEFINE n    == Min({Len(packet), Room})
             k(i) == (i + EXLINK_RX_RING_SIZE - s_rx_head) % EXLINK_RX_RING_SIZE
  <1>1. Len(packet) \in Nat /\ Room \in Nat /\ \A j \in 1 .. Len(packet) : packet[j] \in Byte
    BY RingCount, LenProperties, ElementOfSeq DEF Bytes
  <1>2. n \in Nat /\ n <= Len(packet) /\ n <= Room /\ (Len(packet) <= Room => n = Len(packet))
    BY <1>1, MinOfTwo
  <1>3. /\ s_rx_head' = (s_rx_head + n) % EXLINK_RX_RING_SIZE
        /\ s_rx_ring' = [i \in RingIndex |-> IF k(i) < n THEN packet[k(i) + 1] ELSE s_rx_ring[i]]
        /\ s_rx_dropped' = IF n < Len(packet) THEN s_rx_dropped + 1 ELSE s_rx_dropped
    BY DEF rx_ring_put
  <1>4. ASSUME NEW i \in RingIndex PROVE k(i) \in Nat
    <2>1. /\ i \in Nat /\ s_rx_head \in Nat /\ s_rx_head < EXLINK_RX_RING_SIZE
          /\ i < EXLINK_RX_RING_SIZE /\ EXLINK_RX_RING_SIZE \in Nat
      BY RingCount, Places, Sizes
    <2>2. /\ i + EXLINK_RX_RING_SIZE - s_rx_head \in Nat
          /\ i + EXLINK_RX_RING_SIZE - s_rx_head < EXLINK_RX_RING_SIZE + EXLINK_RX_RING_SIZE
      BY <2>1
    <2>3. k(i) \in RingIndex
      BY <2>2, Places
    <2>4. QED
      BY <2>3, Places
  <1> HIDE DEF n, k
  <1>5. \A i \in RingIndex : k(i) < n => packet[k(i) + 1] \in Byte
    BY <1>1, <1>2, <1>4
  <1>6. s_rx_ring' \in [RingIndex -> Byte]
    BY <1>3, <1>5
  <1>7. \A i \in RingIndex :
          s_rx_ring'[i] = IF k(i) < n THEN packet[k(i) + 1] ELSE s_rx_ring[i]
    BY <1>3
  <1>8. Put(packet, n)
    BY <1>2, <1>3, <1>6, <1>7, Zenon DEF Put, k
  <1>9. QED
    BY <1>8

LEMMA PacketBytes ==
  ASSUME NEW bytes \in Bytes
  PROVE  /\ Packet(bytes) \in Bytes /\ Rest(bytes) \in Bytes
         /\ Len(Packet(bytes)) <= EXLINK_BULK_MPS
         /\ Len(Packet(bytes)) = Min({Len(bytes), EXLINK_BULK_MPS})
  <1>1. EXLINK_BULK_MPS \in Nat /\ Len(bytes) \in Nat
    BY Sizes, LenProperties DEF Bytes
  <1>2. /\ Packet(bytes) \in Bytes
        /\ Len(Packet(bytes)) = Min({Len(bytes), EXLINK_BULK_MPS})
        /\ Min({Len(bytes), EXLINK_BULK_MPS}) <= EXLINK_BULK_MPS
    BY <1>1, FirstBytes DEF Packet
  <1>3. Rest(bytes) \in Bytes
    <2>1. \A i \in EXLINK_BULK_MPS + 1 .. Len(bytes) : bytes[i] \in Byte
      BY <1>1, ElementOfSeq DEF Bytes
    <2>2. QED
      BY <1>1, <2>1, SubSeqProperties DEF Rest, Bytes
  <1>4. QED
    BY <1>2, <1>3

----------------------------------------------------------------------------
(* The ranges of the variables.                                            *)

IInv == TypeOK /\ Sound(s_parser)

LEMMA InitIInv == Init => IInv
  <1> SUFFICES ASSUME Init PROVE IInv
    OBVIOUS
  <1>1. Sound(s_parser) /\ s_parser \in Parser /\ PayloadFits(s_parser)
    BY InitSound DEF Init, Sound
  <1>2. <<>> \in Seq(Byte) /\ Len(<<>>) = 0 /\ <<>> \in Seq(Seq(Byte)) /\ 0 \in Byte
    BY DEF Byte
  <1>3. 0 \in RingIndex /\ s_rx_ring \in [RingIndex -> Byte]
    <2>1. 0 \in RingIndex
      BY Places, Sizes
    <2>2. QED
      BY <1>2, <2>1 DEF Init
  <1>4. QED
    BY <1>1, <1>2, <1>3, Sizes DEF Init, IInv, TypeOK

(* The thread and the driver. *)
LEMMA ByteKeepsTypes ==
  ASSUME IInv, dispatch_byte
  PROVE  IInv'
  <1> DEFINE b      == s_rx_ring[s_rx_tail]
             result == FeedResult(s_parser, b)
             answer == Response(s_parser', result)
  <1>1. b \in Byte /\ s_rx_tail' \in RingIndex
    BY Places DEF IInv, TypeOK, dispatch_byte
  <1>2. /\ s_parser' = exlink_parser_feed(s_parser, b)
        /\ s_resp' = IF result = "NONE" THEN s_resp ELSE answer
        /\ pc' \in {"drain", "enter"}
    BY DEF dispatch_byte
  <1>3. result \in {"NONE", "OK", "BAD_CRC", "BAD_LEN"}
    BY DEF FeedResult
  <1> HIDE DEF b, result
  <1>4. Sound(s_parser)'
    BY <1>1, <1>2, FeedRecognises DEF IInv
  <1>5. s_parser' \in Parser /\ PayloadFits(s_parser')
    BY <1>4 DEF Sound
  <1>6. s_resp' \in Seq(Byte) /\ Len(s_resp') <= EXLINK_MAX_FRAME
    <2>1. answer \in Seq(Byte) /\ Len(answer) <= EXLINK_MAX_FRAME
      BY <1>3, <1>5, ResponseBuilt, Sizes DEF Answerable, Bytes
    <2>2. s_resp \in Seq(Byte) /\ Len(s_resp) <= EXLINK_MAX_FRAME
      BY DEF IInv, TypeOK
    <2>3. QED
      BY <1>2, <2>1, <2>2
  <1>7. QED
    BY <1>1, <1>2, <1>4, <1>5, <1>6 DEF IInv, TypeOK, dispatch_byte

LEMMA OutCbKeepsTypes ==
  ASSUME IInv, exlink_ctrl_out_cb
  PROVE  IInv'
  <1>1. CASE s_ep_out_buf # <<>>
    <2>1. rx_ring_put(s_ep_out_buf) /\ SemRelease
      BY <1>1 DEF exlink_ctrl_out_cb
    <2>2. s_ep_out_buf \in Bytes /\ Len(s_ep_out_buf) \in Nat
      BY LenProperties DEF IInv, TypeOK, Bytes
    <2>3. PICK n : Put(s_ep_out_buf, n)
      BY <2>1, <2>2, PutIs DEF IInv, TypeOK
    <2>4. s_rx_head' \in RingIndex
      <3>1. /\ n \in Nat /\ n <= Room /\ s_rx_head' = (s_rx_head + n) % EXLINK_RX_RING_SIZE
        BY <2>3 DEF Put
      <3>2. s_rx_head + n \in Nat /\ s_rx_head + n < EXLINK_RX_RING_SIZE + EXLINK_RX_RING_SIZE
        <4>1. s_rx_head \in RingIndex /\ s_rx_tail \in RingIndex
          BY DEF IInv, TypeOK
        <4>2. EXLINK_RX_RING_SIZE \in Nat
          BY Sizes
        <4>3. QED
          BY <3>1, <4>1, <4>2, RingCount
      <3>3. QED
        BY <3>1, <3>2, Places
    <2>5. usb_if_ctrl_rx_sem' \in 0 .. RT_SEM_VALUE_MAX
      <3>1. RT_SEM_VALUE_MAX \in Nat /\ usb_if_ctrl_rx_sem \in 0 .. RT_SEM_VALUE_MAX
        BY Sizes DEF IInv, TypeOK
      <3>2. usb_if_ctrl_rx_sem + 1 \in Nat
        BY <3>1
      <3>3. usb_if_ctrl_rx_sem' = IF usb_if_ctrl_rx_sem + 1 <= RT_SEM_VALUE_MAX
                                    THEN usb_if_ctrl_rx_sem + 1 ELSE RT_SEM_VALUE_MAX
        BY <2>1, <3>1, <3>2, MinOfTwo DEF SemRelease
      <3>4. QED
        BY <3>1, <3>2, <3>3
    <2>6. s_rx_ring' \in [RingIndex -> Byte] /\ s_rx_dropped' \in Nat
      BY <2>3 DEF Put, IInv, TypeOK
    <2>7. QED
      BY <2>4, <2>5, <2>6 DEF IInv, TypeOK, exlink_ctrl_out_cb
  <1>2. CASE s_ep_out_buf = <<>>
    BY <1>2 DEF IInv, TypeOK, exlink_ctrl_out_cb
  <1>3. QED
    BY <1>1, <1>2

LEMMA BusKeepsTypes ==
  ASSUME IInv, SessionEnds
  PROVE  ends' \in 0 .. MaxSessionEnds /\ mishap' \in SUBSET {"torn", "late"}
  <1>1. MaxSessionEnds \in Nat /\ ends \in 0 .. MaxSessionEnds
        /\ mishap \in SUBSET {"torn", "late"}
    BY Sizes DEF IInv, TypeOK
  <1>2. mishap \cup {"torn"} \in SUBSET {"torn", "late"}
    BY <1>1
  <1>3. CASE bus = "configured"
    <2>1. ends < MaxSessionEnds /\ ends' = ends + 1 /\ mishap' \in {mishap, mishap \cup {"torn"}}
      BY <1>3 DEF SessionEnds
    <2>2. QED
      BY <1>1, <1>2, <2>1
  <1>4. CASE bus # "configured"
    BY <1>1, <1>4 DEF SessionEnds
  <1>5. QED
    BY <1>3, <1>4

(* The host. *)
LEMMA HostKeepsTypes ==
  ASSUME IInv, Host
  PROVE  IInv'
  <1>1. CASE host_out_next
    <2>1. /\ written < Len(Requests) /\ written' = written + 1
          /\ outstanding < Window /\ outstanding' = outstanding + 1
          /\ s_ep_out_buf' = Packet(Requests[written + 1])
          /\ unsent' = Rest(Requests[written + 1])
      BY <1>1 DEF host_out_next
    <2>2. /\ written \in 0 .. Len(Requests) /\ outstanding \in 0 .. Window
          /\ Len(Requests) \in Nat /\ Window \in Nat
      BY Sizes DEF IInv, TypeOK
    <2>3. /\ written + 1 \in 1 .. Len(Requests) /\ written' \in 0 .. Len(Requests)
          /\ outstanding' \in 0 .. Window
      BY <2>1, <2>2
    <2>4. Requests[written + 1] \in Bytes
      BY <2>3, Sizes
    <2>5. /\ s_ep_out_buf' \in Seq(Byte) /\ Len(s_ep_out_buf') <= EXLINK_BULK_MPS
          /\ unsent' \in Seq(Byte)
      BY <2>1, <2>4, PacketBytes DEF Bytes
    <2>6. QED
      BY <1>1, <2>3, <2>5 DEF IInv, TypeOK, host_out_next
  <1>2. CASE host_out_rest
    <2>1. s_ep_out_buf' = Packet(unsent) /\ unsent' = Rest(unsent) /\ unsent \in Bytes
      BY <1>2 DEF host_out_rest, IInv, TypeOK, Bytes
    <2>2. /\ s_ep_out_buf' \in Seq(Byte) /\ Len(s_ep_out_buf') <= EXLINK_BULK_MPS
          /\ unsent' \in Seq(Byte)
      BY <2>1, PacketBytes DEF Bytes
    <2>3. QED
      BY <1>2, <2>2 DEF IInv, TypeOK, host_out_rest
  <1>3. CASE host_out_empty
    <2>1. <<>> \in Seq(Byte) /\ Len(<<>>) <= EXLINK_BULK_MPS
      BY Sizes
    <2>2. QED
      BY <1>3, <2>1 DEF IInv, TypeOK, host_out_empty
  <1>4. CASE host_in
    <2>1. outstanding' \in 0 .. Window
      <3>1. outstanding \in 0 .. Window /\ Window \in Nat
        BY Sizes DEF IInv, TypeOK
      <3>2. \/ outstanding' = outstanding
            \/ outstanding > 0 /\ outstanding' = outstanding - 1
            \/ outstanding' = 0
        BY <1>4 DEF host_in
      <3>3. QED
        BY <3>1, <3>2
    <2>2. rcvd' \in Seq(Seq(Byte))
      <3>1. rcvd \in Seq(Seq(Byte)) /\ s_ep_in_buf \in Seq(Byte)
        BY DEF IInv, TypeOK
      <3>2. Append(rcvd, s_ep_in_buf) \in Seq(Seq(Byte))
        BY <3>1, AppendProperties
      <3>3. rcvd' = rcvd \/ rcvd' = Append(rcvd, s_ep_in_buf)
        BY <1>4 DEF host_in
      <3>4. QED
        BY <3>1, <3>2, <3>3
    <2>3. QED
      BY <1>4, <2>1, <2>2 DEF IInv, TypeOK, host_in
  <1>5. QED
    BY <1>1, <1>2, <1>3, <1>4 DEF Host

LEMMA StepIInv == IInv /\ [Next]_vars => IInv'
  <1> SUFFICES ASSUME IInv, [Next]_vars PROVE IInv'
    OBVIOUS
  <1>1. CASE dispatch_take
    <2>1. usb_if_ctrl_rx_sem' \in 0 .. RT_SEM_VALUE_MAX
      BY <1>1, Sizes DEF IInv, TypeOK, dispatch_take
    <2>2. QED
      BY <1>1, <2>1 DEF IInv, TypeOK, dispatch_take
  <1>2. CASE dispatch_empty
    BY <1>2 DEF IInv, TypeOK, dispatch_empty
  <1>3. CASE dispatch_byte
    BY <1>3, ByteKeepsTypes
  <1>4. CASE send_enter
    BY <1>4 DEF IInv, TypeOK, send_enter
  <1>5. CASE send_stage
    BY <1>5 DEF IInv, TypeOK, send_stage
  <1>6. CASE send_start
    <2>1. in_len' \in 0 .. EXLINK_MAX_FRAME
      <3>1. Len(s_resp) \in 0 .. EXLINK_MAX_FRAME
        BY LenProperties, Sizes DEF IInv, TypeOK
      <3>2. QED
        BY <1>6, <3>1 DEF IInv, TypeOK, send_start
    <2>2. QED
      BY <1>6, <2>1 DEF IInv, TypeOK, send_start
  <1>7. CASE send_done
    BY <1>7 DEF IInv, TypeOK, send_done
  <1>8. CASE send_timeout
    <2>1. mishap' \in SUBSET {"torn", "late"}
      BY <1>8 DEF IInv, TypeOK, send_timeout
    <2>2. QED
      BY <1>8, <2>1 DEF IInv, TypeOK, send_timeout
  <1>9. CASE exlink_ctrl_out_cb
    BY <1>9, OutCbKeepsTypes
  <1>10. CASE exlink_ctrl_in_cb
    <2>1. in_len' \in 0 .. EXLINK_MAX_FRAME
      BY <1>10, Sizes DEF IInv, TypeOK, exlink_ctrl_in_cb
    <2>2. QED
      BY <1>10, <2>1, ZenonT(60) DEF IInv, TypeOK, exlink_ctrl_in_cb
  <1>11. CASE BusReset
    <2>1. /\ ends' \in 0 .. MaxSessionEnds /\ mishap' \in SUBSET {"torn", "late"}
          /\ 0 \in 0 .. Window /\ <<>> \in Seq(Byte)
      BY <1>11, BusKeepsTypes, Sizes DEF BusReset
    <2>2. QED
      BY <1>11, <2>1 DEF IInv, TypeOK, BusReset, usb_if_ctrl_on_reset, HostForgets
  <1>12. CASE BusDisconnect
    <2>1. /\ ends' \in 0 .. MaxSessionEnds /\ mishap' \in SUBSET {"torn", "late"}
          /\ 0 \in 0 .. Window /\ <<>> \in Seq(Byte)
      BY <1>12, BusKeepsTypes, Sizes DEF BusDisconnect
    <2>2. QED
      BY <1>12, <2>1 DEF IInv, TypeOK, BusDisconnect, usb_if_ctrl_on_reset, HostForgets
  <1>13. CASE usb_if_ctrl_on_configured
    BY <1>13 DEF IInv, TypeOK, usb_if_ctrl_on_configured
  <1>14. CASE Host
    BY <1>14, HostKeepsTypes
  <1>15. CASE UNCHANGED vars
    BY <1>15 DEF IInv, TypeOK, vars
  <1>16. QED
    BY <1>1, <1>2, <1>3, <1>4, <1>5, <1>6, <1>7, <1>8, <1>9, <1>10, <1>11, <1>12, <1>13,
       <1>14, <1>15 DEF Next, Dispatch, Isr, Bus

LEMMA AlwaysIInv == Spec => []IInv
  BY InitIInv, StepIInv, PTL DEF Spec

(* Every variable of the command channel keeps to its range, the parser to *)
(* its fields and every response to the frame buffer, whatever the host    *)
(* writes and wherever a session is cut.                                   *)
THEOREM TypeCorrect == Spec => []TypeOK
  <1>1. IInv => TypeOK
    BY DEF IInv
  <1>2. QED
    BY <1>1, AlwaysIInv, PTL

----------------------------------------------------------------------------
(* Requests and responses.                                                 *)

(* A request the parser decides on gets the response the parser's verdict  *)
(* calls for, and that response is never empty.                            *)
LEMMA AnswerIs ==
  ASSUME NEW r, Decided(r), NEW q \in Parser, NEW v, Judged(r, v, q)
  PROVE  /\ v # "NONE"
         /\ Response(q, v) = Answer(r)
         /\ PingFits => Answer(r) # <<>>
  <1> DEFINE payload == SubSeq(r, 6, Len(r) - 2)
             f       == exlink_frame_build(r[3], payload, EXLINK_MAX_FRAME)
             long    == Announced(r) > EXLINK_MAX_PAYLOAD
  <1>1. Answer(r) = CASE long  -> build_error(EXLINK_ERR_BAD_LEN)
                      [] r = f -> exlink_dispatch(r[3], payload)
                      [] OTHER -> build_error(EXLINK_ERR_BAD_CRC)
    BY DEF Answer, Announced, EXLINK_HEADER_LEN, EXLINK_CRC_LEN
  <1>2. EXLINK_ERR_BAD_CRC \in Byte /\ EXLINK_ERR_BAD_LEN \in Byte
    BY DEF EXLINK_ERR_BAD_CRC, EXLINK_ERR_BAD_LEN, Byte
  <1>3. Announced(r) \in Nat /\ EXLINK_MAX_PAYLOAD \in Nat /\ Len(r) \in Nat /\ r \in Bytes
    BY DecidedLength, WordsAreNaturals DEF Decided
  <1>4. CASE TooLong(r)
    <2>1. long /\ Len(r) = 5
      BY <1>4 DEF TooLong, EXLINK_HEADER_LEN
    <2>2. r # f
      <3>1. payload = <<>>
        BY <2>1, SubSeqEmpty
      <3> HIDE DEF payload
      <3>2. payload \in Bytes /\ Len(payload) = 0 /\ Len(payload) <= EXLINK_MAX_PAYLOAD
        <4>1. <<>> \in Bytes /\ Len(<<>>) = 0
          BY Headers
        <4>2. QED
          BY <1>3, <3>1, <4>1
      <3>3. 3 \in 1 .. Len(r)
        BY <2>1
      <3>4. r[3] \in Byte
        BY <1>3, <3>3, ElementOfSeq DEF Bytes
      <3>5. Len(f) = EXLINK_FRAME_OVERHEAD + Len(payload)
        BY <3>2, <3>4, BuiltFrame
      <3>6. Len(f) = 7
        BY <3>2, <3>5 DEF EXLINK_FRAME_OVERHEAD, EXLINK_HEADER_LEN, EXLINK_CRC_LEN
      <3>7. QED
        BY <2>1, <3>6
    <2> HIDE DEF f, long, payload
    <2>3. Answer(r) = build_error(EXLINK_ERR_BAD_LEN)
      BY <1>1, <2>1, <2>2
    <2>4. v = "BAD_LEN"
      BY <1>4 DEF Judged
    <2>5. Response(q, v) = build_error(EXLINK_ERR_BAD_LEN)
      BY <2>4 DEF Response
    <2>6. QED
      BY <1>2, <2>3, <2>4, <2>5, ErrorBuilt
  <1>5. CASE ~ TooLong(r)
    <2>1. Complete(r) /\ Announced(r) <= EXLINK_MAX_PAYLOAD
      BY <1>5 DEF Decided
    <2>2. ~ long
      BY <1>3, <2>1
    <2>3. Pieces(r)
      BY <2>1, FramePieces
    <2>4. /\ r[3] \in Byte /\ payload \in Bytes /\ Len(payload) <= EXLINK_MAX_PAYLOAD
          /\ payload = SubSeq(Body(r), 6, Len(Body(r)))
      BY <2>1, <2>3 DEF Pieces
    <2>5. Intact(r) <=> r = f
      BY <2>1, IntactIsBuilt
    <2> HIDE DEF f, long, payload
    <2>6. /\ v = IF Intact(r) THEN "OK" ELSE "BAD_CRC"
          /\ q.op = r[3] /\ q.payload = payload
      BY <2>1, <2>4 DEF Judged
    <2>7. CASE Intact(r)
      <3>1. Answer(r) = exlink_dispatch(r[3], payload)
        BY <1>1, <2>2, <2>5, <2>7
      <3>2. v = "OK"
        BY <2>6, <2>7
      <3>3. Response(q, v) = exlink_dispatch(r[3], payload)
        BY <2>6, <3>2 DEF Response
      <3>4. QED
        BY <2>4, <3>1, <3>2, <3>3, DispatchBuilt
    <2>8. CASE ~ Intact(r)
      <3>1. Answer(r) = build_error(EXLINK_ERR_BAD_CRC)
        BY <1>1, <2>2, <2>5, <2>8
      <3>2. v = "BAD_CRC"
        BY <2>6, <2>8
      <3>3. Response(q, v) = build_error(EXLINK_ERR_BAD_CRC)
        BY <3>2 DEF Response
      <3>4. QED
        BY <1>2, <3>1, <3>2, <3>3, ErrorBuilt
    <2>9. QED
      BY <2>7, <2>8
  <1>6. QED
    BY <1>4, <1>5

(* The response to a request is with the thread, or primed.                *)
Answering ==
  pc \in {"enter", "wait", "start"} \/ (pc = "sent" /\ in_ep = "primed" /\ in_len > 0)

(* Requests the thread has decided on.                                     *)
Served == Len(rcvd) + (IF Answering THEN 1 ELSE 0)

(* The bytes on their way, in the order in which the parser will take      *)
(* them: those it has taken of the frame under way, those in the ring, the *)
(* packet received, and what the host has left to write.                   *)
OutBytes == IF out_ep = "done" THEN Len(s_ep_out_buf) ELSE 0

Fed   == Len(Pending(s_parser))
Got   == Fed + InRing
Held  == Got + OutBytes
Total == Held + Len(unsent)

Cell(k) == s_rx_ring[(s_rx_tail + k - 1) % EXLINK_RX_RING_SIZE]

ByteAt(x) ==
  IF x <= Fed THEN Pending(s_parser)[x]
  ELSE IF x <= Got THEN Cell(x - Fed)
  ELSE IF x <= Held THEN s_ep_out_buf[x - Got]
  ELSE unsent[x - Held]

(* They are the bytes of requests k + 1 to w, and the parser is inside the *)
(* first of them.                                                          *)
Carries(k, w) ==
  /\ Starts[k] + Total = Starts[w]
  /\ \A n \in k + 1 .. w : \A i \in 1 .. Len(Requests[n]) :
       ByteAt(Starts[n - 1] - Starts[k] + i) = Requests[n][i]
  /\ k < w => Fed < Len(Requests[k + 1])

Wire ==
  /\ Served <= written /\ Carries(Served, written)
  /\ unsent # <<>> => written >= 1 /\ Len(unsent) < Len(Requests[written])

Thread ==
  /\ pc \in {"take", "drain", "enter", "wait"}
       => ~ s_tx_busy /\ in_ep \notin {"primed", "done"}
  /\ pc = "start" => s_tx_busy /\ in_ep = "idle" /\ s_ep_in_buf = s_resp
  /\ pc = "sent" => /\ s_tx_busy <=> in_ep \in {"primed", "done"}
                    /\ s_ep_in_buf = s_resp
  /\ pc \notin {"take", "drain"} => bus = "configured"

Attached ==
  IF bus = "configured" THEN s_configured /\ in_ep # "off" /\ out_ep \in {"primed", "done"}
                        ELSE outstanding = 0 /\ out_ep # "done"

Paired ==
  /\ written = Len(rcvd) + outstanding
  /\ \A n \in 1 .. Len(rcvd) : rcvd[n] = Answers[n]
  /\ Answering => s_resp # <<>> /\ s_resp = Answers[Served]

Orderly == Thread /\ Attached /\ Paired /\ Wire

(* Until a mishap or a loss, every byte the host has written and the       *)
(* thread has not decided on is in exactly one place, in its turn.         *)
ChannelInv == mishap = {} /\ s_rx_dropped = 0 => Orderly

(* Where a byte stands in the ring, seen from the head.                    *)
LEMMA Offset ==
  ASSUME NEW S \in Nat, S >= 2, NEW t \in Nat, t < S, NEW h \in Nat, h < S,
         NEW c, c = IF t <= h THEN h - t ELSE h + S - t,
         NEW x \in Nat, x < S
  PROVE  (((t + x) % S) + S - h) % S = IF x < c THEN x + S - c ELSE x - c
  <1> DEFINE i == (t + x) % S
             y == i + S - h
  <1>1. i = IF t + x < S THEN t + x ELSE t + x - S
    <2> DEFINE z == t + x
    <2>1. z \in Nat /\ z < S + S
      OBVIOUS
    <2> HIDE DEF z
    <2>2. z % S = IF z < S THEN z ELSE z - S
      BY <2>1, WrapOnce
    <2>3. QED
      BY <2>2 DEF z
  <1> HIDE DEF i
  <1>2. y \in Nat /\ y < S + S
    BY <1>1
  <1>3. y % S = IF y < S THEN y ELSE y - S
    <2> HIDE DEF y
    <2>1. QED
      BY <1>2, WrapOnce
  <1>4. y % S = IF x < c THEN x + S - c ELSE x - c
    BY <1>1, <1>3
  <1>5. QED
    BY <1>4 DEF i

LEMMA RingGrows ==
  ASSUME s_rx_head \in RingIndex, s_rx_tail \in RingIndex, s_rx_tail' = s_rx_tail,
         NEW packet \in Bytes, NEW n, Put(packet, n)
  PROVE  /\ InRing' = InRing + n /\ n \in 0 .. Len(packet)
         /\ \A k \in 1 .. InRing + n :
              Cell(k)' = IF k <= InRing THEN Cell(k) ELSE packet[k - InRing]
  <1> DEFINE S == EXLINK_RX_RING_SIZE
             t == s_rx_tail
             h == s_rx_head
             c == InRing
  <1>1. /\ S \in Nat /\ S >= 2 /\ h \in Nat /\ t \in Nat /\ h < S /\ t < S
        /\ c = IF t <= h THEN h - t ELSE h + S - t
        /\ c \in Nat /\ c < S /\ Room = S - 1 - c
    BY RingCount, Sizes
  <1>2. n \in Nat /\ n <= S - 1 - c /\ n \in 0 .. Len(packet)
    BY <1>1, LenProperties DEF Put, Bytes
  <1>3. /\ s_rx_head' = (h + n) % S
        /\ \A i \in RingIndex :
             s_rx_ring'[i] = IF (i + S - h) % S < n THEN packet[((i + S - h) % S) + 1]
                             ELSE s_rx_ring[i]
    BY <1>2 DEF Put
  <1>4. s_rx_tail' = t
    OBVIOUS
  <1>5. \A x \in Nat : x < S => /\ (t + x) % S \in RingIndex
                                /\ (((t + x) % S) + S - h) % S = IF x < c THEN x + S - c ELSE x - c
    <2> SUFFICES ASSUME NEW x \in Nat, x < S
                 PROVE  /\ (t + x) % S \in RingIndex
                        /\ (((t + x) % S) + S - h) % S = IF x < c THEN x + S - c ELSE x - c
      OBVIOUS
    <2> HIDE DEF S, t, h, c
    <2>1. (((t + x) % S) + S - h) % S = IF x < c THEN x + S - c ELSE x - c
      BY <1>1, Offset
    <2>2. t + x \in Nat /\ t + x < S + S
      BY <1>1
    <2>3. (t + x) % S \in RingIndex
      BY <2>2, Places DEF S
    <2>4. QED
      BY <2>1, <2>3
  <1>6. InRing' = c + n
    <2>1. s_rx_head' = IF h + n < S THEN h + n ELSE h + n - S
      <3> HIDE DEF S, t, h, c
      <3> DEFINE z == h + n
      <3>1. z \in Nat /\ z < S + S
        BY <1>1, <1>2
      <3> HIDE DEF z
      <3>2. z % S = IF z < S THEN z ELSE z - S
        BY <1>1, <3>1, WrapOnce
      <3>3. QED
        BY <1>1, <1>2, <1>3, <3>2 DEF z
    <2>2. s_rx_head' + S - t \in Nat /\ s_rx_head' + S - t < S + S
      <3> HIDE DEF S, t, h, c
      <3>1. QED
        BY <1>1, <1>2, <2>1
    <2>3. (s_rx_head' + S - t) % S = c + n
      <3> HIDE DEF S, t, h, c
      <3> DEFINE y == s_rx_head' + S - t
      <3>1. y % S = IF y < S THEN y ELSE y - S
        <4>1. y \in Nat /\ y < S + S
          BY <2>2
        <4> HIDE DEF y
        <4>2. QED
          BY <1>1, <4>1, WrapOnce
      <3>2. QED
        BY <1>1, <1>2, <2>1, <3>1
    <2>4. InRing' = (s_rx_head' + S - t) % S
      BY <1>4 DEF InRing
    <2>5. QED
      BY <2>3, <2>4
  <1>7. \A k : Cell(k)' = s_rx_ring'[(t + k - 1) % S] /\ Cell(k) = s_rx_ring[(t + k - 1) % S]
    BY <1>4 DEF Cell
  <1> HIDE DEF S, t, h, c
  <1>8. ASSUME NEW k \in 1 .. c PROVE Cell(k)' = Cell(k)
    <2>1. k - 1 \in Nat /\ k - 1 < S /\ k - 1 < c /\ t + (k - 1) = t + k - 1
          /\ ~ ((k - 1) + S - c < n)
      BY <1>1, <1>2
    <2> DEFINE i == (t + (k - 1)) % S
    <2>2. i \in RingIndex /\ (i + S - h) % S = (k - 1) + S - c
      BY <1>5, <2>1
    <2>3. Cell(k)' = s_rx_ring'[i] /\ Cell(k) = s_rx_ring[i]
      <3>1. i = (t + k - 1) % S
        BY <2>1
      <3> HIDE DEF i
      <3>2. QED
        BY <1>7, <3>1, Zenon
    <2> HIDE DEF i
    <2>4. s_rx_ring'[i] = s_rx_ring[i]
      BY <1>3, <2>1, <2>2
    <2>5. QED
      BY <2>3, <2>4
  <1>9. ASSUME NEW k \in 1 .. c + n, ~ (k <= c) PROVE Cell(k)' = packet[k - c]
    <2>1. /\ k - 1 \in Nat /\ k - 1 < S /\ ~ (k - 1 < c) /\ t + (k - 1) = t + k - 1
          /\ (k - 1) - c < n /\ ((k - 1) - c) + 1 = k - c
      BY <1>1, <1>2, <1>9
    <2> DEFINE i == (t + (k - 1)) % S
    <2>2. i \in RingIndex /\ (i + S - h) % S = (k - 1) - c
      BY <1>5, <2>1
    <2>3. Cell(k)' = s_rx_ring'[i]
      <3>1. i = (t + k - 1) % S
        BY <2>1
      <3> HIDE DEF i
      <3>2. QED
        BY <1>7, <3>1, Zenon
    <2> HIDE DEF i
    <2>4. s_rx_ring'[i] = packet[k - c]
      BY <1>3, <2>1, <2>2
    <2>5. QED
      BY <2>3, <2>4
  <1>10. \A k \in 1 .. c + n : k <= c => k \in 1 .. c
    BY <1>1, <1>2
  <1>11. QED
    BY <1>2, <1>6, <1>8, <1>9, <1>10 DEF c

LEMMA RingShrinks ==
  ASSUME s_rx_head \in RingIndex, s_rx_tail \in RingIndex, s_rx_head # s_rx_tail,
         s_rx_tail' = Succ(s_rx_tail), s_rx_head' = s_rx_head, s_rx_ring' = s_rx_ring
  PROVE  /\ InRing >= 1 /\ InRing' = InRing - 1
         /\ s_rx_ring[s_rx_tail] = Cell(1)
         /\ \A k \in 1 .. InRing - 1 : Cell(k)' = Cell(k + 1)
         /\ InRing = 1 => s_rx_head' = s_rx_tail'
  <1> DEFINE S == EXLINK_RX_RING_SIZE
             t == s_rx_tail
             u == s_rx_tail'
             h == s_rx_head
             c == InRing
  <1>1. /\ S \in Nat /\ S >= 2 /\ h \in Nat /\ t \in Nat /\ h < S /\ t < S /\ h # t
        /\ c = IF t <= h THEN h - t ELSE h + S - t
        /\ c \in Nat /\ c < S /\ c # 0
    BY RingCount, Sizes
  <1>2. u = (t + 1) % S
    BY DEF Succ
  <1>3. InRing' = (h + S - u) % S
    BY DEF InRing
  <1>4. \A k : Cell(k) = s_rx_ring[(t + k - 1) % S] /\ Cell(k)' = s_rx_ring[(u + k - 1) % S]
    BY DEF Cell
  <1>5. s_rx_head' = h
    OBVIOUS
  <1> HIDE DEF S, t, u, h, c
  <1>6. u = IF t + 1 < S THEN t + 1 ELSE t + 1 - S
    <2> DEFINE z == t + 1
    <2>1. z \in Nat /\ z < S + S
      BY <1>1
    <2> HIDE DEF z
    <2>2. z % S = IF z < S THEN z ELSE z - S
      BY <1>1, <2>1, WrapOnce
    <2>3. QED
      BY <1>1, <1>2, <2>2 DEF z
  <1>7. InRing' = c - 1
    <2> DEFINE y == h + S - u
    <2>1. y \in Nat /\ y < S + S
      BY <1>1, <1>6
    <2>2. y % S = IF y < S THEN y ELSE y - S
      <3> HIDE DEF y
      <3>1. QED
        BY <1>1, <2>1, WrapOnce
    <2>3. QED
      BY <1>1, <1>3, <1>6, <2>2
  <1>8. s_rx_ring[t] = Cell(1)
    <2>1. (t + 1 - 1) % S = t
      <3>1. t + 1 - 1 = t /\ t < S + S
        BY <1>1
      <3>2. QED
        BY <1>1, <3>1, WrapOnce
    <2>2. QED
      BY <1>4, <2>1
  <1>9. ASSUME NEW k \in 1 .. c - 1 PROVE Cell(k)' = Cell(k + 1)
    <2>1. /\ u + k - 1 \in Nat /\ u + k - 1 < S + S
          /\ t + (k + 1) - 1 \in Nat /\ t + (k + 1) - 1 < S + S
      BY <1>1, <1>6
    <2>2. (u + k - 1) % S = (t + (k + 1) - 1) % S
      <3> DEFINE x == u + k - 1
                 y == t + (k + 1) - 1
      <3>1. x = IF t + 1 < S THEN y ELSE y - S
        BY <1>1, <1>6
      <3>2. y >= S \/ t + 1 < S
        BY <1>1
      <3> HIDE DEF x, y
      <3>3. x \in Nat /\ x < S + S /\ y \in Nat /\ y < S + S
        BY <2>1 DEF x, y
      <3>4. /\ x % S = IF x < S THEN x ELSE x - S
            /\ y % S = IF y < S THEN y ELSE y - S
        BY <1>1, <3>3, WrapOnce
      <3>5. x % S = y % S
        BY <1>1, <3>1, <3>2, <3>3, <3>4
      <3>6. QED
        BY <3>5 DEF x, y
    <2>3. QED
      BY <1>4, <2>2
  <1>10. c = 1 => s_rx_head' = u
    BY <1>1, <1>5, <1>6
  <1>11. QED
    BY <1>1, <1>7, <1>8, <1>9, <1>10 DEF t, c, u

(* Where the requests begin in the stream of their bytes.                  *)
LEMMA StartsAre ==
  /\ Starts[0] = 0
  /\ \A n \in 1 .. Len(Requests) : Starts[n] = Starts[n - 1] + Len(Requests[n])
  /\ \A n \in 0 .. Len(Requests) : Starts[n] \in Nat
  <1> DEFINE N == Len(Requests)
             step == [n \in 1 .. N |-> [x \in Nat |-> x + Len(Requests[n])]]
             Solution(f) == f = [n \in 0 .. N |->
                                   IF n = 0 THEN 0 ELSE f[n - 1] + Len(Requests[n])]
  <1>1. N \in Nat /\ \A n \in 1 .. N : Len(Requests[n]) \in Nat
    <2>1. N \in Nat /\ \A n \in 1 .. N : Requests[n] \in Seq(Byte)
      BY Sizes DEF Bytes
    <2>2. QED
      BY <2>1, LenProperties
  <1>2. step \in [1 .. N -> [Nat -> Nat]]
    BY <1>1
  <1>3. PICK f \in [0 .. N -> Nat] : /\ f[0] = 0
                                    /\ \A n \in 1 .. N : f[n] = step[n][f[n - 1]]
    <2> DEFINE A == Nat
               first == 0
    <2>1. first \in A /\ N \in Nat /\ step \in [1 .. N -> [A -> A]]
      BY <1>1, <1>2
    <2> HIDE DEF step, N, A, first
    <2>2. \E f \in [0 .. N -> A] :
            /\ f[0] = first
            /\ \A k \in 1 .. N : f[k] = step[k][f[k - 1]]
      BY <2>1, RecursionExists
    <2>3. QED
      BY <2>2 DEF A, first
  <1>4. \A n \in 1 .. N : f[n] = f[n - 1] + Len(Requests[n])
    <2>1. ASSUME NEW n \in 1 .. N PROVE f[n] = f[n - 1] + Len(Requests[n])
      <3> DEFINE x == f[n - 1]
                 L == Len(Requests[n])
      <3>1. x \in Nat
        <4> HIDE DEF step, N
        <4>1. n - 1 \in 0 .. N
          BY <1>1
        <4>2. QED
          BY <1>3, <4>1
      <3>2. f[n] = step[n][x]
        <4> HIDE DEF step
        <4>1. QED
          BY <1>3
      <3> HIDE DEF x
      <3>3. QED
        BY <3>1, <3>2 DEF x
    <2>2. QED
      BY <2>1
  <1> HIDE DEF N, step
  <1>5. Solution(f)
    <2>1. \A n \in 0 .. N : n # 0 => n \in 1 .. N
      BY <1>1
    <2>2. \A n \in 0 .. N : f[n] = IF n = 0 THEN 0 ELSE f[n - 1] + Len(Requests[n])
      BY <1>3, <1>4, <2>1
    <2>3. QED
      BY <1>3, <2>2
  <1>6. Starts = CHOOSE g : Solution(g)
    BY DEF Starts, N
  <1>7. Solution(Starts)
    BY <1>5, <1>6
  <1>8. /\ Starts[0] = 0
        /\ \A n \in 1 .. N : Starts[n] = Starts[n - 1] + Len(Requests[n])
    BY <1>1, <1>7
  <1>9. \A n \in 0 .. N : Starts[n] \in Nat
    <2> DEFINE T == {n \in Nat : n <= N => Starts[n] \in Nat}
    <2>1. 0 \in T
      BY <1>8
    <2>2. ASSUME NEW n \in T PROVE n + 1 \in T
      <3>1. CASE n + 1 <= N
        <4>1. n + 1 \in 1 .. N /\ (n + 1) - 1 = n /\ n <= N
          BY <1>1, <3>1
        <4>2. Starts[n] \in Nat /\ Starts[n + 1] = Starts[n] + Len(Requests[n + 1])
          BY <1>8, <4>1
        <4>3. QED
          BY <1>1, <4>1, <4>2
      <3>2. QED
        BY <3>1
    <2>3. T \in SUBSET Nat
      OBVIOUS
    <2>4. T = Nat
      <3> HIDE DEF T
      <3>1. QED
        BY <2>1, <2>2, <2>3, SetInduction
    <2>5. QED
      BY <1>1, <2>4
  <1>10. QED
    BY <1>8, <1>9 DEF N

LEMMA StartsGrow ==
  ASSUME NEW m \in 0 .. Len(Requests), NEW n \in m .. Len(Requests)
  PROVE  Starts[m] <= Starts[n]
  <1> DEFINE N == Len(Requests)
             T == {d \in Nat : m + d <= N => Starts[m] <= Starts[m + d]}
  <1>1. N \in Nat /\ \A k \in 1 .. N : Len(Requests[k]) \in Nat
    <2>1. N \in Nat /\ \A k \in 1 .. N : Requests[k] \in Seq(Byte)
      BY Sizes DEF Bytes
    <2>2. QED
      BY <2>1, LenProperties
  <1> HIDE DEF N
  <1>2. m \in Nat /\ n \in Nat /\ m <= n /\ n <= N
    BY <1>1 DEF N
  <1>3. 0 \in T
    <2>1. Starts[m] \in Nat /\ m + 0 = m
      BY <1>2, StartsAre DEF N
    <2>2. QED
      BY <2>1
  <1>4. ASSUME NEW d \in T PROVE d + 1 \in T
    <2>1. CASE m + (d + 1) <= N
      <3>1. /\ m + (d + 1) \in 1 .. N /\ (m + (d + 1)) - 1 = m + d /\ m + d <= N
            /\ m + d \in 0 .. N
        BY <1>1, <1>2, <2>1
      <3>2. /\ Starts[m + (d + 1)] = Starts[m + d] + Len(Requests[m + (d + 1)])
            /\ Starts[m] <= Starts[m + d] /\ Starts[m] \in Nat /\ Starts[m + d] \in Nat
        BY <1>2, <3>1, StartsAre DEF N
      <3>3. Len(Requests[m + (d + 1)]) \in Nat
        BY <1>1, <3>1
      <3>4. Starts[m] <= Starts[m + (d + 1)]
        BY <3>2, <3>3
      <3>5. QED
        BY <3>4
    <2>2. QED
      BY <2>1
  <1>5. T \in SUBSET Nat
    OBVIOUS
  <1>6. T = Nat
    <2> HIDE DEF T
    <2>1. QED
      BY <1>3, <1>4, <1>5, SetInduction
  <1>7. n - m \in Nat /\ m + (n - m) = n
    BY <1>2
  <1>8. n - m \in T
    BY <1>6, <1>7
  <1>9. QED
    BY <1>2, <1>7, <1>8

(* Request n of the requests after the first k, up to w, in the stream.    *)
LEMMA Position ==
  ASSUME NEW k \in 0 .. Len(Requests), NEW w \in k .. Len(Requests),
         NEW n \in k + 1 .. w, NEW i \in 1 .. Len(Requests[n])
  PROVE  /\ Starts[n - 1] - Starts[k] + i \in 1 .. Starts[w] - Starts[k]
         /\ Starts[n - 1] - Starts[k] \in Nat
         /\ n \in 1 .. Len(Requests) /\ Requests[n] \in Bytes /\ Len(Requests[n]) \in Nat
  <1>1. Len(Requests) \in Nat
    BY Sizes
  <1>2. /\ k \in Nat /\ n \in 1 .. Len(Requests) /\ n - 1 \in k .. Len(Requests)
        /\ n \in 0 .. Len(Requests) /\ w \in n .. Len(Requests)
        /\ n - 1 \in 0 .. Len(Requests) /\ w \in 0 .. Len(Requests)
    BY <1>1
  <1>3. Requests[n] \in Bytes /\ Len(Requests[n]) \in Nat
    BY <1>2, Sizes, LenProperties DEF Bytes
  <1>4. Starts[k] <= Starts[n - 1] /\ Starts[n] <= Starts[w]
    BY <1>2, StartsGrow
  <1>5. /\ Starts[n] = Starts[n - 1] + Len(Requests[n])
        /\ Starts[k] \in Nat /\ Starts[n - 1] \in Nat /\ Starts[w] \in Nat
    BY <1>2, StartsAre
  <1> DEFINE a == Starts[k]
             b == Starts[n - 1]
             c == Starts[w]
             L == Len(Requests[n])
  <1>6. a \in Nat /\ b \in Nat /\ c \in Nat /\ L \in Nat /\ a <= b /\ b + L <= c
    BY <1>3, <1>4, <1>5
  <1>7. i \in 1 .. L
    OBVIOUS
  <1> HIDE DEF a, b, c, L
  <1>8. b - a + i \in 1 .. c - a /\ b - a \in Nat
    BY <1>6, <1>7
  <1>9. QED
    BY <1>2, <1>3, <1>8 DEF a, b, c, L

(* The counts of the bytes on their way.                                   *)
Sized ==
  /\ Pending(s_parser) \in Bytes /\ s_ep_out_buf \in Bytes /\ unsent \in Bytes
  /\ Fed \in Nat /\ InRing \in Nat /\ Len(s_ep_out_buf) \in Nat /\ Len(unsent) \in Nat
  /\ Got = Fed + InRing /\ Got \in Nat
  /\ OutBytes \in Nat /\ Held = Got + OutBytes
  /\ Held \in Nat /\ Got <= Held
  /\ Total = Held + Len(unsent) /\ Total \in Nat

LEMMA Measured == IInv => Sized
  <1> SUFFICES ASSUME IInv PROVE Sized
    OBVIOUS
  <1>1. /\ Pending(s_parser) \in Bytes /\ s_ep_out_buf \in Bytes /\ unsent \in Bytes
        /\ s_rx_head \in RingIndex /\ s_rx_tail \in RingIndex
    BY PendingBytes DEF IInv, TypeOK, Bytes
  <1>2. Fed \in Nat /\ InRing \in Nat /\ Len(s_ep_out_buf) \in Nat /\ Len(unsent) \in Nat
    BY <1>1, RingCount, LenProperties DEF Fed, Bytes
  <1>3. Got = Fed + InRing /\ Got \in Nat
    BY <1>2 DEF Got
  <1>4. /\ OutBytes \in Nat /\ Held = Got + OutBytes
        /\ Held \in Nat /\ Got <= Held
    <2>1. OutBytes \in Nat
      BY <1>2 DEF OutBytes
    <2>2. QED
      BY <1>3, <2>1 DEF Held
  <1>5. Total = Held + Len(unsent) /\ Total \in Nat
    BY <1>2, <1>4 DEF Total
  <1>6. QED
    BY <1>1, <1>2, <1>3, <1>4, <1>5 DEF Sized

LEMMA MeasuredNext == IInv' => Sized'
  BY Measured, PTL

(* The stream when a step moves its bytes and changes none of them ...     *)
LEMMA CarriesKept ==
  ASSUME NEW k \in 0 .. Len(Requests), NEW w \in k .. Len(Requests), Carries(k, w),
         Total \in Nat, Total' = Total, \A x \in 1 .. Total : ByteAt(x)' = ByteAt(x),
         k < w => Fed' < Len(Requests[k + 1])
  PROVE  Carries(k, w)'
  <1>1. /\ Starts[k] + Total = Starts[w]
        /\ \A n \in k + 1 .. w : \A i \in 1 .. Len(Requests[n]) :
             ByteAt(Starts[n - 1] - Starts[k] + i) = Requests[n][i]
    BY DEF Carries
  <1>2. Total = Starts[w] - Starts[k]
    <2>1. k \in Nat /\ w \in 0 .. Len(Requests)
      BY Sizes
    <2>2. Starts[k] \in Nat /\ Starts[w] \in Nat
      BY <2>1, StartsAre
    <2>3. QED
      BY <1>1, <2>2
  <1>3. ASSUME NEW n \in k + 1 .. w, NEW i \in 1 .. Len(Requests[n])
        PROVE  ByteAt(Starts[n - 1] - Starts[k] + i)' = Requests[n][i]
    <2> DEFINE x == Starts[n - 1] - Starts[k] + i
    <2>1. x \in 1 .. Total
      BY <1>2, Position
    <2>2. ByteAt(x) = Requests[n][i]
      BY <1>1
    <2> HIDE DEF x
    <2>3. ByteAt(x)' = Requests[n][i]
      BY <2>1, <2>2
    <2>4. QED
      BY <2>3 DEF x
  <1>4. Starts[k] + Total' = Starts[w]
    BY <1>1
  <1>5. QED
    BY <1>3, <1>4 DEF Carries

(* ... when the parser has taken the last byte of a request ...            *)
LEMMA CarriesNext ==
  ASSUME NEW k \in 0 .. Len(Requests), NEW w \in k + 1 .. Len(Requests), Carries(k, w),
         NEW L, L = Len(Requests[k + 1]),
         Total \in Nat, Total' = Total - L,
         \A x \in 1 .. Total - L : ByteAt(x)' = ByteAt(x + L), Fed' = 0
  PROVE  Carries(k + 1, w)'
  <1>1. /\ Starts[k] + Total = Starts[w]
        /\ \A n \in k + 1 .. w : \A i \in 1 .. Len(Requests[n]) :
             ByteAt(Starts[n - 1] - Starts[k] + i) = Requests[n][i]
    BY DEF Carries
  <1>2. /\ k \in Nat /\ w \in 0 .. Len(Requests) /\ Len(Requests) \in Nat
        /\ k + 1 \in 1 .. Len(Requests) /\ k + 1 \in 0 .. Len(Requests) /\ (k + 1) - 1 = k
        /\ w \in Nat
    BY Sizes
  <1>3. L \in Nat
    BY <1>2, Sizes, LenProperties DEF Bytes
  <1>4. /\ Starts[k] \in Nat /\ Starts[w] \in Nat /\ Starts[k + 1] \in Nat
        /\ Starts[k + 1] = Starts[k] + L
    BY <1>2, StartsAre
  <1>5. Starts[k + 1] + Total' = Starts[w] /\ Total - L = Starts[w] - Starts[k + 1]
    <2> DEFINE a == Starts[k]
               b == Starts[w]
               t == Total
               u == Total'
    <2>1. a \in Nat /\ b \in Nat /\ t \in Nat /\ a + t = b /\ u = t - L
      BY <1>1, <1>4
    <2> HIDE DEF a, b, t, u
    <2>2. (a + L) + u = b /\ t - L = b - (a + L)
      BY <1>3, <2>1
    <2>3. QED
      BY <1>4, <2>2 DEF a, b, t, u
  <1>6. ASSUME NEW n \in k + 1 + 1 .. w, NEW i \in 1 .. Len(Requests[n])
        PROVE  ByteAt(Starts[n - 1] - Starts[k + 1] + i)' = Requests[n][i]
    <2> DEFINE x == Starts[n - 1] - Starts[k + 1] + i
    <2>1. n \in k + 1 .. w /\ n - 1 \in 0 .. Len(Requests)
      BY <1>2
    <2>2. x \in 1 .. Total - L
      BY <1>2, <1>5, Position
    <2>3. Starts[n - 1] - Starts[k] + i = x + L
      <3>1. Starts[n - 1] \in Nat
        BY <2>1, StartsAre
      <3>2. Len(Requests[n]) \in Nat
        BY <1>2, <2>1, Position
      <3>3. i \in Nat
        BY <3>2
      <3> DEFINE a == Starts[k]
                 b == Starts[n - 1]
      <3>4. a \in Nat /\ b \in Nat
        BY <1>4, <3>1
      <3> HIDE DEF a, b
      <3>5. b - a + i = (b - (a + L) + i) + L
        BY <1>3, <3>3, <3>4
      <3>6. QED
        BY <1>4, <3>5 DEF a, b
    <2>4. ByteAt(x + L) = Requests[n][i]
      BY <1>1, <2>1, <2>3
    <2> HIDE DEF x
    <2>5. ByteAt(x)' = Requests[n][i]
      BY <2>2, <2>4
    <2>6. QED
      BY <2>5 DEF x
  <1>7. k + 1 < w => Fed' < Len(Requests[k + 1 + 1])
    <2> SUFFICES ASSUME k + 1 < w PROVE 0 < Len(Requests[k + 1 + 1])
      OBVIOUS
    <2> DEFINE r == Requests[k + 1 + 1]
    <2>1. k + 1 + 1 \in 1 .. Len(Requests)
      BY <1>2
    <2>2. r \in Seq(Byte) /\ r # <<>>
      BY <2>1, Sizes DEF Bytes
    <2> HIDE DEF r
    <2>3. Len(r) \in Nat /\ Len(r) # 0
      BY <2>2, LenProperties, EmptySeq
    <2>4. QED
      BY <2>3 DEF r
  <1>8. QED
    BY <1>5, <1>6, <1>7 DEF Carries

(* ... and when the host has begun another request.                        *)
LEMMA CarriesMore ==
  ASSUME NEW k \in 0 .. Len(Requests), NEW w \in k .. Len(Requests), w + 1 \in 1 .. Len(Requests),
         Carries(k, w), Fed \in Nat, Fed <= Total, Fed' = Fed,
         NEW r, r = Requests[w + 1],
         NEW z \in Nat, z = Total, Total' = z + Len(r),
         \A x \in 1 .. z + Len(r) : ByteAt(x)' = IF x <= z THEN ByteAt(x) ELSE r[x - z]
  PROVE  Carries(k, w + 1)'
  <1>1. /\ Starts[k] + z = Starts[w]
        /\ \A n \in k + 1 .. w : \A i \in 1 .. Len(Requests[n]) :
             ByteAt(Starts[n - 1] - Starts[k] + i) = Requests[n][i]
        /\ k < w => Fed < Len(Requests[k + 1])
    BY DEF Carries
  <1>2. /\ k \in Nat /\ w \in Nat /\ k <= w /\ w \in 0 .. Len(Requests) /\ Len(Requests) \in Nat
        /\ (w + 1) - 1 = w /\ w + 1 \in 0 .. Len(Requests) /\ w + 1 \in k .. Len(Requests)
    BY Sizes
  <1>3. r \in Bytes /\ r # <<>> /\ Len(r) \in Nat /\ Len(r) # 0
    BY <1>2, Sizes, LenProperties, EmptySeq DEF Bytes
  <1>4. /\ Starts[k] \in Nat /\ Starts[w] \in Nat /\ Starts[w + 1] \in Nat
        /\ Starts[w + 1] = Starts[w] + Len(r)
    BY <1>2, StartsAre
  <1>5. Starts[k] + Total' = Starts[w + 1]
    BY <1>1, <1>3, <1>4
  <1>6. z = Starts[w] - Starts[k]
    BY <1>1, <1>4
  <1>7. ASSUME NEW n \in k + 1 .. w + 1, NEW i \in 1 .. Len(Requests[n])
        PROVE  ByteAt(Starts[n - 1] - Starts[k] + i)' = Requests[n][i]
    <2> DEFINE x == Starts[n - 1] - Starts[k] + i
    <2>1. CASE n \in k + 1 .. w
      <3>1. x \in 1 .. z
        BY <1>6, <2>1, Position
      <3>2. ByteAt(x) = Requests[n][i]
        BY <1>1, <2>1
      <3> HIDE DEF x
      <3>3. x \in 1 .. z + Len(r) /\ x <= z
        BY <1>3, <3>1
      <3>4. ByteAt(x)' = Requests[n][i]
        BY <3>2, <3>3
      <3>5. QED
        BY <3>4 DEF x
    <2>2. CASE n = w + 1
      <3>1. Starts[n - 1] = Starts[w] /\ Requests[n] = r
        BY <1>2, <2>2
      <3>2. i \in Nat /\ i >= 1 /\ i <= Len(r)
        BY <1>3, <3>1
      <3>3. x = z + i
        BY <1>4, <1>6, <3>1, <3>2
      <3> HIDE DEF x
      <3>4. x \in 1 .. z + Len(r) /\ ~ (x <= z) /\ x - z = i
        BY <1>3, <3>2, <3>3
      <3>5. ByteAt(x)' = Requests[n][i]
        BY <3>1, <3>4
      <3>6. QED
        BY <3>5 DEF x
    <2>3. QED
      BY <1>2, <2>1, <2>2
  <1>8. k < w + 1 => Fed' < Len(Requests[k + 1])
    <2>1. CASE k < w
      BY <1>1, <2>1
    <2>2. CASE ~ (k < w)
      <3>1. k = w
        BY <1>2, <2>2
      <3>2. z = 0 /\ Requests[k + 1] = r
        BY <1>1, <1>4, <3>1
      <3>3. QED
        BY <1>3, <3>2
    <2>3. QED
      BY <2>1, <2>2
  <1>9. QED
    BY <1>5, <1>7, <1>8 DEF Carries

(* A packet is the beginning of what there is to write, and not empty.     *)
Cut(u, m) ==
  /\ m \in 1 .. Len(u) /\ Packet(u) \in Bytes /\ Rest(u) \in Bytes
  /\ Len(Packet(u)) = m /\ Len(Rest(u)) = Len(u) - m
  /\ \A i \in 1 .. m : Packet(u)[i] = u[i]
  /\ \A i \in 1 .. Len(u) - m : Rest(u)[i] = u[m + i]

LEMMA NextPacket ==
  ASSUME NEW u \in Bytes, u # <<>>
  PROVE  \E m : Cut(u, m)
  <1> DEFINE L == Len(u)
             M == EXLINK_BULK_MPS
             m == Min({L, M})
  <1>1. L \in Nat /\ L # 0
    BY LenProperties, EmptySeq DEF Bytes
  <1>2. M \in Nat /\ M >= 1
    BY Sizes
  <1>3. m = IF L <= M THEN L ELSE M
    BY <1>1, <1>2, MinOfTwo
  <1>4. Packet(u) = SubSeq(u, 1, m) /\ Rest(u) = SubSeq(u, M + 1, L)
    BY DEF Packet, Rest
  <1> HIDE DEF L, M, m
  <1>5. m \in 1 .. L
    BY <1>1, <1>2, <1>3
  <1>6. /\ Packet(u) \in Bytes /\ Len(Packet(u)) = m
        /\ \A i \in 1 .. m : Packet(u)[i] = u[i]
    BY <1>1, <1>4, <1>5, Prefixes DEF L
  <1>7. /\ Rest(u) \in Bytes /\ Len(Rest(u)) = L - m
        /\ \A i \in 1 .. L - m : Rest(u)[i] = u[m + i]
    <2>1. CASE M <= L
      <3>1. m = M /\ m \in 0 .. L /\ L \in m .. L
        BY <1>1, <1>2, <1>3, <2>1
      <3>2. QED
        BY <1>4, <3>1, Slices DEF L
    <2>2. CASE ~ (M <= L)
      <3>1. m = L /\ L - m = 0 /\ L < M + 1 /\ M + 1 \in Int /\ L \in Int
        BY <1>1, <1>2, <1>3, <2>2
      <3>2. Rest(u) = <<>>
        BY <1>4, <3>1, SubSeqEmpty
      <3>3. <<>> \in Bytes /\ Len(<<>>) = 0
        BY DEF Bytes
      <3>4. \A i \in 1 .. 0 : Rest(u)[i] = u[m + i]
        OBVIOUS
      <3>5. QED
        BY <3>1, <3>2, <3>3, <3>4
    <2>3. QED
      BY <2>1, <2>2
  <1>8. Cut(u, m)
    BY <1>5, <1>6, <1>7 DEF Cut, L
  <1>9. QED
    BY <1>8

(* Wire, with the two ends of the stream named.                            *)
LEMMA WireEnds ==
  ASSUME IInv, Wire
  PROVE  \E k \in 0 .. Len(Requests) : \E w \in k .. Len(Requests) :
           k = Served /\ w = written /\ Carries(k, w)
  <1>1. /\ written \in 0 .. Len(Requests) /\ Len(rcvd) \in Nat /\ Len(Requests) \in Nat
    BY Sizes, LenProperties DEF IInv, TypeOK
  <1>2. Served \in Nat /\ Served <= written /\ Carries(Served, written)
    BY <1>1 DEF Served, Wire
  <1>3. Served \in 0 .. Len(Requests) /\ written \in Served .. Len(Requests)
    BY <1>1, <1>2
  <1>4. QED
    BY <1>2, <1>3

LEMMA WireNext ==
  ASSUME NEW k \in 0 .. Len(Requests), NEW w \in k .. Len(Requests),
         k = Served', w = written', Carries(k, w)',
         unsent' # <<>> => w >= 1 /\ Len(unsent') < Len(Requests[w])
  PROVE  Wire'
  <1>1. k <= w
    BY Sizes
  <1>2. Carries(Served, written)'
    BY DEF Carries, ByteAt, Cell
  <1>3. QED
    BY <1>1, <1>2 DEF Wire

(* What a byte of the stream is after a step. *)
LEMMA ByteAtNext ==
  ASSUME NEW x, NEW fed, fed = Fed', NEW got, got = Got', NEW held, held = Held'
  PROVE  ByteAt(x)' = IF x <= fed THEN Pending(s_parser')[x]
                      ELSE IF x <= got THEN Cell(x - fed)'
                      ELSE IF x <= held THEN s_ep_out_buf'[x - got]
                      ELSE unsent'[x - held]
  BY DEF ByteAt, Cell

(* The request the parser is in. *)
LEMMA FirstRequest ==
  ASSUME Sized, NEW k \in 0 .. Len(Requests), NEW w \in k .. Len(Requests), k < w, Carries(k, w)
  PROVE  /\ k + 1 \in 1 .. Len(Requests) /\ Requests[k + 1] \in Bytes
         /\ Len(Requests[k + 1]) \in Nat
         /\ Fed < Len(Requests[k + 1]) /\ Len(Requests[k + 1]) <= Total
         /\ \A i \in 1 .. Len(Requests[k + 1]) : ByteAt(i) = Requests[k + 1][i]
  <1> DEFINE L == Len(Requests[k + 1])
  <1>1. /\ k \in Nat /\ w \in Nat /\ k + 1 \in k + 1 .. w /\ k + 1 \in 1 .. Len(Requests)
        /\ (k + 1) - 1 = k /\ w \in k + 1 .. Len(Requests) /\ w \in 0 .. Len(Requests)
        /\ k + 1 \in 0 .. Len(Requests)
    BY Sizes
  <1>2. Requests[k + 1] \in Bytes /\ L \in Nat
    BY <1>1, Sizes, LenProperties DEF Bytes
  <1>3. /\ Starts[k] \in Nat /\ Starts[w] \in Nat /\ Starts[k + 1] = Starts[k] + L
        /\ Starts[k + 1] <= Starts[w]
    BY <1>1, StartsAre, StartsGrow
  <1>4. Starts[k] + Total = Starts[w] /\ Fed < L
    BY DEF Carries
  <1>5. L <= Total
    <2> DEFINE t == Total
               a == Starts[k]
    <2>1. t \in Nat /\ a \in Nat /\ a + L <= a + t
      BY <1>3, <1>4 DEF Sized
    <2> HIDE DEF t, a, L
    <2>2. L <= t
      BY <1>2, <2>1
    <2>3. QED
      BY <2>2 DEF t
  <1>6. ASSUME NEW i \in 1 .. L PROVE ByteAt(i) = Requests[k + 1][i]
    <2>1. Starts[(k + 1) - 1] - Starts[k] + i = i
      BY <1>1, <1>2, <1>3
    <2>2. ByteAt(Starts[(k + 1) - 1] - Starts[k] + i) = Requests[k + 1][i]
      BY <1>1 DEF Carries
    <2>3. QED
      BY <2>1, <2>2
  <1>7. QED
    BY <1>1, <1>2, <1>4, <1>5, <1>6

----------------------------------------------------------------------------
(* The steps.                                                              *)

(* The thread takes a byte: the next of the request the parser is in.      *)
LEMMA ByteOrderly ==
  ASSUME FramedHost, IInv, IInv', Orderly, dispatch_byte
  PROVE  Orderly'
  <1> DEFINE b      == s_rx_ring[s_rx_tail]
             v      == FeedResult(s_parser, b)
             answer == Response(s_parser', v)
  <1>1. /\ pc = "drain" /\ s_rx_tail # s_rx_head /\ s_rx_tail' = Succ(s_rx_tail)
        /\ s_parser' = exlink_parser_feed(s_parser, b)
        /\ s_resp' = IF v = "NONE" THEN s_resp ELSE answer
        /\ pc' = IF answer = <<>> THEN "drain" ELSE "enter"
        /\ UNCHANGED <<s_rx_ring, s_rx_head, s_rx_dropped, s_tx_busy, s_ep_in_buf, s_ep_out_buf,
                       in_ep, in_len, out_ep, bus, s_configured, written, unsent, outstanding,
                       rcvd>>
    BY DEF dispatch_byte
  <1>2. ~ Answering /\ Served = Len(rcvd)
    <2>1. ~ Answering
      BY <1>1 DEF Answering
    <2>2. Len(rcvd) \in Nat
      BY LenProperties DEF IInv, TypeOK
    <2>3. QED
      BY <2>1, <2>2 DEF Served
  <1>3. PICK k \in 0 .. Len(Requests) : \E w \in k .. Len(Requests) :
          k = Served /\ w = written /\ Carries(k, w)
    BY WireEnds DEF Orderly
  <1>4. PICK w \in k .. Len(Requests) : k = Served /\ w = written /\ Carries(k, w)
    BY <1>3
  <1>5. /\ InRing \in Nat /\ InRing >= 1 /\ InRing' = InRing - 1 /\ b = Cell(1)
        /\ \A j \in 1 .. InRing - 1 : Cell(j)' = Cell(j + 1)
    BY <1>1, RingShrinks, RingCount DEF IInv, TypeOK
  <1>6. Sized /\ Sized' /\ Sound(s_parser)
    BY Measured, MeasuredNext DEF IInv
  <1>names. PICK fed, got, held, t, u, o, c :
           /\ fed = Fed /\ got = Got /\ held = Held /\ t = Total
           /\ u = Len(unsent) /\ o = OutBytes /\ c = InRing
    OBVIOUS
  <1>7. /\ fed \in Nat /\ c \in Nat /\ c >= 1 /\ o \in Nat /\ u \in Nat
        /\ got = fed + c /\ held = got + o /\ t = held + u
    BY <1>5, <1>6, <1>names DEF Sized
  <1>8. /\ Got' = Fed' + (c - 1) /\ Held' = Got' + o /\ Total' = Held' + u /\ Fed' \in Nat
    <2>1. OutBytes' = o /\ Len(unsent') = u /\ InRing' = c - 1
      BY <1>1, <1>5, <1>names DEF OutBytes
    <2>2. QED
      BY <1>6, <2>1 DEF Sized
  <1>9. k < w
    <2>1. Starts[k] \in Nat /\ Starts[k] + Total = Starts[w] /\ k \in Nat /\ w \in Nat /\ k <= w
      BY <1>4, StartsAre, Sizes DEF Carries
    <2> DEFINE a == Starts[k]
    <2> HIDE DEF a
    <2>2. a + t # a
      BY <1>7, <2>1 DEF a
    <2>3. Starts[w] # Starts[k]
      BY <1>names, <2>1, <2>2 DEF a
    <2>4. QED
      BY <2>1, <2>3
  <1> DEFINE r == Requests[k + 1]
             L == Len(r)
  <1>10. /\ k + 1 \in 1 .. Len(Requests) /\ r \in Bytes /\ L \in Nat /\ fed < L /\ L <= t
         /\ \A i \in 1 .. L : ByteAt(i) = r[i]
    BY <1>4, <1>6, <1>names, <1>9, FirstRequest
  <1>11. Decided(r) /\ PingFits
    BY <1>10 DEF FramedHost
  <1>12. Attached' /\ Thread'
    <2>1. Attached'
      BY <1>1 DEF Orderly, Attached
    <2>2. bus = "configured"
      <3>1. CASE bus # "configured"
        <4>1. outstanding = 0 /\ written = Len(rcvd) + outstanding
          BY <3>1 DEF Orderly, Attached, Paired
        <4>2. k = w
          BY <1>2, <1>4, <4>1, LenProperties DEF IInv, TypeOK
        <4>3. QED
          BY <1>9, <4>2
      <3>2. QED
        BY <3>1
    <2>3. Thread'
      BY <1>1, <2>2 DEF Orderly, Thread
    <2>4. QED
      BY <2>1, <2>3
  <1>13. Pending(s_parser) = SubSeq(r, 1, fed)
    <2>1. fed \in 0 .. Len(r)
      BY <1>7, <1>10
    <2>2. /\ SubSeq(r, 1, fed) \in Bytes /\ Len(SubSeq(r, 1, fed)) = fed
          /\ \A j \in 1 .. fed : SubSeq(r, 1, fed)[j] = r[j]
      BY <1>10, <2>1, Prefixes
    <2>3. Pending(s_parser) \in Bytes /\ Len(Pending(s_parser)) = fed
      BY <1>6, <1>names DEF Sized, Fed
    <2>4. \A j \in 1 .. fed : Pending(s_parser)[j] = r[j]
      <3> SUFFICES ASSUME NEW j \in 1 .. fed PROVE Pending(s_parser)[j] = r[j]
        OBVIOUS
      <3>1. j <= Fed /\ j \in 1 .. L
        <4>1. j \in Nat /\ 1 <= j /\ j <= fed
          BY <1>7
        <4>2. j <= Fed
          BY <1>names, <4>1
        <4> HIDE DEF L
        <4>3. j \in 1 .. L
          BY <1>7, <1>10, <4>1
        <4>4. QED
          BY <4>2, <4>3
      <3>2. ByteAt(j) = Pending(s_parser)[j]
        BY <3>1 DEF ByteAt
      <3>3. QED
        BY <1>10, <3>1, <3>2
    <2> HIDE DEF r
    <2>5. QED
      BY <2>2, <2>3, <2>4, SeqEqual DEF Bytes
  <1>14. b = r[fed + 1]
    <2>1. fed + 1 \in 1 .. L /\ ~ (fed + 1 <= Fed) /\ fed + 1 <= Got /\ (fed + 1) - Fed = 1
      <3> HIDE DEF L
      <3>1. L \in Nat /\ fed < L
        BY <1>10
      <3>2. fed + 1 \in 1 .. L /\ ~ (fed + 1 <= fed) /\ fed + 1 <= got /\ (fed + 1) - fed = 1
        BY <1>7, <3>1
      <3>3. QED
        BY <1>names, <3>2
    <2>2. ByteAt(fed + 1) = Cell(1)
      BY <2>1 DEF ByteAt
    <2>3. QED
      BY <1>5, <1>10, <2>1, <2>2
  <1> HIDE DEF r, L, b
  <1>15. /\ Sound(s_parser')
         /\ fed + 1 < L => v = "NONE" /\ Pending(s_parser') = SubSeq(r, 1, fed + 1)
         /\ fed + 1 = L => Judged(r, v, s_parser')
    <2> DEFINE p == s_parser
               q == s_parser'
    <2>1. /\ Decided(r) /\ fed \in 0 .. Len(r) - 1 /\ Sound(p) /\ Pending(p) = SubSeq(r, 1, fed)
          /\ q = exlink_parser_feed(p, r[fed + 1]) /\ v = FeedResult(p, r[fed + 1])
      <3>1. fed \in 0 .. Len(r) - 1
        BY <1>7, <1>10 DEF L
      <3>2. QED
        BY <1>1, <1>6, <1>11, <1>13, <1>14, <3>1
    <2> HIDE DEF v, p, q
    <2>2. /\ Sound(q)
          /\ fed + 1 < Len(r) => v = "NONE" /\ Pending(q) = SubSeq(r, 1, fed + 1)
          /\ fed + 1 = Len(r) => Judged(r, v, q)
      BY <2>1, DecidedStep
    <2>3. QED
      BY <2>2 DEF q, L
  <1> HIDE DEF v
  <1>16. unsent' # <<>> => w >= 1 /\ Len(unsent') < Len(Requests[w])
    BY <1>1, <1>4 DEF Orderly, Wire
  <1>17. CASE fed + 1 < L
    <2>1. v = "NONE" /\ Pending(s_parser') = SubSeq(r, 1, fed + 1)
      BY <1>15, <1>17
    <2>2. pc' = "drain" /\ s_resp' = s_resp
      BY <1>1, <2>1 DEF Response
    <2>3. ~ Answering' /\ Served' = k
      <3>1. ~ Answering'
        BY <2>2 DEF Answering
      <3>2. QED
        BY <1>1, <1>2, <1>4, <3>1, LenProperties DEF Served, IInv, TypeOK
    <2>4. Paired'
      BY <1>1, <2>3 DEF Orderly, Paired
    <2>5. /\ Fed' = fed + 1 /\ \A j \in 1 .. fed + 1 : Pending(s_parser')[j] = r[j]
      <3>1. fed + 1 \in 0 .. Len(r)
        BY <1>7, <1>10, <1>17 DEF L
      <3>2. Len(SubSeq(r, 1, fed + 1)) = fed + 1
            /\ \A j \in 1 .. fed + 1 : SubSeq(r, 1, fed + 1)[j] = r[j]
        BY <1>10, <3>1, Prefixes
      <3>3. QED
        BY <2>1, <3>2 DEF Fed
    <2>6. Got' = got /\ Held' = held /\ Total' = t
      <3>1. Fed' = fed + 1
        BY <2>5
      <3>2. Got' = got
        BY <1>7, <1>8, <3>1
      <3>3. Held' = held
        BY <1>7, <1>8, <3>2
      <3>4. QED
        BY <1>7, <1>8, <3>2, <3>3
    <2>7. ASSUME NEW x \in 1 .. t PROVE ByteAt(x)' = ByteAt(x)
      <3>1. ByteAt(x)' = IF x <= fed + 1 THEN Pending(s_parser')[x]
                         ELSE IF x <= got THEN Cell(x - (fed + 1))'
                         ELSE IF x <= held THEN s_ep_out_buf'[x - got]
                         ELSE unsent'[x - held]
        <4> DEFINE f == fed + 1
        <4>1. f = Fed' /\ got = Got' /\ held = Held'
          BY <2>5, <2>6
        <4> HIDE DEF f
        <4>2. ByteAt(x)' = IF x <= f THEN Pending(s_parser')[x]
                           ELSE IF x <= got THEN Cell(x - f)'
                           ELSE IF x <= held THEN s_ep_out_buf'[x - got]
                           ELSE unsent'[x - held]
          BY <4>1, ByteAtNext
        <4>3. QED
          BY <4>2 DEF f
      <3>2. ByteAt(x) = IF x <= fed THEN Pending(s_parser)[x]
                        ELSE IF x <= got THEN Cell(x - fed)
                        ELSE IF x <= held THEN s_ep_out_buf[x - got]
                        ELSE unsent[x - held]
        BY <1>names DEF ByteAt
      <3>3. CASE x <= fed + 1
        <4>1. x \in 1 .. fed + 1 /\ x \in 1 .. L
          BY <1>7, <1>10, <1>17, <3>3
        <4>2. QED
          BY <1>10, <2>5, <3>1, <3>3, <4>1
      <3>4. CASE ~ (x <= fed + 1) /\ x <= got
        <4> DEFINE j == x - (fed + 1)
        <4>1. j \in 1 .. InRing - 1 /\ j + 1 = x - fed /\ ~ (x <= fed)
          BY <1>7, <1>names, <3>4
        <4> HIDE DEF j
        <4>2. Cell(j)' = Cell(j + 1)
          BY <1>5, <4>1
        <4>3. ByteAt(x)' = Cell(j)'
          BY <3>1, <3>4 DEF j
        <4>4. QED
          BY <3>2, <3>4, <4>1, <4>2, <4>3
      <3>5. CASE ~ (x <= fed + 1) /\ ~ (x <= got)
        <4>1. ~ (x <= fed)
          BY <1>7, <3>5
        <4>2. QED
          BY <1>1, <3>1, <3>2, <3>5, <4>1
      <3>6. QED
        BY <3>3, <3>4, <3>5
    <2>8. Carries(k, w)'
      <3>1. Total \in Nat /\ Total' = Total /\ \A x \in 1 .. Total : ByteAt(x)' = ByteAt(x)
        BY <1>7, <1>names, <2>6, <2>7
      <3>2. Fed' < Len(Requests[k + 1])
        BY <1>17, <2>5 DEF L, r
      <3>3. QED
        BY <1>4, <3>1, <3>2, CarriesKept
    <2>9. Wire'
      <3>1. k = Served' /\ w = written'
        BY <1>1, <1>4, <2>3
      <3>2. QED
        BY <1>16, <2>8, <3>1, WireNext
    <2>10. QED
      BY <1>12, <2>4, <2>9 DEF Orderly
  <1>18. CASE fed + 1 = L
    <2>1. Judged(r, v, s_parser')
      BY <1>15, <1>18
    <2>2. s_parser' \in Parser
      BY <1>15 DEF Sound
    <2>3. v # "NONE" /\ answer = Answer(r) /\ answer # <<>>
      BY <1>11, <2>1, <2>2, AnswerIs
    <2> HIDE DEF answer
    <2>4. pc' = "enter" /\ s_resp' # <<>> /\ s_resp' = Answers[k + 1]
      BY <1>1, <1>10, <2>3 DEF Answers, r
    <2>5. Answering' /\ Served' = k + 1
      BY <1>1, <1>2, <1>4, <2>4 DEF Answering, Served
    <2>6. Paired'
      BY <1>1, <2>4, <2>5 DEF Orderly, Paired
    <2>7. Pending(s_parser') = <<>> /\ Fed' = 0
      <3>1. Pending(s_parser') = <<>>
        BY <1>11, <2>1 DEF Judged, Decided
      <3>2. QED
        BY <3>1 DEF Fed
    <2>8. Got' = c - 1 /\ Held' = Got' + o /\ Total' = t - L
      BY <1>7, <1>8, <1>18, <2>7
    <2>9. ASSUME NEW x \in 1 .. t - L PROVE ByteAt(x)' = ByteAt(x + L)
      <3> DEFINE z == c - 1
                 h == c - 1 + o
                 y == x + L
      <3>1. ByteAt(x)' = IF x <= 0 THEN Pending(s_parser')[x]
                         ELSE IF x <= z THEN Cell(x - 0)'
                         ELSE IF x <= h THEN s_ep_out_buf'[x - z]
                         ELSE unsent'[x - h]
        <4> DEFINE f == 0
        <4>1. f = Fed' /\ z = Got' /\ h = Held'
          BY <2>7, <2>8
        <4> HIDE DEF f, z, h
        <4>2. ByteAt(x)' = IF x <= f THEN Pending(s_parser')[x]
                           ELSE IF x <= z THEN Cell(x - f)'
                           ELSE IF x <= h THEN s_ep_out_buf'[x - z]
                           ELSE unsent'[x - h]
          BY <4>1, ByteAtNext
        <4>3. QED
          BY <4>2 DEF f
      <3>2. ByteAt(y) = IF y <= fed THEN Pending(s_parser)[y]
                        ELSE IF y <= got THEN Cell(y - fed)
                        ELSE IF y <= held THEN s_ep_out_buf[y - got]
                        ELSE unsent[y - held]
        BY <1>names DEF ByteAt
      <3>3. /\ ~ (x <= 0) /\ ~ (y <= fed) /\ x - 0 = x /\ y - fed = x + 1
            /\ x <= z <=> y <= got
            /\ x <= h <=> y <= held
            /\ x - z = y - got /\ x - h = y - held
        BY <1>7, <1>10, <1>18
      <3>4. CASE x <= z
        <4>1. x \in 1 .. InRing - 1
          BY <1>7, <1>names, <3>4
        <4>2. Cell(x)' = Cell(x + 1)
          BY <1>5, <4>1
        <4> HIDE DEF y, z, h
        <4>3. QED
          BY <3>1, <3>2, <3>3, <3>4, <4>2 DEF y
      <3>5. CASE ~ (x <= z)
        <4> HIDE DEF y, z, h
        <4>1. QED
          BY <1>1, <3>1, <3>2, <3>3, <3>5 DEF y
      <3>6. QED
        BY <3>4, <3>5
    <2>10. Carries(k + 1, w)'
      <3>1. /\ Total \in Nat /\ Total' = Total - L /\ L = Len(Requests[k + 1])
            /\ \A x \in 1 .. Total - L : ByteAt(x)' = ByteAt(x + L)
        BY <1>7, <1>names, <2>8, <2>9 DEF L, r
      <3>2. w \in k + 1 .. Len(Requests)
        BY <1>9, Sizes
      <3>3. QED
        BY <1>4, <2>7, <3>1, <3>2, CarriesNext
    <2>11. Wire'
      <3>1. k + 1 = Served' /\ w = written'
        BY <1>1, <1>4, <2>5
      <3>2. k + 1 \in 0 .. Len(Requests) /\ w \in k + 1 .. Len(Requests)
        BY <1>9, <1>10, Sizes
      <3>3. QED
        BY <1>16, <2>10, <3>1, <3>2, WireNext
    <2>12. QED
      BY <1>12, <2>6, <2>11 DEF Orderly
  <1>19. QED
    BY <1>7, <1>10, <1>17, <1>18

(* The interrupt moves a packet into the ring, all of it.                  *)
LEMMA OutCbOrderly ==
  ASSUME IInv, IInv', Orderly, exlink_ctrl_out_cb, s_rx_dropped = 0, s_rx_dropped' = 0
  PROVE  Orderly'
  <1>1. /\ out_ep = "done" /\ out_ep' = "primed"
        /\ UNCHANGED <<s_rx_tail, s_parser, s_resp, pc, s_tx_busy, s_ep_in_buf, s_ep_out_buf,
                       in_ep, in_len, bus, s_configured, written, unsent, outstanding, rcvd>>
    BY DEF exlink_ctrl_out_cb
  <1>2. Thread' /\ Attached' /\ (Answering' <=> Answering) /\ Served' = Served
    BY <1>1 DEF Orderly, Thread, Attached, Answering, Served
  <1>3. Paired'
    BY <1>1, <1>2 DEF Orderly, Paired
  <1>4. PICK k \in 0 .. Len(Requests) : \E w \in k .. Len(Requests) :
          k = Served /\ w = written /\ Carries(k, w)
    BY WireEnds DEF Orderly
  <1>5. PICK w \in k .. Len(Requests) : k = Served /\ w = written /\ Carries(k, w)
    BY <1>4
  <1>6. Sized /\ Sized'
    BY Measured, MeasuredNext
  <1>7. PICK fed, got, held, t, u, o, c, packet :
          /\ fed = Fed /\ got = Got /\ held = Held /\ t = Total
          /\ u = Len(unsent) /\ o = OutBytes /\ c = InRing /\ packet = s_ep_out_buf
    OBVIOUS
  <1>8. /\ fed \in Nat /\ c \in Nat /\ o \in Nat /\ u \in Nat /\ packet \in Bytes
        /\ got = fed + c /\ held = got + o /\ t = held + u /\ o = Len(packet)
        /\ got \in Nat /\ held \in Nat /\ t \in Nat
    BY <1>1, <1>6, <1>7 DEF Sized, OutBytes
  <1>9. /\ InRing' = c + o
        /\ \A j \in 1 .. c + o : Cell(j)' = IF j <= c THEN Cell(j) ELSE packet[j - c]
    <2>1. CASE packet = <<>>
      <3>1. UNCHANGED <<s_rx_ring, s_rx_head>>
        BY <1>7, <2>1 DEF exlink_ctrl_out_cb
      <3>2. InRing' = c /\ \A j : Cell(j)' = Cell(j)
        BY <1>1, <1>7, <3>1 DEF InRing, Cell
      <3>3. o = 0
        BY <1>8, <2>1
      <3>4. \A j \in 1 .. c + o : j <= c
        BY <1>8, <3>3
      <3>5. QED
        BY <1>8, <3>2, <3>3, <3>4
    <2>2. CASE packet # <<>>
      <3>1. rx_ring_put(packet)
        BY <1>7, <2>2 DEF exlink_ctrl_out_cb
      <3>2. PICK m : Put(packet, m)
        BY <1>8, <3>1, PutIs DEF IInv, TypeOK
      <3>3. m = Len(packet)
        <4>1. /\ m \in Nat /\ m <= Len(packet) /\ Len(packet) \in Nat
              /\ s_rx_dropped' = IF m < Len(packet) THEN s_rx_dropped + 1 ELSE s_rx_dropped
          BY <1>8, <3>2 DEF Put
        <4>2. QED
          BY <4>1
      <3>4. Put(packet, Len(packet))
        BY <3>2, <3>3
      <3>5. /\ InRing' = InRing + Len(packet)
            /\ \A j \in 1 .. InRing + Len(packet) :
                 Cell(j)' = IF j <= InRing THEN Cell(j) ELSE packet[j - InRing]
        BY <1>1, <1>8, <3>4, RingGrows DEF IInv, TypeOK
      <3>6. QED
        BY <1>7, <1>8, <3>5
    <2>3. QED
      BY <2>1, <2>2
  <1>10. /\ Fed' = fed /\ Got' = held /\ Held' = held /\ Total' = t
         /\ \A j : Pending(s_parser')[j] = Pending(s_parser)[j]
    <2>1. Fed' = fed /\ OutBytes' = 0 /\ Len(unsent') = u
      BY <1>1, <1>7 DEF Fed, OutBytes
    <2>2. Got' = held
      BY <1>6, <1>8, <1>9, <2>1 DEF Sized
    <2>3. Held' = held
      <3>1. Held' = Got' + OutBytes'
        BY DEF Held
      <3>2. Held' = held + 0
        BY <2>1, <2>2, <3>1
      <3>3. QED
        BY <1>8, <3>2
    <2>4. Total' = t
      BY <1>6, <1>8, <2>1, <2>3 DEF Sized
    <2>5. QED
      BY <1>1, <2>1, <2>2, <2>3, <2>4
  <1>11. ASSUME NEW x \in 1 .. t PROVE ByteAt(x)' = ByteAt(x)
    <2>1. ByteAt(x)' = IF x <= fed THEN Pending(s_parser')[x]
                       ELSE IF x <= held THEN Cell(x - fed)'
                       ELSE IF x <= held THEN s_ep_out_buf'[x - held]
                       ELSE unsent'[x - held]
      BY <1>10, ByteAtNext
    <2>2. ByteAt(x) = IF x <= fed THEN Pending(s_parser)[x]
                      ELSE IF x <= got THEN Cell(x - fed)
                      ELSE IF x <= held THEN s_ep_out_buf[x - got]
                      ELSE unsent[x - held]
      BY <1>7 DEF ByteAt
    <2>3. x \in Nat
      BY <1>8
    <2>4. CASE x <= fed
      BY <1>10, <2>1, <2>2, <2>4
    <2>5. CASE ~ (x <= fed) /\ x <= held
      <3>1. PICK j : j = x - fed
        OBVIOUS
      <3>2. /\ j \in 1 .. c + o /\ j - c = x - got
            /\ j <= c <=> x <= got
        BY <1>8, <2>3, <2>5, <3>1
      <3>3. Cell(j)' = IF j <= c THEN Cell(j) ELSE packet[j - c]
        BY <1>9, <3>2
      <3>4. QED
        BY <1>7, <2>1, <2>2, <2>5, <3>1, <3>2, <3>3
    <2>6. CASE ~ (x <= held)
      <3>1. ~ (x <= fed) /\ ~ (x <= got)
        BY <1>8, <2>3, <2>6
      <3>2. QED
        BY <1>1, <2>1, <2>2, <2>6, <3>1
    <2>7. QED
      BY <2>4, <2>5, <2>6
  <1>12. Carries(k, w)'
    <2>1. Total \in Nat /\ Total' = Total /\ \A x \in 1 .. Total : ByteAt(x)' = ByteAt(x)
      BY <1>7, <1>8, <1>10, <1>11
    <2>2. k < w => Fed' < Len(Requests[k + 1])
      BY <1>5, <1>7, <1>10 DEF Carries
    <2>3. QED
      BY <1>5, <2>1, <2>2, CarriesKept
  <1>13. Wire'
    <2>1. k = Served' /\ w = written'
      BY <1>1, <1>2, <1>5
    <2>2. unsent' # <<>> => w >= 1 /\ Len(unsent') < Len(Requests[w])
      BY <1>1, <1>5 DEF Orderly, Wire
    <2>3. QED
      BY <1>12, <2>1, <2>2, WireNext
  <1>14. QED
    BY <1>2, <1>3, <1>13 DEF Orderly

(* The host begins its next request.                                       *)
LEMMA NextOrderly ==
  ASSUME IInv, IInv', Orderly, host_out_next
  PROVE  Orderly'
  <1>1. /\ bus = "configured" /\ out_ep = "primed" /\ out_ep' = "done" /\ unsent = <<>>
        /\ written < Len(Requests) /\ written' = written + 1
        /\ outstanding' = outstanding + 1
        /\ s_ep_out_buf' = Packet(Requests[written + 1])
        /\ unsent' = Rest(Requests[written + 1])
        /\ UNCHANGED <<s_rx_ring, s_rx_head, s_rx_dropped, s_rx_tail, s_parser, s_resp, pc,
                       s_tx_busy, s_ep_in_buf, in_ep, in_len, bus, s_configured, rcvd>>
    BY DEF host_out_next, OutReady
  <1>2. Thread' /\ Attached' /\ (Answering' <=> Answering) /\ Served' = Served
    BY <1>1 DEF Orderly, Thread, Attached, Answering, Served
  <1>3. Paired'
    <2>1. written' = Len(rcvd') + outstanding'
      <3>1. /\ written = Len(rcvd) + outstanding /\ Len(rcvd) \in Nat /\ outstanding \in Nat
        BY Sizes, LenProperties DEF Orderly, Paired, IInv, TypeOK
      <3>2. QED
        BY <1>1, <3>1
    <2>2. QED
      BY <1>1, <1>2, <2>1 DEF Orderly, Paired
  <1>4. PICK k \in 0 .. Len(Requests) : \E w \in k .. Len(Requests) :
          k = Served /\ w = written /\ Carries(k, w)
    BY WireEnds DEF Orderly
  <1>5. PICK w \in k .. Len(Requests) : k = Served /\ w = written /\ Carries(k, w)
    BY <1>4
  <1>6. Sized /\ Sized'
    BY Measured, MeasuredNext
  <1>7. PICK fed, got, held, t, r, L :
          /\ fed = Fed /\ got = Got /\ held = Held /\ t = Total
          /\ r = Requests[w + 1] /\ L = Len(r)
    OBVIOUS
  <1>8. /\ fed \in Nat /\ got \in Nat /\ fed <= got /\ held = got /\ t = got
    <2>1. OutBytes = 0 /\ Len(unsent) = 0
      BY <1>1 DEF OutBytes
    <2>2. QED
      BY <1>6, <1>7, <2>1 DEF Sized
  <1>9. /\ w + 1 \in 1 .. Len(Requests) /\ w \in Nat /\ r \in Bytes /\ r # <<>> /\ L \in Nat
        /\ s_ep_out_buf' = Packet(r) /\ unsent' = Rest(r)
    <2>1. w \in Nat /\ w + 1 \in 1 .. Len(Requests)
      BY <1>1, <1>5, Sizes
    <2>2. QED
      BY <1>1, <1>5, <1>7, <2>1, Sizes, LenProperties DEF Bytes
  <1>10. PICK m : Cut(r, m)
    BY <1>9, NextPacket
  <1>11. /\ m \in 1 .. L /\ Len(Packet(r)) = m /\ Len(Rest(r)) = L - m
         /\ \A i \in 1 .. m : Packet(r)[i] = r[i]
         /\ \A i \in 1 .. L - m : Rest(r)[i] = r[m + i]
    BY <1>7, <1>10 DEF Cut
  <1>12. /\ Fed' = fed /\ Got' = got /\ Held' = got + m /\ Total' = got + L
    <2>1. Fed' = fed /\ InRing' = InRing /\ OutBytes' = m /\ Len(unsent') = L - m
      BY <1>1, <1>7, <1>9, <1>11 DEF Fed, OutBytes, InRing
    <2>2. Got' = got
      BY <1>6, <1>7, <2>1 DEF Sized
    <2>3. Held' = got + m
      BY <1>6, <2>1, <2>2 DEF Sized
    <2>4. Total' = got + L
      BY <1>6, <1>8, <1>9, <1>11, <2>1, <2>3 DEF Sized
    <2>5. QED
      BY <2>1, <2>2, <2>3, <2>4
  <1>13. ASSUME NEW x \in 1 .. got + L
         PROVE  ByteAt(x)' = IF x <= got THEN ByteAt(x) ELSE r[x - got]
    <2>1. PICK h : h = got + m
      OBVIOUS
    <2>2. ByteAt(x)' = IF x <= fed THEN Pending(s_parser')[x]
                       ELSE IF x <= got THEN Cell(x - fed)'
                       ELSE IF x <= h THEN s_ep_out_buf'[x - got]
                       ELSE unsent'[x - h]
      BY <1>12, <2>1, ByteAtNext
    <2>3. x <= got => ByteAt(x) = IF x <= fed THEN Pending(s_parser)[x] ELSE Cell(x - fed)
      BY <1>7 DEF ByteAt
    <2>4. x \in Nat /\ x >= 1 /\ x <= got + L
      BY <1>8, <1>9
    <2>5. CASE x <= got
      <3>1. \A j : Cell(j)' = Cell(j)
        BY <1>1 DEF Cell
      <3>2. QED
        BY <1>1, <2>2, <2>3, <2>5, <3>1
    <2>6. CASE ~ (x <= got) /\ x <= h
      <3>1. x - got \in 1 .. m /\ ~ (x <= fed)
        BY <1>8, <1>9, <1>11, <2>1, <2>4, <2>6
      <3>2. ByteAt(x)' = Packet(r)[x - got]
        BY <1>9, <2>2, <2>6, <3>1
      <3>3. QED
        BY <1>11, <2>6, <3>1, <3>2
    <2>7. CASE ~ (x <= h)
      <3>1. x - h \in 1 .. L - m /\ ~ (x <= fed) /\ ~ (x <= got) /\ m + (x - h) = x - got
        BY <1>8, <1>9, <1>11, <2>1, <2>4, <2>7
      <3>2. ByteAt(x)' = Rest(r)[x - h]
        BY <1>9, <2>2, <2>7, <3>1
      <3>3. QED
        BY <1>11, <3>1, <3>2
    <2>8. QED
      BY <2>5, <2>6, <2>7
  <1>14. Carries(k, w + 1)'
    <2>1. /\ got = Total /\ Total' = got + Len(r) /\ Fed \in Nat /\ Fed <= Total /\ Fed' = Fed
          /\ \A x \in 1 .. got + Len(r) : ByteAt(x)' = IF x <= got THEN ByteAt(x) ELSE r[x - got]
      BY <1>7, <1>8, <1>12, <1>13
    <2>2. QED
      BY <1>5, <1>7, <1>8, <1>9, <2>1, CarriesMore
  <1>15. Wire'
    <2>1. /\ k = Served' /\ w + 1 = written' /\ w + 1 \in k .. Len(Requests)
          /\ k \in 0 .. Len(Requests)
      BY <1>1, <1>2, <1>5, <1>9, Sizes
    <2>2. w + 1 >= 1 /\ Len(unsent') < Len(Requests[w + 1])
      BY <1>7, <1>9, <1>11
    <2>3. QED
      BY <1>14, <2>1, <2>2, WireNext
  <1>16. QED
    BY <1>2, <1>3, <1>15 DEF Orderly

(* It writes on. *)
LEMMA RestOrderly ==
  ASSUME IInv, IInv', Orderly, host_out_rest
  PROVE  Orderly'
  <1>1. /\ bus = "configured" /\ out_ep = "primed" /\ out_ep' = "done" /\ unsent # <<>>
        /\ s_ep_out_buf' = Packet(unsent) /\ unsent' = Rest(unsent)
        /\ UNCHANGED <<s_rx_ring, s_rx_head, s_rx_dropped, s_rx_tail, s_parser, s_resp, pc,
                       s_tx_busy, s_ep_in_buf, in_ep, in_len, bus, s_configured, written,
                       outstanding, rcvd>>
    BY DEF host_out_rest, OutReady
  <1>2. Thread' /\ Attached' /\ (Answering' <=> Answering) /\ Served' = Served
    BY <1>1 DEF Orderly, Thread, Attached, Answering, Served
  <1>3. Paired'
    BY <1>1, <1>2 DEF Orderly, Paired
  <1>4. PICK k \in 0 .. Len(Requests) : \E w \in k .. Len(Requests) :
          k = Served /\ w = written /\ Carries(k, w)
    BY WireEnds DEF Orderly
  <1>5. PICK w \in k .. Len(Requests) : k = Served /\ w = written /\ Carries(k, w)
    BY <1>4
  <1>6. Sized /\ Sized'
    BY Measured, MeasuredNext
  <1>7. PICK fed, got, held, t, r, L :
          /\ fed = Fed /\ got = Got /\ held = Held /\ t = Total
          /\ r = unsent /\ L = Len(r)
    OBVIOUS
  <1>8. /\ fed \in Nat /\ got \in Nat /\ fed <= got /\ held = got /\ t = got + L /\ L \in Nat
        /\ r \in Bytes
    <2>1. OutBytes = 0
      BY <1>1 DEF OutBytes
    <2>2. QED
      BY <1>6, <1>7, <2>1 DEF Sized
  <1>9. PICK m : Cut(r, m)
    BY <1>1, <1>7, <1>8, NextPacket
  <1>10. /\ m \in 1 .. L /\ Len(Packet(r)) = m /\ Len(Rest(r)) = L - m
         /\ \A i \in 1 .. m : Packet(r)[i] = r[i]
         /\ \A i \in 1 .. L - m : Rest(r)[i] = r[m + i]
         /\ s_ep_out_buf' = Packet(r) /\ unsent' = Rest(r)
    BY <1>1, <1>7, <1>9 DEF Cut
  <1>11. /\ Fed' = fed /\ Got' = got /\ Held' = got + m /\ Total' = t
    <2>1. Fed' = fed /\ InRing' = InRing /\ OutBytes' = m /\ Len(unsent') = L - m
      BY <1>1, <1>7, <1>10 DEF Fed, OutBytes, InRing
    <2>2. Got' = got
      BY <1>6, <1>7, <2>1 DEF Sized
    <2>3. Held' = got + m
      BY <1>6, <2>1, <2>2 DEF Sized
    <2>4. Total' = t
      <3>1. Total' = (got + m) + (L - m)
        BY <2>1, <2>3 DEF Total
      <3>2. QED
        BY <1>8, <1>10, <3>1
    <2>5. QED
      BY <2>1, <2>2, <2>3, <2>4
  <1>12. ASSUME NEW x \in 1 .. t PROVE ByteAt(x)' = ByteAt(x)
    <2>1. PICK h : h = got + m
      OBVIOUS
    <2>2. ByteAt(x)' = IF x <= fed THEN Pending(s_parser')[x]
                       ELSE IF x <= got THEN Cell(x - fed)'
                       ELSE IF x <= h THEN s_ep_out_buf'[x - got]
                       ELSE unsent'[x - h]
      BY <1>11, <2>1, ByteAtNext
    <2>3. ByteAt(x) = IF x <= fed THEN Pending(s_parser)[x]
                      ELSE IF x <= got THEN Cell(x - fed)
                      ELSE r[x - got]
      BY <1>7, <1>8 DEF ByteAt
    <2>4. x \in Nat /\ x >= 1 /\ x <= got + L
      BY <1>8
    <2>5. CASE x <= got
      <3>1. \A j : Cell(j)' = Cell(j)
        BY <1>1 DEF Cell
      <3>2. QED
        BY <1>1, <2>2, <2>3, <2>5, <3>1
    <2>6. CASE ~ (x <= got) /\ x <= h
      <3>1. x - got \in 1 .. m /\ ~ (x <= fed)
        BY <1>8, <1>10, <2>1, <2>4, <2>6
      <3>2. ByteAt(x)' = Packet(r)[x - got]
        BY <1>10, <2>2, <2>6, <3>1
      <3>3. QED
        BY <1>10, <2>3, <2>6, <3>1, <3>2
    <2>7. CASE ~ (x <= h)
      <3>1. x - h \in 1 .. L - m /\ ~ (x <= fed) /\ ~ (x <= got) /\ m + (x - h) = x - got
        BY <1>8, <1>10, <2>1, <2>4, <2>7
      <3>2. ByteAt(x)' = Rest(r)[x - h]
        BY <1>10, <2>2, <2>7, <3>1
      <3>3. QED
        BY <1>10, <2>3, <3>1, <3>2
    <2>8. QED
      BY <2>5, <2>6, <2>7
  <1>13. Carries(k, w)'
    <2>1. Total \in Nat /\ Total' = Total /\ \A x \in 1 .. Total : ByteAt(x)' = ByteAt(x)
      BY <1>6, <1>7, <1>11, <1>12 DEF Sized
    <2>2. k < w => Fed' < Len(Requests[k + 1])
      BY <1>5, <1>7, <1>11 DEF Carries
    <2>3. QED
      BY <1>5, <2>1, <2>2, CarriesKept
  <1>14. Wire'
    <2>1. k = Served' /\ w = written'
      BY <1>1, <1>2, <1>5
    <2>2. w >= 1 /\ L < Len(Requests[w])
      BY <1>1, <1>5, <1>7 DEF Orderly, Wire
    <2>3. Len(unsent') < Len(Requests[w])
      <3>1. w \in 1 .. Len(Requests)
        BY <2>2, Sizes
      <3>2. Len(Requests[w]) \in Nat
        BY <3>1, Sizes, LenProperties DEF Bytes
      <3>3. QED
        BY <1>8, <1>10, <2>2, <3>2
    <2>4. QED
      BY <1>13, <2>1, <2>2, <2>3, WireNext
  <1>15. QED
    BY <1>2, <1>3, <1>14 DEF Orderly

(* Steps that leave every byte where it is.                                *)
LEMMA WireStays ==
  ASSUME IInv, Wire, Served' = Served, Held' = Held,
         UNCHANGED <<s_rx_ring, s_rx_head, s_rx_tail, s_parser, unsent, written>>,
         out_ep = "done" => s_ep_out_buf' = s_ep_out_buf
  PROVE  Wire'
  <1>1. PICK k \in 0 .. Len(Requests) : \E w \in k .. Len(Requests) :
          k = Served /\ w = written /\ Carries(k, w)
    BY WireEnds
  <1>2. PICK w \in k .. Len(Requests) : k = Served /\ w = written /\ Carries(k, w)
    BY <1>1
  <1>3. Sized
    BY Measured
  <1>4. PICK fed, got, held : fed = Fed /\ got = Got /\ held = Held
    OBVIOUS
  <1>5. Fed' = fed /\ Got' = got /\ Held' = held /\ Total' = Total
    <2>1. Fed' = fed /\ Got' = got
      BY <1>4 DEF Fed, Got, InRing
    <2>2. Total' = Total
      BY DEF Total
    <2>3. QED
      BY <1>4, <2>1, <2>2
  <1>6. ASSUME NEW x \in 1 .. Total PROVE ByteAt(x)' = ByteAt(x)
    <2>1. ByteAt(x)' = IF x <= fed THEN Pending(s_parser')[x]
                       ELSE IF x <= got THEN Cell(x - fed)'
                       ELSE IF x <= held THEN s_ep_out_buf'[x - got]
                       ELSE unsent'[x - held]
      BY <1>5, ByteAtNext
    <2>2. ByteAt(x) = IF x <= fed THEN Pending(s_parser)[x]
                      ELSE IF x <= got THEN Cell(x - fed)
                      ELSE IF x <= held THEN s_ep_out_buf[x - got]
                      ELSE unsent[x - held]
      BY <1>4 DEF ByteAt
    <2>3. \A j : Cell(j)' = Cell(j)
      BY DEF Cell
    <2>4. ~ (x <= got) /\ x <= held => out_ep = "done"
      <3> SUFFICES ASSUME out_ep # "done" PROVE held = got
        OBVIOUS
      <3>1. OutBytes = 0
        BY DEF OutBytes
      <3>2. QED
        BY <1>3, <1>4, <3>1 DEF Sized
    <2>5. QED
      BY <2>1, <2>2, <2>3, <2>4
  <1>7. Carries(k, w)'
    <2>1. k < w => Fed' < Len(Requests[k + 1])
      BY <1>2, <1>4, <1>5 DEF Carries
    <2>2. Total \in Nat
      BY <1>3 DEF Sized
    <2>3. QED
      BY <1>2, <1>5, <1>6, <2>1, <2>2, CarriesKept
  <1>8. unsent' # <<>> => w >= 1 /\ Len(unsent') < Len(Requests[w])
    BY <1>2 DEF Wire
  <1>9. k = Served' /\ w = written'
    BY <1>2
  <1>10. QED
    BY <1>7, <1>8, <1>9, WireNext

LEMMA EmptyOrderly ==
  ASSUME IInv, Orderly, host_out_empty
  PROVE  Orderly'
  <1>1. /\ bus = "configured" /\ out_ep = "primed" /\ out_ep' = "done"
        /\ s_ep_out_buf' = <<>>
        /\ UNCHANGED <<s_rx_ring, s_rx_head, s_rx_dropped, s_rx_tail, s_parser, s_resp, pc,
                       s_tx_busy, s_ep_in_buf, in_ep, in_len, bus, s_configured, written,
                       unsent, outstanding, rcvd>>
    BY DEF host_out_empty, OutReady
  <1>2. Thread' /\ Attached' /\ (Answering' <=> Answering) /\ Served' = Served
    BY <1>1 DEF Answering, Orderly, Thread, Attached, Served
  <1>3. Paired'
    BY <1>1, <1>2 DEF Orderly, Paired
  <1>4. Held' = Held
    <2>1. OutBytes = 0 /\ OutBytes' = 0
      BY <1>1 DEF OutBytes
    <2>2. Got' = Got
      BY <1>1 DEF Got, Fed, InRing
    <2>3. QED
      BY <2>1, <2>2 DEF Held
  <1>5. Wire'
    BY <1>1, <1>2, <1>4, WireStays DEF Orderly
  <1>6. QED
    BY <1>2, <1>3, <1>5 DEF Orderly

(* Steps that leave every byte, response and request where it is.          *)
LEMMA WireKept ==
  ASSUME IInv, Orderly, Thread', Attached', Answering' <=> Answering, s_resp' = s_resp,
         UNCHANGED <<s_rx_ring, s_rx_head, s_rx_tail, s_rx_dropped, s_parser, s_ep_out_buf,
                     out_ep, hostVars>>
  PROVE  Orderly'
  <1>1. Served' = Served
    BY DEF Served
  <1>2. Paired'
    BY <1>1 DEF Orderly, Paired
  <1>3. Held' = Held
    BY DEF Held, Got, Fed, InRing, OutBytes
  <1>4. Wire'
    BY <1>1, <1>3, WireStays DEF Orderly
  <1>5. QED
    BY <1>2, <1>4 DEF Orderly

(* It reads what is primed: the response, or the empty packet after one.   *)
LEMMA InOrderly ==
  ASSUME IInv, Orderly, host_in
  PROVE  Orderly'
  <1>1. /\ bus = "configured" /\ in_ep = "primed" /\ in_ep' = "done"
        /\ UNCHANGED <<s_rx_ring, s_rx_head, s_rx_dropped, s_rx_tail, s_parser, s_resp, pc,
                       s_tx_busy, s_ep_in_buf, s_ep_out_buf, in_len, out_ep, bus,
                       s_configured, written, unsent>>
    BY DEF host_in
  <1>2. pc = "sent" /\ s_ep_in_buf = s_resp
    BY <1>1 DEF Orderly, Thread, IInv, TypeOK
  <1>3. ~ Answering' /\ Thread' /\ Attached'
    BY <1>1, <1>2 DEF Answering, Orderly, Thread, Attached
  <1>4. Held' = Held
    BY <1>1 DEF Held, Got, Fed, InRing, OutBytes
  <1>5. Len(rcvd) \in Nat /\ outstanding \in Nat /\ written = Len(rcvd) + outstanding
    BY Sizes, LenProperties DEF Orderly, Paired, IInv, TypeOK
  <1>6. CASE in_len > 0
    <2>1. Answering /\ Served = Len(rcvd) + 1
      BY <1>1, <1>2, <1>6 DEF Answering, Served
    <2>2. outstanding >= 1
      <3>1. Served <= written
        BY DEF Orderly, Wire
      <3>2. QED
        BY <1>5, <2>1, <3>1
    <2>3. /\ s_ep_in_buf = Answers[Len(rcvd) + 1] /\ s_ep_in_buf \in Seq(Byte)
          /\ rcvd \in Seq(Seq(Byte)) /\ \A n \in 1 .. Len(rcvd) : rcvd[n] = Answers[n]
      BY <1>2, <2>1 DEF Orderly, Paired, IInv, TypeOK
    <2>4. rcvd' = Append(rcvd, s_ep_in_buf) /\ outstanding' = outstanding - 1
      BY <1>5, <1>6, <2>2 DEF host_in
    <2>5. /\ Len(rcvd') = Len(rcvd) + 1
          /\ \A n \in 1 .. Len(rcvd) : rcvd'[n] = rcvd[n]
          /\ rcvd'[Len(rcvd) + 1] = s_ep_in_buf
      BY <2>3, <2>4, AppendProperties, LenProperties
    <2>6. \A n \in 1 .. Len(rcvd') : rcvd'[n] = Answers[n]
      <3>1. \A n \in 1 .. Len(rcvd) + 1 : n \in 1 .. Len(rcvd) \/ n = Len(rcvd) + 1
        BY <1>5
      <3>2. QED
        BY <2>3, <2>5, <3>1
    <2>7. Paired'
      <3>1. Answers' = Answers
        BY DEF Answers
      <3>2. written' = Len(rcvd') + outstanding'
        BY <1>1, <1>5, <2>2, <2>4, <2>5
      <3>3. QED
        BY <1>3, <2>6, <3>1, <3>2 DEF Paired
    <2>8. Served' = Served
      BY <1>3, <1>5, <2>1, <2>5 DEF Served
    <2>9. Wire'
      BY <1>1, <1>4, <2>8, WireStays DEF Orderly
    <2>10. QED
      BY <1>3, <2>7, <2>9 DEF Orderly
  <1>7. CASE ~ (in_len > 0)
    <2>1. UNCHANGED <<rcvd, outstanding>>
      BY <1>7 DEF host_in
    <2>2. ~ Answering
      BY <1>2, <1>7 DEF Answering
    <2>3. Served' = Served
      BY <1>3, <2>1, <2>2 DEF Served
    <2>4. Paired'
      BY <1>1, <1>3, <2>1 DEF Orderly, Paired
    <2>5. Wire'
      BY <1>1, <1>4, <2>3, WireStays DEF Orderly
    <2>6. QED
      BY <1>3, <2>4, <2>5 DEF Orderly
  <1>8. QED
    BY <1>6, <1>7

(* Outside a live session nothing is on its way, nor at a quiet end of one. *)
LEMMA AtRest ==
  ASSUME IInv, Orderly, bus # "configured" \/ Quiet
  PROVE  /\ Total = 0 /\ Served = written /\ outstanding = 0 /\ ~ Answering
         /\ pc \in {"take", "drain"} /\ out_ep # "done"
  <1>1. pc \in {"take", "drain"} /\ ~ Answering /\ out_ep # "done"
    <2>1. CASE bus # "configured"
      BY <2>1 DEF Orderly, Thread, Attached, Answering, IInv, TypeOK
    <2>2. CASE Quiet
      BY <2>2 DEF Quiet, Answering
    <2>3. QED
      BY <2>1, <2>2
  <1>2. /\ Served = Len(rcvd) /\ Len(rcvd) \in Nat /\ outstanding \in Nat
        /\ written = Len(rcvd) + outstanding
    BY <1>1, Sizes, LenProperties DEF Orderly, Paired, IInv, TypeOK, Served
  <1>3. PICK k \in 0 .. Len(Requests) : \E w \in k .. Len(Requests) :
          k = Served /\ w = written /\ Carries(k, w)
    BY WireEnds DEF Orderly
  <1>4. PICK w \in k .. Len(Requests) : k = Served /\ w = written /\ Carries(k, w)
    BY <1>3
  <1>5. Sized
    BY Measured
  <1>6. k = w
    <2>1. CASE bus # "configured"
      <3>1. outstanding = 0
        BY <2>1 DEF Orderly, Attached
      <3>2. QED
        BY <1>2, <1>4, <3>1
    <2>2. CASE Quiet
      <3>1. Fed = 0 /\ InRing = 0 /\ OutBytes = 0
        <4>1. Pending(s_parser) = <<>>
          BY <2>2, StateNames DEF Quiet, Pending
        <4>2. InRing = 0
          BY <2>2, RingCount DEF Quiet, IInv, TypeOK
        <4>3. QED
          BY <1>1, <4>1, <4>2 DEF Fed, OutBytes
      <3>2. Total = Len(unsent) /\ Len(unsent) \in Nat
        BY <1>5, <3>1 DEF Sized
      <3>3. SUFFICES ASSUME k < w PROVE FALSE
        BY Sizes
      <3>4. /\ w \in 1 .. Len(Requests) /\ w \in 0 .. Len(Requests) /\ w - 1 \in 0 .. Len(Requests)
            /\ w - 1 \in k .. Len(Requests)
        BY <3>3, Sizes
      <3> DEFINE a == Starts[k]
                 b == Starts[w - 1]
                 c == Starts[w]
                 L == Len(Requests[w])
                 t == Total
      <3>5. /\ a \in Nat /\ b \in Nat /\ c = b + L /\ a <= b /\ a + t = c
        BY <1>4, <3>4, StartsAre, StartsGrow DEF Carries
      <3>6. L \in Nat /\ L # 0
        <4> DEFINE r == Requests[w]
        <4>1. r \in Seq(Byte) /\ r # <<>>
          BY <3>4, Sizes DEF Bytes
        <4> HIDE DEF r
        <4>2. Len(r) \in Nat /\ Len(r) # 0
          BY <4>1, LenProperties, EmptySeq
        <4>3. QED
          BY <4>2 DEF r
      <3>7. t < L
        <4>1. CASE unsent = <<>>
          <5>1. t = 0
            BY <3>2, <4>1
          <5> HIDE DEF t, L
          <5>2. QED
            BY <3>6, <5>1
        <4>2. CASE unsent # <<>>
          BY <1>4, <3>2, <4>2 DEF Orderly, Wire
        <4>3. QED
          BY <4>1, <4>2
      <3>8. t \in Nat
        BY <3>2
      <3> HIDE DEF a, b, c, L, t
      <3>9. QED
        BY <3>5, <3>6, <3>7, <3>8
    <2>3. QED
      BY <2>1, <2>2
  <1>7. Total = 0
    <2> DEFINE a == Starts[k]
               t == Total
    <2>1. a \in Nat /\ t \in Nat /\ a + t = a
      BY <1>4, <1>5, <1>6, StartsAre DEF Carries, Sized
    <2> HIDE DEF a, t
    <2>2. t = 0
      BY <2>1
    <2>3. QED
      BY <2>2 DEF t
  <1>8. QED
    BY <1>1, <1>2, <1>4, <1>6, <1>7

(* Nothing is on its way, and nothing has to be.                           *)
LEMMA WireEmpty ==
  ASSUME IInv, IInv', Total' = 0, Served' = written', written' = written
  PROVE  Wire'
  <1>1. PICK w : w = written
    OBVIOUS
  <1>2. w \in 0 .. Len(Requests) /\ w \in w .. Len(Requests) /\ w \in Nat
    BY <1>1, Sizes DEF IInv, TypeOK
  <1>3. Starts[w] \in Nat
    BY <1>2, StartsAre
  <1>4. Carries(w, w)'
    <2>1. Starts[w] + Total' = Starts[w]
      BY <1>3
    <2>2. \A n : ~ (n \in w + 1 .. w) /\ ~ (w < w)
      BY <1>2
    <2>3. QED
      BY <2>1, <2>2 DEF Carries
  <1>5. unsent' = <<>>
    <2>1. Sized'
      BY MeasuredNext
    <2>2. /\ unsent' \in Seq(Byte) /\ Held' \in Nat /\ Len(unsent') \in Nat
          /\ Total' = Held' + Len(unsent')
      BY <2>1 DEF Sized, Bytes
    <2>3. Len(unsent') = 0
      <3> DEFINE h == Held'
                 u == Len(unsent')
      <3>1. h \in Nat /\ u \in Nat /\ h + u = 0
        BY <2>2
      <3> HIDE DEF h, u
      <3>2. u = 0
        BY <3>1
      <3>3. QED
        BY <3>2 DEF u
    <2>4. QED
      BY <2>2, <2>3, EmptySeq
  <1>6. w = Served' /\ w = written'
    BY <1>1
  <1>7. QED
    BY <1>2, <1>4, <1>5, <1>6, WireNext

(* An interface that has just been reset or unplugged, at rest.            *)
LEMMA EndOrderly ==
  ASSUME IInv, IInv', Orderly, BusReset \/ BusDisconnect, mishap' = {}, mishap = {}
  PROVE  Orderly'
  <1>1. bus # "configured" \/ Quiet
    <2>1. SessionEnds
      BY DEF BusReset, BusDisconnect
    <2>2. CASE bus = "configured" /\ ~ Quiet
      <3>1. "torn" \in mishap'
        BY <2>1, <2>2 DEF SessionEnds
      <3>2. QED
        BY <3>1
    <2>3. QED
      BY <2>2
  <1>2. /\ Total = 0 /\ Served = written /\ outstanding = 0 /\ ~ Answering
        /\ pc \in {"take", "drain"} /\ out_ep # "done"
    BY <1>1, AtRest
  <1>3. /\ outstanding' = 0 /\ unsent' = <<>> /\ bus' # "configured" /\ ~ s_tx_busy'
        /\ in_ep' \in {in_ep, "off"} /\ out_ep' \in {out_ep, "off"}
        /\ UNCHANGED <<s_rx_ring, s_rx_head, s_rx_dropped, s_rx_tail, s_parser, s_resp, pc,
                       s_ep_in_buf, s_ep_out_buf, written, rcvd>>
    BY DEF BusReset, BusDisconnect, usb_if_ctrl_on_reset, HostForgets
  <1>4. ~ Answering' /\ Served' = Served
    <2>1. ~ Answering'
      BY <1>2, <1>3 DEF Answering
    <2>2. QED
      BY <1>2, <1>3, <2>1 DEF Served
  <1>5. Thread' /\ Attached'
    BY <1>2, <1>3 DEF Orderly, Thread, Attached
  <1>6. Paired'
    BY <1>2, <1>3, <1>4 DEF Orderly, Paired
  <1>7. Total' = 0
    <2>1. Sized /\ Sized'
      BY Measured, MeasuredNext
    <2>2. Got' = Got /\ Got = 0
      <3>1. Got' = Got
        BY <1>3 DEF Got, Fed, InRing
      <3>2. Got = 0
        BY <1>2, <2>1 DEF Sized
      <3>3. QED
        BY <3>1, <3>2
    <2>3. OutBytes' = 0 /\ Len(unsent') = 0
      BY <1>2, <1>3 DEF OutBytes
    <2>4. Held' = 0
      BY <2>2, <2>3 DEF Held
    <2>5. QED
      BY <2>3, <2>4 DEF Total
  <1>8. Wire'
    BY <1>2, <1>3, <1>4, <1>7, WireEmpty
  <1>9. QED
    BY <1>5, <1>6, <1>8 DEF Orderly

LEMMA ConfiguredOrderly ==
  ASSUME IInv, Orderly, usb_if_ctrl_on_configured
  PROVE  Orderly'
  <1>1. /\ bus = "default" /\ bus' = "configured" /\ s_configured' /\ ~ s_tx_busy'
        /\ in_ep' = "idle" /\ out_ep' = "primed"
        /\ UNCHANGED <<s_rx_ring, s_rx_head, s_rx_dropped, s_rx_tail, s_parser, s_resp, pc,
                       s_ep_in_buf, s_ep_out_buf, in_len, written, unsent, outstanding, rcvd>>
    BY DEF usb_if_ctrl_on_configured
  <1>2. /\ ~ Answering /\ pc \in {"take", "drain"} /\ out_ep # "done"
    BY <1>1, AtRest
  <1>3. ~ Answering' /\ Thread' /\ Attached'
    BY <1>1, <1>2 DEF Answering, Thread, Attached
  <1>4. Served' = Served /\ Held' = Held
    <2>1. Served' = Served
      BY <1>1, <1>2, <1>3 DEF Served
    <2>2. OutBytes' = OutBytes
      BY <1>1, <1>2 DEF OutBytes
    <2>3. Got' = Got
      BY <1>1 DEF Got, Fed, InRing
    <2>4. QED
      BY <2>1, <2>2, <2>3 DEF Held
  <1>5. Paired'
    BY <1>1, <1>3 DEF Orderly, Paired
  <1>6. Wire'
    BY <1>1, <1>4, WireStays DEF Orderly
  <1>7. QED
    BY <1>3, <1>5, <1>6 DEF Orderly

LEMMA InitChannelInv == Init => ChannelInv
  <1> SUFFICES ASSUME Init PROVE Orderly
    BY DEF ChannelInv
  <1>1. IInv /\ Sized
    BY InitIInv, Measured
  <1>2. ~ Answering /\ Thread /\ Attached
    BY DEF Init, Answering, Thread, Attached
  <1>3. Paired /\ Served = 0
    BY <1>2 DEF Init, Paired, Served
  <1>4. Total = 0
    <2>1. Fed = 0 /\ InRing = 0 /\ OutBytes = 0 /\ Len(unsent) = 0
      <3>1. Pending(s_parser) = <<>>
        BY InitSound DEF Init
      <3>2. InRing = 0
        BY <1>1, RingCount DEF Init, IInv, TypeOK
      <3>3. QED
        BY <3>1, <3>2 DEF Init, Fed, OutBytes
    <2>2. QED
      BY <1>1, <2>1 DEF Sized
  <1>5. Wire
    <2>1. Starts[0] = 0 /\ Starts[0] + Total = Starts[0]
      BY <1>4, StartsAre
    <2>2. Carries(0, 0)
      BY <2>1 DEF Carries
    <2>3. Served = 0 /\ written = 0 /\ unsent = <<>>
      BY <1>3 DEF Init
    <2>4. QED
      BY <2>2, <2>3 DEF Wire
  <1>6. QED
    BY <1>2, <1>3, <1>5 DEF Orderly

(* A packet cut short, once counted, stays counted.                        *)
LEMMA DroppedStays ==
  ASSUME IInv, [Next]_vars, s_rx_dropped' = 0
  PROVE  s_rx_dropped = 0
  <1>1. s_rx_dropped \in Nat
    BY DEF IInv, TypeOK
  <1>2. s_rx_dropped' = s_rx_dropped \/ s_rx_dropped' = s_rx_dropped + 1
    <2>1. CASE exlink_ctrl_out_cb
      BY <2>1 DEF exlink_ctrl_out_cb, rx_ring_put
    <2>2. CASE UNCHANGED vars
      BY <2>2 DEF vars
    <2>3. CASE Next /\ ~ exlink_ctrl_out_cb
      BY <2>3 DEF Next, Dispatch, Isr, Bus, Host, dispatch_take, dispatch_empty, dispatch_byte,
             send_enter, send_stage, send_start, send_done, send_timeout,
             exlink_ctrl_in_cb, BusReset, BusDisconnect,
             usb_if_ctrl_on_configured, host_out_next, host_out_rest, host_out_empty, host_in
    <2>4. QED
      BY <2>1, <2>2, <2>3
  <1>3. QED
    BY <1>1, <1>2

LEMMA StepChannelInv ==
  ASSUME FramedHost
  PROVE  IInv /\ IInv' /\ ChannelInv /\ [Next]_vars => ChannelInv'
  <1> SUFFICES ASSUME IInv, IInv', ChannelInv, [Next]_vars, mishap' = {}, s_rx_dropped' = 0
               PROVE  Orderly'
    BY DEF ChannelInv
  <1>0. mishap = {} /\ s_rx_dropped = 0 /\ Orderly
    <2>1. mishap \subseteq mishap'
      BY DEF Next, Dispatch, Isr, Bus, Host, vars, dispatch_take, dispatch_empty, dispatch_byte,
             send_enter, send_stage, send_start, send_done, send_timeout, exlink_ctrl_out_cb,
             exlink_ctrl_in_cb, BusReset, BusDisconnect, SessionEnds,
             usb_if_ctrl_on_configured, host_out_next, host_out_rest, host_out_empty, host_in
    <2>2. s_rx_dropped = 0
      BY DroppedStays
    <2>3. QED
      BY <2>1, <2>2 DEF ChannelInv
  <1>1. CASE dispatch_take
    <2>1. Thread' /\ Attached' /\ (Answering' <=> Answering)
      BY <1>0, <1>1 DEF dispatch_take, Orderly, Thread, Attached, Answering
    <2>2. QED
      BY <1>0, <1>1, <2>1, WireKept DEF dispatch_take
  <1>2. CASE dispatch_empty
    <2>1. Thread' /\ Attached' /\ (Answering' <=> Answering)
      BY <1>0, <1>2 DEF dispatch_empty, Orderly, Thread, Attached, Answering
    <2>2. QED
      BY <1>0, <1>2, <2>1, WireKept DEF dispatch_empty
  <1>3. CASE dispatch_byte
    BY <1>0, <1>3, ByteOrderly
  <1>4. CASE send_enter
    <2>1. pc' = "wait"
      BY <1>0, <1>4 DEF send_enter, Orderly, Thread, Attached
    <2>2. Thread' /\ Attached' /\ (Answering' <=> Answering)
      BY <1>0, <1>4, <2>1 DEF send_enter, Orderly, Thread, Attached, Answering
    <2>3. QED
      BY <1>0, <1>4, <2>2, WireKept DEF send_enter
  <1>5. CASE send_stage
    <2>1. Thread' /\ Attached' /\ (Answering' <=> Answering)
      BY <1>0, <1>5 DEF send_stage, Orderly, Thread, Attached, Answering, IInv, TypeOK
    <2>2. QED
      BY <1>0, <1>5, <2>1, WireKept DEF send_stage
  <1>6. CASE send_start
    <2>1. /\ in_ep' = "primed" /\ in_len' = Len(s_resp) /\ pc' = "sent" /\ in_ep = "idle"
          /\ s_tx_busy' = s_tx_busy
      BY <1>0, <1>6 DEF send_start, Orderly, Thread
    <2>2. Len(s_resp) \in Nat /\ Len(s_resp) # 0
      <3>1. Answering
        BY <1>6 DEF send_start, Answering
      <3>2. QED
        BY <1>0, <3>1, LenProperties, EmptySeq DEF Orderly, Paired, IInv, TypeOK
    <2>3. Thread' /\ Attached' /\ (Answering' <=> Answering)
      BY <1>0, <1>6, <2>1, <2>2 DEF send_start, Orderly, Thread, Attached, Answering
    <2>4. QED
      BY <1>0, <1>6, <2>3, WireKept DEF send_start
  <1>7. CASE send_done
    <2>1. Thread' /\ Attached' /\ (Answering' <=> Answering)
      BY <1>0, <1>7 DEF send_done, Orderly, Thread, Attached, Answering
    <2>2. QED
      BY <1>0, <1>7, <2>1, WireKept DEF send_done
  <1>8. CASE send_timeout
    BY <1>8 DEF send_timeout
  <1>9. CASE exlink_ctrl_out_cb
    BY <1>0, <1>9, OutCbOrderly
  <1>10. CASE exlink_ctrl_in_cb
    <2>1. pc = "sent" /\ in_ep = "done" /\ s_tx_busy /\ ~ Answering
      BY <1>0, <1>10 DEF exlink_ctrl_in_cb, Orderly, Thread, Answering, IInv, TypeOK
    <2>2. /\ \/ in_ep' = "primed" /\ in_len' = 0 /\ s_tx_busy'
             \/ in_ep' = "idle" /\ ~ s_tx_busy'
          /\ UNCHANGED <<pc, s_resp, s_ep_in_buf, bus, s_configured, out_ep, outstanding>>
      BY <1>10, <2>1 DEF exlink_ctrl_in_cb
    <2>3. Thread' /\ Attached' /\ ~ Answering'
      <3>1. ~ Answering'
        BY <2>1, <2>2 DEF Answering
      <3>2. Thread'
        BY <1>0, <2>1, <2>2 DEF Orderly, Thread
      <3>3. Attached'
        BY <1>0, <2>1, <2>2 DEF Orderly, Attached
      <3>4. QED
        BY <3>1, <3>2, <3>3
    <2>4. QED
      BY <1>0, <1>10, <2>1, <2>3, WireKept DEF exlink_ctrl_in_cb
  <1>11. CASE BusReset \/ BusDisconnect
    BY <1>0, <1>11, EndOrderly
  <1>12. CASE usb_if_ctrl_on_configured
    BY <1>0, <1>12, ConfiguredOrderly
  <1>13. CASE host_out_next
    BY <1>0, <1>13, NextOrderly
  <1>14. CASE host_out_rest
    BY <1>0, <1>14, RestOrderly
  <1>15. CASE host_out_empty
    BY <1>0, <1>15, EmptyOrderly
  <1>16. CASE host_in
    BY <1>0, <1>16, InOrderly
  <1>17. CASE UNCHANGED vars
    <2>1. Thread' /\ Attached' /\ (Answering' <=> Answering)
      BY <1>0, <1>17 DEF vars, Orderly, Thread, Attached, Answering
    <2>2. QED
      BY <1>0, <1>17, <2>1, WireKept DEF vars
  <1>18. QED
    BY <1>1, <1>2, <1>3, <1>4, <1>5, <1>6, <1>7, <1>8, <1>9, <1>10, <1>11, <1>12, <1>13,
       <1>14, <1>15, <1>16, <1>17 DEF Next, Dispatch, Isr, Bus, Host

LEMMA AlwaysChannelInv ==
  ASSUME FramedHost
  PROVE  Spec => []ChannelInv
  <1>1. IInv /\ IInv' /\ ChannelInv /\ [Next]_vars => ChannelInv'
    BY StepChannelInv
  <1>2. QED
    BY <1>1, InitChannelInv, AlwaysIInv, PTL DEF Spec

(* Until a mishap a packet finds room for all of it: it is part of         *)
(* requests the host keeps unanswered, and so is what the ring holds.      *)
LEMMA PacketFits ==
  ASSUME WithinRing, IInv, Orderly, out_ep = "done"
  PROVE  Len(s_ep_out_buf) <= Room
  <1>1. PICK k \in 0 .. Len(Requests) : \E w \in k .. Len(Requests) :
          k = Served /\ w = written /\ Carries(k, w)
    BY WireEnds DEF Orderly
  <1>2. PICK w \in k .. Len(Requests) : k = Served /\ w = written /\ Carries(k, w)
    BY <1>1
  <1>3. k <= w /\ w <= k + Window /\ w \in 0 .. Len(Requests)
    <2>1. /\ Len(rcvd) \in Nat /\ outstanding \in 0 .. Window /\ Window \in Nat
          /\ written = Len(rcvd) + outstanding
      BY Sizes, LenProperties DEF Orderly, Paired, IInv, TypeOK
    <2>2. Len(rcvd) <= Served /\ Served \in Nat
      BY <2>1 DEF Served
    <2>3. QED
      BY <1>2, <2>1, <2>2, Sizes
  <1>4. Starts[w] - Starts[k] < EXLINK_RX_RING_SIZE
    BY <1>3 DEF WithinRing
  <1>5. /\ Starts[k] \in Nat /\ Starts[w] \in Nat /\ Starts[k] + Total = Starts[w]
    BY <1>2, <1>3, StartsAre DEF Carries
  <1>6. Sized /\ OutBytes = Len(s_ep_out_buf)
    BY Measured DEF OutBytes
  <1>7. Total < EXLINK_RX_RING_SIZE
    <2> DEFINE a == Starts[k]
               b == Starts[w]
               t == Total
    <2>1. a \in Nat /\ b \in Nat /\ t \in Nat /\ a + t = b /\ b - a < EXLINK_RX_RING_SIZE
      BY <1>4, <1>5, <1>6 DEF Sized
    <2> HIDE DEF a, b, t
    <2>2. t < EXLINK_RX_RING_SIZE
      BY <2>1, Sizes
    <2>3. QED
      BY <2>2 DEF t
  <1>8. Room = EXLINK_RX_RING_SIZE - 1 - InRing
    BY RingCount DEF IInv, TypeOK
  <1>9. PICK fed, c, o, u :
          /\ fed = Fed /\ c = InRing /\ o = Len(s_ep_out_buf) /\ u = Len(unsent)
    OBVIOUS
  <1>10. /\ fed \in Nat /\ c \in Nat /\ o \in Nat /\ u \in Nat
         /\ Total = ((fed + c) + o) + u
    BY <1>6, <1>9 DEF Sized
  <1>11. o <= EXLINK_RX_RING_SIZE - 1 - c
    BY <1>7, <1>10, Sizes
  <1>12. QED
    BY <1>8, <1>9, <1>11

(* A host that keeps no more unanswered than the ring holds loses no byte, *)
(* whatever frames it sends, broken checksums and impossible lengths       *)
(* included, and however many it writes ahead: when the interrupt has a    *)
(* packet for the ring, parser, ring and packet hold nothing but a part of *)
(* the requests without a response.                                        *)
THEOREM RingNeverOverflows ==
  ASSUME FramedHost, WithinRing
  PROVE  Spec => []NoByteLost
  <1>1. Init => NoByteLost
    BY DEF Init, NoByteLost
  <1>2. IInv /\ IInv' /\ ChannelInv /\ NoByteLost /\ [Next]_vars => NoByteLost'
    <2> SUFFICES ASSUME IInv, IInv', ChannelInv, NoByteLost, [Next]_vars, mishap' = {}
                 PROVE  s_rx_dropped' = 0
      BY DEF NoByteLost
    <2>1. mishap \subseteq mishap'
      BY DEF Next, Dispatch, Isr, Bus, Host, vars, dispatch_take, dispatch_empty, dispatch_byte,
             send_enter, send_stage, send_start, send_done, send_timeout, exlink_ctrl_out_cb,
             exlink_ctrl_in_cb, BusReset, BusDisconnect, SessionEnds,
             usb_if_ctrl_on_configured, host_out_next, host_out_rest, host_out_empty, host_in
    <2>2. s_rx_dropped = 0 /\ Orderly
      BY <2>1 DEF NoByteLost, ChannelInv
    <2>3. CASE exlink_ctrl_out_cb
      <3>1. CASE s_ep_out_buf = <<>>
        BY <2>2, <2>3, <3>1 DEF exlink_ctrl_out_cb
      <3>2. CASE s_ep_out_buf # <<>>
        <4>1. out_ep = "done" /\ rx_ring_put(s_ep_out_buf)
          BY <2>3, <3>2 DEF exlink_ctrl_out_cb
        <4>2. PICK packet : packet = s_ep_out_buf
          OBVIOUS
        <4>3. packet \in Bytes /\ rx_ring_put(packet)
          BY <4>1, <4>2 DEF IInv, TypeOK, Bytes
        <4>4. PICK m : Put(packet, m)
          BY <4>3, PutIs DEF IInv, TypeOK
        <4>5. Len(packet) <= Room
          BY <2>2, <4>1, <4>2, PacketFits
        <4>6. m = Len(packet) /\ Len(packet) \in Nat
          BY <4>3, <4>4, <4>5, LenProperties DEF Put, Bytes
        <4>7. s_rx_dropped' = s_rx_dropped
          BY <4>4, <4>6 DEF Put
        <4>8. QED
          BY <2>2, <4>7
      <3>3. QED
        BY <3>1, <3>2
    <2>4. CASE UNCHANGED vars
      BY <2>2, <2>4 DEF vars
    <2>5. CASE Next /\ ~ exlink_ctrl_out_cb
      BY <2>2, <2>5 DEF Next, Dispatch, Isr, Bus, Host, dispatch_take, dispatch_empty,
             dispatch_byte, send_enter, send_stage, send_start, send_done, send_timeout,
             exlink_ctrl_in_cb, BusReset, BusDisconnect,
             usb_if_ctrl_on_configured, host_out_next, host_out_rest, host_out_empty, host_in
    <2>6. QED
      BY <2>3, <2>4, <2>5
  <1>3. QED
    BY <1>1, <1>2, AlwaysIInv, AlwaysChannelInv, PTL DEF Spec

(* With no mishap and no loss the n-th response a host reads is the answer *)
(* to its n-th request, however many it keeps unanswered: the parser       *)
(* reassembles every request from its packets, decides on its last byte,   *)
(* and the response is copied out of the buffer it was built in before the *)
(* thread takes the next byte.                                             *)
THEOREM ResponsesMatchRequests ==
  ASSUME FramedHost
  PROVE  Spec => []AnswersPair
  <1>1. ChannelInv => AnswersPair
    BY DEF ChannelInv, Orderly, Paired, AnswersPair
  <1>2. QED
    BY <1>1, AlwaysChannelInv, PTL
----------------------------------------------------------------------------
(* Losses.                                                                 *)

(* How long the stream is, and how its requests follow each other.         *)
LEMMA Stretches ==
  ASSUME NEW n \in 1 .. Len(Requests)
  PROVE  /\ n - 1 \in 0 .. Len(Requests) /\ n \in 0 .. Len(Requests)
         /\ Requests[n] \in Bytes /\ Len(Requests[n]) \in Nat /\ Len(Requests[n]) >= 1
         /\ Starts[n - 1] \in Nat /\ Starts[n] \in Nat
         /\ Starts[n] = Starts[n - 1] + Len(Requests[n])
         /\ Starts[Len(Requests)] \in Nat /\ Starts[n] <= Starts[Len(Requests)]
  <1>1. /\ Len(Requests) \in Nat /\ n - 1 \in 0 .. Len(Requests) /\ n \in 0 .. Len(Requests)
        /\ Len(Requests) \in n .. Len(Requests) /\ Len(Requests) \in 0 .. Len(Requests)
    BY Sizes
  <1>2. Requests[n] \in Bytes /\ Requests[n] # <<>>
    BY Sizes
  <1>3. Len(Requests[n]) \in Nat /\ Len(Requests[n]) # 0
    BY <1>2, LenProperties, EmptySeq DEF Bytes
  <1>4. QED
    BY <1>1, <1>2, <1>3, StartsAre, StartsGrow

(* A place of the stream lies in one request only. *)
LEMMA OneStretch ==
  ASSUME NEW m \in 1 .. Len(Requests), NEW n \in 1 .. Len(Requests),
         NEW x \in Nat, Starts[m - 1] < x, x <= Starts[m], Starts[n - 1] < x, x <= Starts[n]
  PROVE  m = n
  <1>1. ASSUME NEW i \in 1 .. Len(Requests), NEW j \in 1 .. Len(Requests), i < j
        PROVE  Starts[i] <= Starts[j - 1]
    <2>1. i \in 0 .. Len(Requests) /\ j - 1 \in i .. Len(Requests)
      BY <1>1, Sizes
    <2>2. QED
      BY <2>1, StartsGrow
  <1>2. /\ Starts[m - 1] \in Nat /\ Starts[m] \in Nat /\ Starts[n - 1] \in Nat /\ Starts[n] \in Nat
    BY Stretches
  <1>3. ~ (m < n)
    <2> SUFFICES ASSUME m < n PROVE FALSE
      OBVIOUS
    <2>1. Starts[m] <= Starts[n - 1]
      BY <1>1
    <2>2. QED
      BY <1>2, <2>1
  <1>4. ~ (n < m)
    <2> SUFFICES ASSUME n < m PROVE FALSE
      OBVIOUS
    <2>1. Starts[n] <= Starts[m - 1]
      BY <1>1
    <2>2. QED
      BY <1>2, <2>1
  <1>5. QED
    BY <1>3, <1>4

LEMMA StreamIs ==
  ASSUME NEW n \in 1 .. Len(Requests), NEW i \in 1 .. Len(Requests[n])
  PROVE  Stream[Starts[n - 1] + i] = Requests[n][i]
  <1> DEFINE In(m, x) == Starts[m - 1] < x /\ x <= Starts[m]
             a == Starts[n - 1]
             x == a + i
  <1>1. /\ a \in Nat /\ Len(Requests[n]) \in Nat /\ Starts[n] = a + Len(Requests[n])
        /\ Starts[Len(Requests)] \in Nat /\ Starts[n] <= Starts[Len(Requests)]
    BY Stretches
  <1> HIDE DEF a
  <1>2. /\ x \in Nat /\ a < x /\ x <= Starts[n] /\ x - a = i
        /\ x \in 1 .. Starts[Len(Requests)]
    BY <1>1
  <1> HIDE DEF x
  <1>3. In(n, x)
    BY <1>2 DEF a
  <1> DEFINE m == CHOOSE m \in 1 .. Len(Requests) : In(m, x)
  <1>4. m \in 1 .. Len(Requests) /\ In(m, x)
    BY <1>3
  <1> HIDE DEF m
  <1>5. m = n
    BY <1>2, <1>3, <1>4, OneStretch
  <1>6. Stream[x] = Requests[m][x - Starts[m - 1]]
    BY <1>2 DEF Stream, m
  <1>7. QED
    BY <1>2, <1>5, <1>6 DEF a, x

(* The recursion behind Scraps has the solution it describes. *)
LEMMA ScrapsAre ==
  /\ Scraps[0].last = {<<>>} /\ Scraps[0].ever = {<<>>}
  /\ \A x \in 1 .. Starts[Len(Requests)] :
       /\ Scraps[x].last = {Kept(s, Stream[x]) : s \in Before(Scraps[x - 1], x)}
       /\ Scraps[x].ever = Scraps[x - 1].ever \cup Scraps[x].last
  <1> DEFINE N == Starts[Len(Requests)]
             first == [last |-> {<<>>}, ever |-> {<<>>}]
             Step(prior, x) ==
               LET now == {Kept(s, Stream[x]) : s \in Before(prior, x)}
               IN  [last |-> now, ever |-> prior.ever \cup now]
             Solves(f, n) == f = [x \in 0 .. n |-> IF x = 0 THEN first ELSE Step(f[x - 1], x)]
             T == {n \in Nat : \E f : Solves(f, n)}
  <1>1. N \in Nat
    BY Sizes, StartsAre
  <1> HIDE DEF N
  <1>2. 0 \in T
    <2> DEFINE f == [x \in 0 .. 0 |-> first]
    <2>1. f = [x \in 0 .. 0 |-> IF x = 0 THEN first ELSE Step(f[x - 1], x)]
      <3> HIDE DEF first, Step
      <3>1. \A x \in 0 .. 0 : x = 0
        OBVIOUS
      <3>2. QED
        BY <3>1
    <2>2. Solves(f, 0)
      BY <2>1
    <2>3. QED
      BY <2>2
  <1>3. ASSUME NEW n \in T PROVE n + 1 \in T
    <2>1. n \in Nat
      OBVIOUS
    <2>2. PICK f : Solves(f, n)
      OBVIOUS
    <2> HIDE DEF first, Step, T
    <2> DEFINE g == [x \in 0 .. n + 1 |-> IF x = n + 1 THEN Step(f[n], n + 1) ELSE f[x]]
    <2>3. \A x \in 0 .. n : g[x] = f[x]
      BY <2>1
    <2>4. f[0] = first /\ \A x \in 0 .. n : x # 0 => f[x] = Step(f[x - 1], x)
      BY <2>1, <2>2
    <2>5. \A x \in 0 .. n + 1 : g[x] = IF x = 0 THEN first ELSE Step(g[x - 1], x)
      <3>1. ASSUME NEW x \in 0 .. n + 1, x = 0 PROVE g[x] = first
        BY <2>1, <2>4, <3>1
      <3>2. ASSUME NEW x \in 0 .. n + 1, x # 0, x # n + 1 PROVE g[x] = Step(g[x - 1], x)
        <4>1. x \in 0 .. n /\ x - 1 \in 0 .. n
          BY <2>1, <3>2
        <4>2. g[x] = f[x] /\ g[x - 1] = f[x - 1]
          BY <2>3, <4>1
        <4>3. f[x] = Step(f[x - 1], x)
          BY <2>4, <3>2, <4>1
        <4> HIDE DEF g
        <4>4. QED
          BY <4>2, <4>3, Zenon
      <3>3. ASSUME NEW x \in 0 .. n + 1, x = n + 1 PROVE g[x] = Step(g[x - 1], x)
        <4>1. x - 1 = n /\ n \in 0 .. n
          BY <2>1, <3>3
        <4>2. g[x] = Step(f[n], n + 1)
          BY <3>3
        <4>3. g[x - 1] = f[n]
          BY <2>3, <4>1
        <4> HIDE DEF g
        <4>4. QED
          BY <3>3, <4>2, <4>3, Zenon
      <3> HIDE DEF g
      <3>4. \A x \in 0 .. n + 1 : x = 0 \/ (x # 0 /\ x # n + 1) \/ (x # 0 /\ x = n + 1)
        OBVIOUS
      <3>5. QED
        BY <3>1, <3>2, <3>3, <3>4
    <2>6. Solves(g, n + 1)
      <3>1. g = [x \in 0 .. n + 1 |-> g[x]]
        OBVIOUS
      <3> HIDE DEF g
      <3>2. QED
        BY <2>5, <3>1, Zenon
    <2>7. n + 1 \in Nat
      BY <2>1
    <2>8. QED
      BY <2>6, <2>7 DEF T
  <1>4. T = Nat
    <2>1. T \in SUBSET Nat
      OBVIOUS
    <2> HIDE DEF T
    <2>2. QED
      BY <1>2, <1>3, <2>1, SetInduction
  <1>5. \E f : Solves(f, N)
    <2>1. N \in T
      BY <1>1, <1>4
    <2>2. QED
      BY <2>1
  <1>6. Scraps = CHOOSE f : Solves(f, N)
    BY DEF Scraps, N
  <1>7. Solves(Scraps, N)
    <2> HIDE DEF Solves
    <2>1. QED
      BY <1>5, <1>6
  <1> HIDE DEF T, Step, first
  <1>8. /\ \A x \in 0 .. N : Scraps[x] = IF x = 0 THEN first ELSE Step(Scraps[x - 1], x)
    BY <1>7, Zenon
  <1>9. /\ Scraps[0] = first
        /\ \A x \in 1 .. N : Scraps[x] = Step(Scraps[x - 1], x)
    BY <1>1, <1>8
  <1>10. Scraps[0].last = {<<>>} /\ Scraps[0].ever = {<<>>}
    BY <1>9 DEF first
  <1>11. ASSUME NEW x \in 1 .. N
         PROVE  /\ Scraps[x].last = {Kept(s, Stream[x]) : s \in Before(Scraps[x - 1], x)}
                /\ Scraps[x].ever = Scraps[x - 1].ever \cup Scraps[x].last
    <2>1. PICK now, prior : /\ now = {Kept(s, Stream[x]) : s \in Before(Scraps[x - 1], x)}
                            /\ prior = Scraps[x - 1].ever
      OBVIOUS
    <2>2. Scraps[x] = [last |-> now, ever |-> prior \cup now]
      BY <1>9, <2>1, Zenon DEF Step
    <2>3. Scraps[x].last = now /\ Scraps[x].ever = prior \cup now
      BY <2>2
    <2>4. QED
      BY <2>1, <2>3, Zenon
  <1>12. QED
    BY <1>10, <1>11 DEF N

(* What may be left after one byte may be left whenever bytes are lost     *)
(* after it.                                                               *)
LEMMA EverGrows ==
  ASSUME NEW a \in 0 .. Starts[Len(Requests)], NEW b \in a .. Starts[Len(Requests)]
  PROVE  Scraps[a].last \subseteq Scraps[b].ever
  <1> DEFINE N == Starts[Len(Requests)]
             T == {d \in Nat : a + d <= N => Scraps[a].last \subseteq Scraps[a + d].ever}
  <1>1. N \in Nat
    BY Sizes, StartsAre
  <1>2. \A x \in 1 .. N : /\ Scraps[x].last \subseteq Scraps[x].ever
                          /\ Scraps[x - 1].ever \subseteq Scraps[x].ever
    BY ScrapsAre
  <1>3. Scraps[0].last \subseteq Scraps[0].ever
    BY ScrapsAre
  <1> HIDE DEF N
  <1>4. a \in Nat /\ a \in 0 .. N /\ b \in Nat /\ a <= b /\ b <= N
    BY <1>1 DEF N
  <1>5. 0 \in T
    <2>1. a + 0 = a /\ (a = 0 \/ a \in 1 .. N)
      BY <1>1, <1>4
    <2>2. QED
      BY <1>2, <1>3, <2>1
  <1>6. ASSUME NEW d \in T PROVE d + 1 \in T
    <2>1. CASE a + (d + 1) <= N
      <3>1. /\ d \in Nat /\ a + (d + 1) \in 1 .. N /\ (a + (d + 1)) - 1 = a + d /\ a + d <= N
        BY <1>1, <1>4, <2>1
      <3>2. Scraps[a].last \subseteq Scraps[a + d].ever
        BY <3>1
      <3>3. Scraps[a + d].ever \subseteq Scraps[a + (d + 1)].ever
        BY <1>2, <3>1
      <3>4. QED
        BY <3>1, <3>2, <3>3
    <2>2. QED
      BY <2>1
  <1>7. T = Nat
    <2>1. T \in SUBSET Nat
      OBVIOUS
    <2> HIDE DEF T
    <2>2. QED
      BY <1>5, <1>6, <2>1, SetInduction
  <1>8. b - a \in Nat /\ a + (b - a) = b
    BY <1>4
  <1>9. QED
    BY <1>4, <1>7, <1>8

(* Byte b comes to the parser after byte a: the next one, or one that      *)
(* begins a packet, those between them lost.                               *)
Follows(a, b) == b = a + 1 \/ (a < b /\ PacketAfter(b - 1))

LEMMA ScrapStep ==
  ASSUME NEW a \in 0 .. Starts[Len(Requests)], NEW b \in 1 .. Starts[Len(Requests)],
         Follows(a, b), NEW s \in Scraps[a].last
  PROVE  s \in Before(Scraps[b - 1], b) /\ Kept(s, Stream[b]) \in Scraps[b].last
  <1>1. Starts[Len(Requests)] \in Nat
    BY Sizes, StartsAre
  <1>2. s \in Before(Scraps[b - 1], b)
    <2>1. CASE PacketAfter(b - 1)
      <3>1. b - 1 \in a .. Starts[Len(Requests)]
        BY <1>1 DEF Follows
      <3>2. s \in Scraps[b - 1].ever
        BY <3>1, EverGrows
      <3>3. QED
        BY <2>1, <3>2 DEF Before
    <2>2. CASE ~ PacketAfter(b - 1)
      <3>1. b - 1 = a
        BY <1>1, <2>2 DEF Follows
      <3>2. QED
        BY <2>2, <3>1 DEF Before
    <2>3. QED
      BY <2>1, <2>2
  <1>3. Scraps[b].last = {Kept(r, Stream[b]) : r \in Before(Scraps[b - 1], b)}
    BY ScrapsAre
  <1>4. QED
    BY <1>2, <1>3

LEMMA ErrorIsError ==
  ASSUME NEW err \in Byte
  PROVE  IsError(build_error(err))
  <1>1. EXLINK_OP_ERROR \in Byte
    BY DEF EXLINK_OP_ERROR, Byte
  <1>2. <<err>> \in Bytes /\ Len(<<err>>) = 1
    BY Headers
  <1>3. exlink_frame_build(EXLINK_OP_ERROR, <<err>>, EXLINK_MAX_FRAME)[3] = EXLINK_OP_ERROR
    BY <1>1, <1>2, BuiltFrame, Sizes
  <1>4. QED
    BY <1>3 DEF IsError, build_error

(* The parser calls nothing a frame that is not one. *)
LEMMA OkDecided ==
  ASSUME NEW p, Sound(p), NEW b \in Byte, FeedResult(p, b) = "OK",
         NEW s, s = Append(Pending(p), b)
  PROVE  Decided(s) /\ Complete(s)
  <1>1. p.state = "CRC_HI"
    BY DEF FeedResult
  <1>2. /\ p \in Parser /\ p.len \in Nat /\ Len(p.payload) = p.len /\ p.crc_rx \in Byte
        /\ Len(p.payload) <= EXLINK_MAX_PAYLOAD
    BY <1>1, ParserFields, WordsAreNaturals DEF Sound, HalfRead, Accounted, PayloadFits
  <1>3. s = Whole(p, p.crc_rx, b)
    BY <1>1 DEF Pending, Whole
  <1>4. Parts(s, p, p.crc_rx, b)
    BY <1>2, <1>3, WholeFrame
  <1>5. /\ s \in Bytes /\ Len(s) = 7 + p.len /\ MayBegin(s) /\ Complete(s)
        /\ Announced(s) = p.len
    BY <1>4 DEF Parts
  <1>6. QED
    BY <1>2, <1>5 DEF Decided, EXLINK_HEADER_LEN

(* Whatever was lost before byte x of the stream, the parser keeps of what *)
(* it holds and that byte what Scraps allows for, and if it answers, with  *)
(* an error or with the answer to the request that byte ends.              *)
LEMMA ScrapJudged ==
  ASSUME NoPiecedFrame,
         NEW p, Sound(p), NEW x \in 1 .. Starts[Len(Requests)], Stream[x] \in Byte,
         Pending(p) \in Before(Scraps[x - 1], x),
         NEW q, q = exlink_parser_feed(p, Stream[x]), NEW v, v = FeedResult(p, Stream[x])
  PROVE  /\ Pending(q) = Kept(Pending(p), Stream[x])
         /\ \/ Response(q, v) = <<>>
            \/ v # "NONE" /\ IsError(Response(q, v))
            \/ /\ v # "NONE"
               /\ \E n \in 1 .. Len(Requests) : Starts[n] = x /\ Response(q, v) = Answers[n]
  <1>1. PICK s : s = Append(Pending(p), Stream[x])
    OBVIOUS
  <1>2. Sound(q) /\ Judged(s, v, q)
    BY <1>1, FeedRecognises
  <1>3. Pending(q) = Kept(Pending(p), Stream[x])
    BY <1>1, <1>2 DEF Judged, Kept
  <1>4. v \in {"NONE", "OK", "BAD_CRC", "BAD_LEN"}
    BY DEF FeedResult
  <1>5. CASE v = "NONE"
    BY <1>3, <1>5 DEF Response
  <1>6. CASE v \in {"BAD_CRC", "BAD_LEN"}
    <2>1. EXLINK_ERR_BAD_CRC \in Byte /\ EXLINK_ERR_BAD_LEN \in Byte
      BY DEF EXLINK_ERR_BAD_CRC, EXLINK_ERR_BAD_LEN, Byte
    <2>2. Response(q, v) \in {build_error(EXLINK_ERR_BAD_CRC), build_error(EXLINK_ERR_BAD_LEN)}
      BY <1>6 DEF Response
    <2>3. IsError(Response(q, v))
      BY <2>1, <2>2, ErrorIsError
    <2>4. QED
      BY <1>3, <1>6, <2>3
  <1>7. CASE v = "OK"
    <2>1. Decided(s) /\ Complete(s)
      BY <1>1, <1>7, OkDecided
    <2>2. Response(q, v) = Answer(s)
      <3>1. q \in Parser
        BY <1>2 DEF Sound
      <3>2. QED
        BY <1>2, <2>1, <3>1, AnswerIs
    <2>3. \/ Answer(s) = <<>> \/ IsError(Answer(s))
          \/ \E n \in 1 .. Len(Requests) : Starts[n] = x /\ Requests[n] = s
      BY <1>1, <2>1, Zenon DEF NoPiecedFrame
    <2>4. \A n \in 1 .. Len(Requests) : Requests[n] = s => Answers[n] = Answer(s)
      BY DEF Answers
    <2>5. QED
      BY <1>3, <1>7, <2>2, <2>3, <2>4
  <1>8. QED
    BY <1>4, <1>5, <1>6, <1>7

(* The bytes on their way to the parser: those in the ring, then those of  *)
(* the packet received.                                                    *)
OnWay      == InRing + OutBytes
WayByte(i) == IF i <= InRing THEN Cell(i) ELSE s_ep_out_buf[i - InRing]

(* Where request n has its packet k + 1. *)
PacketAt(n, k) == Starts[n - 1] + k * EXLINK_BULK_MPS

(* The host has written the first h bytes of the stream, or has given up   *)
(* writing some of them; what it has left follows.                         *)
HostAt(h) ==
  /\ h \in Nat /\ h + Len(unsent) = Starts[written]
  /\ \A i \in 1 .. Len(unsent) : unsent[i] = Stream[h + i]
  /\ unsent # <<>> =>
       /\ written >= 1
       /\ \E k \in 0 .. Len(Requests[written]) : h = PacketAt(written, k)

(* Where each byte on its way stands in the stream, at[0] being the last   *)
(* the parser has taken.                                                   *)
Traced(at, h) ==
  /\ at \in [0 .. OnWay -> 0 .. h]
  /\ \A i \in 1 .. OnWay : Follows(at[i - 1], at[i]) /\ WayByte(i) = Stream[at[i]]

Heard(P) ==
  \E h, at : /\ HostAt(h) /\ Traced(at, h) /\ at[0] = P
             /\ Pending(s_parser) \in Scraps[P].last

WaySized ==
  /\ OnWay \in Nat /\ InRing \in Nat /\ OutBytes \in Nat /\ OnWay = InRing + OutBytes
  /\ Len(unsent) \in Nat /\ unsent \in Bytes
  /\ s_ep_out_buf \in Bytes /\ Len(s_ep_out_buf) \in Nat
  /\ written \in 0 .. Len(Requests) /\ Len(Requests) \in Nat
  /\ Starts[written] \in Nat /\ Starts[Len(Requests)] \in Nat
  /\ Starts[written] <= Starts[Len(Requests)]

LEMMA WayMeasured == IInv => WaySized
  <1> SUFFICES ASSUME IInv PROVE WaySized
    OBVIOUS
  <1>1. Sized
    BY Measured
  <1>2. OnWay \in Nat /\ OnWay = InRing + OutBytes
    BY <1>1 DEF Sized, OnWay
  <1>3. /\ written \in 0 .. Len(Requests) /\ Len(Requests) \in Nat
        /\ Len(Requests) \in written .. Len(Requests) /\ Len(Requests) \in 0 .. Len(Requests)
    BY Sizes DEF IInv, TypeOK
  <1>4. QED
    BY <1>1, <1>2, <1>3, StartsAre, StartsGrow DEF Sized, WaySized

LEMMA WayMeasuredNext == IInv' => WaySized'
  BY WayMeasured, PTL

(* The last bytes on their way are lost, or none is. *)
LEMMA TraceShort ==
  ASSUME OnWay \in Nat, NEW n \in 0 .. OnWay, OnWay' = n,
         \A i \in 1 .. n : WayByte(i)' = WayByte(i),
         NEW h \in Nat, NEW at, Traced(at, h), NEW g \in Nat, h <= g
  PROVE  \E to : Traced(to, g)' /\ to[0] = at[0]
  <1> DEFINE to == [i \in 0 .. n |-> at[i]]
  <1>1. PICK m : m = OnWay
    OBVIOUS
  <1>2. /\ m \in Nat /\ n \in 0 .. m /\ at \in [0 .. m -> 0 .. h]
        /\ \A i \in 1 .. m : Follows(at[i - 1], at[i]) /\ WayByte(i) = Stream[at[i]]
    BY <1>1 DEF Traced
  <1>3. \A i \in 0 .. n : to[i] = at[i] /\ to[i] \in 0 .. g
    BY <1>2
  <1>4. to \in [0 .. n -> 0 .. g] /\ to[0] = at[0]
    BY <1>2, <1>3
  <1> HIDE DEF to
  <1>5. ASSUME NEW i \in 1 .. n
        PROVE  Follows(to[i - 1], to[i]) /\ WayByte(i)' = Stream[to[i]]
    <2>1. i \in 1 .. m /\ i \in 0 .. n /\ i - 1 \in 0 .. n
      BY <1>2
    <2>2. to[i] = at[i] /\ to[i - 1] = at[i - 1]
      BY <1>3, <2>1
    <2>3. Follows(at[i - 1], at[i]) /\ WayByte(i) = Stream[at[i]]
      BY <1>2, <2>1
    <2>4. WayByte(i)' = WayByte(i)
      OBVIOUS
    <2>5. QED
      BY <2>2, <2>3, <2>4, Zenon
  <1>6. Traced(to, g)'
    BY <1>4, <1>5, Zenon DEF Traced
  <1>7. QED
    BY <1>4, <1>6

(* The host writes a packet of m bytes, after byte h of the stream. *)
Longer(n, m, h) ==
  /\ n \in Nat /\ n = OnWay /\ m \in Nat /\ OnWay' = n + m
  /\ h \in Nat /\ PacketAfter(h)
  /\ \A i \in 1 .. n : WayByte(i)' = WayByte(i)
  /\ \A i \in n + 1 .. n + m : WayByte(i)' = Stream[h + (i - n)]

LEMMA TraceLonger ==
  ASSUME NEW n, NEW m, NEW h, Longer(n, m, h), NEW at, Traced(at, h), NEW g, g = h + m
  PROVE  \E to : Traced(to, g)' /\ to[0] = at[0]
  <1>1. /\ n \in Nat /\ at \in [0 .. n -> 0 .. h]
        /\ \A i \in 1 .. n : Follows(at[i - 1], at[i]) /\ WayByte(i) = Stream[at[i]]
        /\ \A i \in 1 .. n : WayByte(i)' = WayByte(i)
        /\ \A i \in n + 1 .. n + m : WayByte(i)' = Stream[h + (i - n)]
        /\ m \in Nat /\ h \in Nat /\ OnWay' = n + m /\ PacketAfter(h)
    BY DEF Traced, Longer
  <1> DEFINE to == [i \in 0 .. n + m |-> IF i <= n THEN at[i] ELSE h + (i - n)]
  <1>2. \A i \in 0 .. n + m : to[i] = IF i <= n THEN at[i] ELSE h + (i - n)
    OBVIOUS
  <1>3. \A i \in 0 .. n + m : to[i] \in 0 .. h + m
    <2> SUFFICES ASSUME NEW i \in 0 .. n + m PROVE to[i] \in 0 .. h + m
      OBVIOUS
    <2>1. CASE i <= n
      <3>1. i \in 0 .. n
        BY <1>1, <2>1
      <3>2. at[i] \in 0 .. h
        BY <1>1, <3>1
      <3>3. QED
        BY <1>1, <1>2, <2>1, <3>2
    <2>2. CASE ~ (i <= n)
      <3>1. h + (i - n) \in 0 .. h + m
        BY <1>1, <2>2
      <3>2. QED
        BY <1>2, <2>2, <3>1
    <2>3. QED
      BY <2>1, <2>2
  <1>4. to \in [0 .. n + m -> 0 .. h + m]
    BY <1>3
  <1> HIDE DEF to
  <1>5. to[0] = at[0]
    BY <1>1, <1>2
  <1>6. ASSUME NEW i \in 1 .. n + m
        PROVE  Follows(to[i - 1], to[i]) /\ WayByte(i)' = Stream[to[i]]
    <2>1. i \in 0 .. n + m /\ i - 1 \in 0 .. n + m
      BY <1>1
    <2>2. CASE i <= n
      <3>1. i \in 1 .. n /\ i - 1 <= n
        BY <1>1, <2>2
      <3>2. to[i] = at[i] /\ to[i - 1] = at[i - 1]
        BY <1>2, <2>1, <2>2, <3>1
      <3>3. Follows(at[i - 1], at[i]) /\ WayByte(i) = Stream[at[i]] /\ WayByte(i)' = WayByte(i)
        BY <1>1, <3>1
      <3>4. QED
        BY <3>2, <3>3, Zenon
    <2>3. CASE ~ (i <= n)
      <3>1. i - n \in 1 .. m /\ n + (i - n) = i /\ to[i] = h + (i - n)
        BY <1>1, <1>2, <2>1, <2>3
      <3>2. WayByte(i)' = Stream[to[i]]
        <4>1. i \in n + 1 .. n + m
          BY <1>1, <2>3
        <4>2. QED
          BY <1>1, <3>1, <4>1
      <3>3. Follows(to[i - 1], to[i])
        <4>1. CASE i = n + 1
          <5>1. /\ to[i] = h + 1 /\ (h + 1) - 1 = h /\ n \in 0 .. n + m /\ n \in 0 .. n
                /\ i - 1 = n
            BY <1>1, <3>1, <4>1
          <5>2. to[n] = at[n] /\ at[n] \in 0 .. h
            BY <1>1, <1>2, <5>1
          <5>3. to[i - 1] < to[i] /\ to[i] - 1 = h
            BY <1>1, <5>1, <5>2
          <5>4. QED
            BY <1>1, <5>3 DEF Follows
        <4>2. CASE i # n + 1
          <5>1. ~ (i - 1 <= n) /\ i - 1 \in 0 .. n + m
            BY <1>1, <2>1, <2>3, <4>2
          <5>2. to[i - 1] = h + ((i - 1) - n)
            BY <1>2, <5>1
          <5>3. to[i] = to[i - 1] + 1
            BY <1>1, <3>1, <5>2
          <5>4. QED
            BY <5>3 DEF Follows
        <4>3. QED
          BY <4>1, <4>2
      <3>4. QED
        BY <3>2, <3>3
    <2>4. QED
      BY <2>2, <2>3
  <1>7. Traced(to, g)'
    BY <1>1, <1>4, <1>6, Zenon DEF Traced
  <1>8. QED
    BY <1>5, <1>7

(* The parser takes the first byte on its way. *)
LEMMA TraceShift ==
  ASSUME OnWay \in Nat, OnWay >= 1, OnWay' = OnWay - 1,
         \A i \in 1 .. OnWay - 1 : WayByte(i)' = WayByte(i + 1),
         NEW h \in Nat, NEW at, Traced(at, h)
  PROVE  /\ \E to : Traced(to, h)' /\ to[0] = at[1]
         /\ at[0] \in 0 .. h /\ at[1] \in 1 .. h /\ at[0] < at[1]
         /\ Follows(at[0], at[1]) /\ WayByte(1) = Stream[at[1]]
  <1>1. PICK n : n = OnWay
    OBVIOUS
  <1>2. /\ n \in Nat /\ n >= 1 /\ at \in [0 .. n -> 0 .. h]
        /\ \A i \in 1 .. n : Follows(at[i - 1], at[i]) /\ WayByte(i) = Stream[at[i]]
        /\ \A i \in 1 .. n - 1 : WayByte(i)' = WayByte(i + 1)
    BY <1>1 DEF Traced
  <1> DEFINE to == [i \in 0 .. n - 1 |-> at[i + 1]]
  <1>3. \A i \in 0 .. n - 1 : to[i] = at[i + 1] /\ i + 1 \in 0 .. n
    BY <1>2
  <1>4. to \in [0 .. n - 1 -> 0 .. h]
    BY <1>2, <1>3
  <1> HIDE DEF to
  <1>5. to[0] = at[1]
    BY <1>2, <1>3
  <1>6. ASSUME NEW i \in 1 .. n - 1
        PROVE  Follows(to[i - 1], to[i]) /\ WayByte(i)' = Stream[to[i]]
    <2>1. PICK j : j = i + 1
      OBVIOUS
    <2>2. /\ j \in 1 .. n /\ i \in 0 .. n - 1 /\ i - 1 \in 0 .. n - 1
          /\ j - 1 = i /\ (i - 1) + 1 = i
      BY <1>2, <2>1
    <2>3. to[i] = at[j] /\ to[i - 1] = at[i]
      BY <1>3, <2>1, <2>2
    <2>4. Follows(at[i], at[j]) /\ WayByte(j) = Stream[at[j]]
      BY <1>2, <2>2
    <2>5. WayByte(i)' = WayByte(j)
      BY <1>2, <2>1
    <2>6. QED
      BY <2>3, <2>4, <2>5, Zenon
  <1>7. OnWay' = n - 1
    BY <1>1
  <1>8. Traced(to, h)'
    BY <1>4, <1>6, <1>7, Zenon DEF Traced
  <1>9. /\ at[0] \in 0 .. h /\ at[1] \in 0 .. h
        /\ Follows(at[0], at[1]) /\ WayByte(1) = Stream[at[1]]
    <2>1. 0 \in 0 .. n /\ 1 \in 0 .. n /\ 1 \in 1 .. n /\ 1 - 1 = 0
      BY <1>2
    <2>2. QED
      BY <1>2, <2>1
  <1>10. at[0] < at[1] /\ at[1] \in 1 .. h
    BY <1>9 DEF Follows
  <1>11. QED
    BY <1>5, <1>8, <1>9, <1>10

(* Steps that move no byte towards the parser; a session that ends loses   *)
(* the packet received, and what the host has left to write.               *)
LEMMA HeardShort ==
  ASSUME IInv, IInv', NEW P, Heard(P), s_parser' = s_parser,
         OnWay' <= OnWay, \A i \in 1 .. OnWay' : WayByte(i)' = WayByte(i),
         written' = written, unsent' = unsent \/ unsent' = <<>>
  PROVE  Heard(P)'
  <1>1. WaySized /\ WaySized'
    BY WayMeasured, WayMeasuredNext
  <1>2. PICK h, at : /\ HostAt(h) /\ Traced(at, h) /\ at[0] = P
                     /\ Pending(s_parser) \in Scraps[P].last
    BY DEF Heard
  <1>3. \E g \in Nat : h <= g /\ HostAt(g)'
    <2>1. CASE unsent' = unsent
      <3>1. h \in Nat /\ HostAt(h)'
        BY <1>2, <2>1 DEF HostAt
      <3>2. QED
        BY <3>1
    <2>2. CASE unsent' = <<>>
      <3>1. PICK g : g = Starts[written]
        OBVIOUS
      <3>2. g \in Nat /\ h \in Nat /\ h <= g
        BY <1>1, <1>2, <3>1 DEF HostAt, WaySized
      <3>3. Len(unsent') = 0 /\ g + 0 = g /\ Starts[written'] = g
        BY <2>2, <3>1, <3>2
      <3>4. HostAt(g)'
        BY <2>2, <3>2, <3>3 DEF HostAt
      <3>5. QED
        BY <3>2, <3>4
    <2>3. QED
      BY <2>1, <2>2
  <1>4. PICK g \in Nat : h <= g /\ HostAt(g)'
    BY <1>3
  <1>5. PICK n : n = OnWay'
    OBVIOUS
  <1>6. n \in 0 .. OnWay /\ OnWay \in Nat /\ h \in Nat
    <2>1. OnWay \in Nat /\ n \in Nat
      BY <1>1, <1>5 DEF WaySized
    <2>2. h \in Nat
      BY <1>2 DEF HostAt
    <2>3. n <= OnWay
      BY <1>5
    <2>4. QED
      BY <2>1, <2>2, <2>3
  <1>7. \A i \in 1 .. n : WayByte(i)' = WayByte(i)
    BY <1>5
  <1>8. PICK to : Traced(to, g)' /\ to[0] = at[0]
    BY <1>2, <1>4, <1>5, <1>6, <1>7, TraceShort
  <1>9. QED
    BY <1>2, <1>4, <1>8 DEF Heard

LEMMA HeardStays ==
  ASSUME IInv, IInv', NEW P, Heard(P),
         UNCHANGED <<s_rx_ring, s_rx_head, s_rx_tail, s_parser, written>>,
         unsent' = unsent \/ unsent' = <<>>,
         \/ UNCHANGED <<out_ep, s_ep_out_buf>>
         \/ out_ep' # "done" \/ s_ep_out_buf' = <<>>
  PROVE  Heard(P)'
  <1>1. WaySized /\ WaySized'
    BY WayMeasured, WayMeasuredNext
  <1>2. InRing' = InRing /\ \A i : Cell(i)' = Cell(i)
    BY DEF InRing, Cell
  <1>3. PICK n, c, o, w : n = OnWay' /\ c = InRing /\ o = OutBytes' /\ w = OnWay
    OBVIOUS
  <1>4. n = c + o /\ c \in Nat /\ o \in Nat /\ w \in Nat /\ c <= w
    <2>1. n = c + o /\ c \in Nat /\ o \in Nat
      BY <1>1, <1>2, <1>3 DEF WaySized
    <2>2. w = c + OutBytes /\ OutBytes \in Nat
      BY <1>1, <1>3 DEF WaySized
    <2>3. QED
      BY <2>1, <2>2
  <1>5. CASE o = 0
    <2>1. n <= w
      BY <1>4, <1>5
    <2>2. ASSUME NEW i \in 1 .. n PROVE WayByte(i)' = WayByte(i)
      <3>1. i <= InRing /\ i <= InRing'
        BY <1>2, <1>3, <1>4, <1>5
      <3>2. WayByte(i)' = Cell(i)' /\ WayByte(i) = Cell(i)
        BY <3>1 DEF WayByte
      <3>3. QED
        BY <1>2, <3>2, Zenon
    <2>3. QED
      BY <1>3, <2>1, <2>2, HeardShort
  <1>6. CASE UNCHANGED <<out_ep, s_ep_out_buf>>
    <2>1. OnWay' = OnWay
      BY <1>2, <1>6 DEF OnWay, OutBytes
    <2>2. n <= w
      <3>1. n = w
        BY <1>3, <2>1, Zenon
      <3>2. QED
        BY <1>4, <3>1
    <2>3. ASSUME NEW i \in 1 .. n PROVE WayByte(i)' = WayByte(i)
      BY <1>2, <1>6 DEF WayByte
    <2>4. QED
      BY <1>3, <2>2, <2>3, HeardShort
  <1>7. out_ep' # "done" \/ s_ep_out_buf' = <<>> => o = 0
    BY <1>3 DEF OutBytes
  <1>8. QED
    BY <1>5, <1>6, <1>7

(* The ring takes the beginning of the packet. *)
LEMMA OutCbHeard ==
  ASSUME IInv, IInv', NEW P, Heard(P), exlink_ctrl_out_cb
  PROVE  Heard(P)'
  <1>1. /\ out_ep = "done" /\ out_ep' = "primed"
        /\ UNCHANGED <<s_rx_tail, s_parser, s_ep_out_buf, written, unsent>>
    BY DEF exlink_ctrl_out_cb
  <1>2. CASE s_ep_out_buf = <<>>
    <2>1. UNCHANGED <<s_rx_ring, s_rx_head>>
      BY <1>2 DEF exlink_ctrl_out_cb
    <2>2. QED
      BY <1>1, <2>1, HeardStays
  <1>3. CASE s_ep_out_buf # <<>>
    <2>1. WaySized /\ WaySized'
      BY WayMeasured, WayMeasuredNext
    <2>2. PICK packet, c : packet = s_ep_out_buf /\ c = InRing
      OBVIOUS
    <2>3. packet \in Bytes /\ rx_ring_put(packet) /\ c \in Nat /\ Len(packet) \in Nat
      BY <1>3, <2>1, <2>2 DEF exlink_ctrl_out_cb, WaySized
    <2>4. PICK m : Put(packet, m)
      BY <2>3, PutIs DEF IInv, TypeOK
    <2>5. /\ InRing' = c + m /\ m \in 0 .. Len(packet)
          /\ \A j \in 1 .. c + m : Cell(j)' = IF j <= c THEN Cell(j) ELSE packet[j - c]
      BY <1>1, <2>2, <2>3, <2>4, RingGrows DEF IInv, TypeOK
    <2>6. OnWay' = c + m /\ OnWay = c + Len(packet) /\ OnWay' <= OnWay
      <3>1. OutBytes' = 0 /\ OutBytes = Len(packet)
        BY <1>1, <2>2 DEF OutBytes
      <3>2. OnWay' = InRing' + 0 /\ OnWay = c + Len(packet)
        BY <2>1, <2>2, <3>1 DEF WaySized
      <3>3. QED
        BY <2>3, <2>5, <3>2
    <2>7. ASSUME NEW i \in 1 .. c + m PROVE WayByte(i)' = WayByte(i)
      <3>1. i <= InRing'
        BY <2>3, <2>5
      <3>2. WayByte(i)' = Cell(i)'
        BY <3>1 DEF WayByte
      <3>3. WayByte(i) = IF i <= c THEN Cell(i) ELSE packet[i - c]
        BY <2>2 DEF WayByte
      <3>4. QED
        BY <2>5, <3>2, <3>3
    <2>8. QED
      BY <1>1, <2>6, <2>7, HeardShort
  <1>4. QED
    BY <1>2, <1>3

(* What the parser takes is the next byte of the stream, or one that       *)
(* begins a packet; what it answers is an error, or the answer to the      *)
(* request that byte ends.                                                 *)
AnswersAt(x) ==
  \/ pc' = "drain"
  \/ /\ pc' = "enter" /\ s_resp' # <<>>
     /\ \/ IsError(s_resp')
        \/ \E n \in 1 .. Len(Requests) : Starts[n] = x /\ s_resp' = Answers[n]

LEMMA ByteHeard ==
  ASSUME NoPiecedFrame, IInv, IInv', NEW P, Heard(P), dispatch_byte
  PROVE  \E x \in 1 .. Starts[written] :
           P \in Nat /\ P < x /\ Heard(x)' /\ AnswersAt(x)
  <1>1. WaySized /\ WaySized'
    BY WayMeasured, WayMeasuredNext
  <1>2. PICK b, v, q : b = s_rx_ring[s_rx_tail] /\ v = FeedResult(s_parser, b) /\ q = s_parser'
    OBVIOUS
  <1>3. /\ s_rx_tail # s_rx_head /\ s_rx_tail' = Succ(s_rx_tail)
        /\ q = exlink_parser_feed(s_parser, b)
        /\ s_resp' = IF v = "NONE" THEN s_resp ELSE Response(q, v)
        /\ pc' = IF Response(q, v) = <<>> THEN "drain" ELSE "enter"
        /\ UNCHANGED <<s_rx_ring, s_rx_head, out_ep, s_ep_out_buf, written, unsent>>
    BY <1>2 DEF dispatch_byte
  <1>4. /\ InRing >= 1 /\ InRing' = InRing - 1 /\ b = Cell(1)
        /\ \A i \in 1 .. InRing - 1 : Cell(i)' = Cell(i + 1)
    BY <1>2, <1>3, RingShrinks DEF IInv, TypeOK
  <1>5. b \in Byte
    BY <1>2, Places DEF IInv, TypeOK
  <1>6. PICK c, o, w : c = InRing /\ o = OutBytes /\ w = OnWay
    OBVIOUS
  <1>7. /\ c \in Nat /\ c >= 1 /\ o \in Nat /\ w = c + o /\ w \in Nat /\ w >= 1
        /\ InRing' = c - 1 /\ OnWay' = w - 1
    <2>1. OutBytes' = OutBytes
      BY <1>3 DEF OutBytes
    <2>2. /\ c \in Nat /\ c >= 1 /\ o \in Nat /\ w = c + o /\ InRing' = c - 1
          /\ OnWay' = (c - 1) + o
      BY <1>1, <1>4, <1>6, <2>1 DEF WaySized
    <2>3. QED
      BY <2>2
  <1>8. ASSUME NEW i \in 1 .. w - 1 PROVE WayByte(i)' = WayByte(i + 1)
    <2>1. WayByte(i)' = IF i <= c - 1 THEN Cell(i)' ELSE s_ep_out_buf[i - (c - 1)]
      BY <1>3, <1>7 DEF WayByte
    <2>2. WayByte(i + 1) = IF i + 1 <= c THEN Cell(i + 1) ELSE s_ep_out_buf[(i + 1) - c]
      BY <1>6 DEF WayByte
    <2>3. CASE i <= c - 1
      <3>1. i \in 1 .. c - 1 /\ i + 1 <= c
        BY <1>7, <2>3
      <3>2. Cell(i)' = Cell(i + 1)
        BY <1>4, <1>6, <3>1
      <3>3. QED
        BY <2>1, <2>2, <2>3, <3>1, <3>2
    <2>4. CASE ~ (i <= c - 1)
      <3>1. ~ (i + 1 <= c) /\ i - (c - 1) = (i + 1) - c
        BY <1>7, <2>4
      <3>2. QED
        BY <2>1, <2>2, <2>4, <3>1
    <2>5. QED
      BY <2>3, <2>4
  <1>9. PICK h, at : /\ HostAt(h) /\ Traced(at, h) /\ at[0] = P
                     /\ Pending(s_parser) \in Scraps[P].last
    BY DEF Heard
  <1>10. h \in Nat /\ HostAt(h)' /\ h <= Starts[written]
    BY <1>1, <1>3, <1>9 DEF HostAt, WaySized
  <1>11. /\ \E to : Traced(to, h)' /\ to[0] = at[1]
         /\ P \in 0 .. h /\ at[1] \in 1 .. h /\ P < at[1]
         /\ Follows(P, at[1]) /\ WayByte(1) = Stream[at[1]]
    BY <1>6, <1>7, <1>8, <1>9, <1>10, TraceShift
  <1>12. PICK x : x = at[1]
    OBVIOUS
  <1>13. PICK to : Traced(to, h)' /\ to[0] = x
    BY <1>11, <1>12
  <1>14. /\ x \in 1 .. Starts[written] /\ x \in 1 .. Starts[Len(Requests)]
         /\ P \in 0 .. Starts[Len(Requests)] /\ P \in Nat /\ P < x
         /\ Follows(P, x)
    <2>1. P \in 0 .. h /\ x \in 1 .. h /\ P < x /\ Follows(P, x)
      BY <1>11, <1>12, Zenon
    <2>2. PICK u, z : u = Starts[written] /\ z = Starts[Len(Requests)]
      OBVIOUS
    <2>3. h \in Nat /\ h <= u /\ u \in Nat /\ z \in Nat /\ u <= z
      BY <1>1, <1>10, <2>2, Zenon DEF WaySized
    <2>4. x \in 1 .. u /\ x \in 1 .. z /\ P \in 0 .. z /\ P \in Nat
      BY <2>1, <2>3
    <2>5. QED
      BY <2>1, <2>2, <2>4, Zenon
  <1>15. b = Stream[x]
    BY <1>4, <1>6, <1>7, <1>11, <1>12 DEF WayByte
  <1>16. /\ Pending(s_parser) \in Before(Scraps[x - 1], x)
         /\ Kept(Pending(s_parser), Stream[x]) \in Scraps[x].last
    BY <1>9, <1>14, ScrapStep
  <1>17. /\ Pending(q) = Kept(Pending(s_parser), Stream[x])
         /\ \/ Response(q, v) = <<>>
            \/ v # "NONE" /\ IsError(Response(q, v))
            \/ /\ v # "NONE"
               /\ \E n \in 1 .. Len(Requests) : Starts[n] = x /\ Response(q, v) = Answers[n]
    <2>1. PICK p : p = s_parser
      OBVIOUS
    <2>2. Sound(p)
      BY <2>1 DEF IInv
    <2>3. QED
      BY <1>2, <1>3, <1>5, <1>14, <1>15, <1>16, <2>1, <2>2, ScrapJudged
  <1>18. Heard(x)'
    BY <1>2, <1>10, <1>13, <1>16, <1>17 DEF Heard
  <1>19. AnswersAt(x)
    BY <1>3, <1>17 DEF AnswersAt
  <1>20. QED
    BY <1>14, <1>18, <1>19

LEMMA Multiple ==
  ASSUME NEW k \in Nat, NEW M \in Nat, M >= 1
  PROVE  k * M \in Nat /\ k <= k * M /\ (k + 1) * M = k * M + M
  OBVIOUS

(* The host writes the next packet of what it has to write, u, which       *)
(* follows byte h of the stream: the first byte of a packet of its         *)
(* request.                                                                *)
LEMMA PacketHeard ==
  ASSUME IInv, IInv', out_ep # "done", out_ep' = "done",
         UNCHANGED <<s_rx_ring, s_rx_head, s_rx_tail, s_parser>>,
         NEW u \in Bytes, u # <<>>, s_ep_out_buf' = Packet(u), unsent' = Rest(u),
         NEW w \in 1 .. Len(Requests), w = written',
         NEW k \in Nat, NEW h, h = PacketAt(w, k),
         h + Len(u) = Starts[w], \A i \in 1 .. Len(u) : u[i] = Stream[h + i],
         NEW at, Traced(at, h), Pending(s_parser) \in Scraps[at[0]].last
  PROVE  Heard(at[0])'
  <1>1. PICK m : Cut(u, m)
    BY NextPacket
  <1>2. PICK M, L, z, s, t : /\ M = EXLINK_BULK_MPS /\ L = Len(Requests[w]) /\ z = k * M
                             /\ s = Starts[w - 1] /\ t = Len(u)
    OBVIOUS
  <1>3. /\ M \in Nat /\ M >= 1 /\ L \in Nat /\ s \in Nat /\ t \in Nat /\ t >= 1
        /\ Starts[w] = s + L
    <2>1. t \in Nat /\ t # 0
      BY <1>2, LenProperties, EmptySeq DEF Bytes
    <2>2. QED
      BY <1>2, <2>1, Sizes, Stretches
  <1>4. z \in Nat /\ k <= z /\ (k + 1) * M = z + M
    BY <1>2, <1>3, Multiple
  <1>5. h = s + z /\ h \in Nat /\ z + t = L
    <2>1. h = s + z /\ h + t = s + L
      BY <1>2, <1>3 DEF PacketAt
    <2>2. QED
      BY <1>3, <1>4, <2>1
  <1>6. PacketAfter(h)
    <2>1. k \in 0 .. L /\ z < L
      BY <1>3, <1>4, <1>5
    <2>2. k \in 0 .. Len(Requests[w]) /\ k * EXLINK_BULK_MPS < Len(Requests[w])
      BY <1>2, <2>1
    <2>3. h = Starts[w - 1] + k * EXLINK_BULK_MPS
      BY DEF PacketAt
    <2>4. QED
      BY <2>2, <2>3, Zenon DEF PacketAfter
  <1>7. /\ m \in 1 .. t /\ m \in Nat /\ Len(Packet(u)) = m /\ Len(Rest(u)) = t - m
        /\ \A i \in 1 .. m : Packet(u)[i] = u[i]
        /\ \A i \in 1 .. t - m : Rest(u)[i] = u[m + i]
        /\ Rest(u) \in Bytes
    BY <1>1, <1>2, <1>3 DEF Cut
  <1>8. t - m # 0 => m = M
    <2>1. Len(Packet(u)) = Min({Len(u), EXLINK_BULK_MPS})
      BY PacketBytes
    <2>2. m = IF t <= M THEN t ELSE M
      BY <1>2, <1>3, <1>7, <2>1, MinOfTwo
    <2>3. QED
      BY <1>3, <2>2
  <1>9. HostAt(h + m)'
    <2>1. h + m \in Nat /\ (h + m) + (t - m) = h + t
      BY <1>3, <1>5, <1>7
    <2>2. (h + m) + Len(unsent') = Starts[written']
      BY <1>2, <1>7, <2>1
    <2>3. ASSUME NEW i \in 1 .. Len(unsent') PROVE unsent'[i] = Stream[(h + m) + i]
      <3>1. i \in 1 .. t - m /\ m + i \in 1 .. t /\ h + (m + i) = (h + m) + i
        BY <1>3, <1>5, <1>7
      <3>2. Rest(u)[i] = u[m + i] /\ u[m + i] = Stream[h + (m + i)]
        BY <1>2, <1>7, <3>1
      <3>3. QED
        BY <3>1, <3>2
    <2>4. ASSUME unsent' # <<>>
          PROVE  /\ written' >= 1
                 /\ \E j \in 0 .. Len(Requests[written']) : h + m = PacketAt(written', j)
      <3>1. t - m # 0
        BY <1>7, <2>4, EmptySeq DEF Bytes
      <3>2. m = M /\ k + 1 \in 0 .. L
        BY <1>3, <1>4, <1>5, <1>7, <1>8, <3>1
      <3>3. h + m = s + (k + 1) * M
        BY <1>3, <1>4, <1>5, <3>2
      <3>4. w >= 1 /\ k + 1 \in 0 .. Len(Requests[w])
            /\ h + m = PacketAt(w, k + 1)
        BY <1>2, <3>2, <3>3 DEF PacketAt
      <3>5. QED
        BY <3>4
    <2>5. QED
      BY <2>1, <2>2, <2>3, <2>4, Zenon DEF HostAt
  <1>10. WaySized /\ WaySized'
    BY WayMeasured, WayMeasuredNext
  <1>11. PICK n : n = OnWay
    OBVIOUS
  <1>12. n \in Nat /\ InRing = n /\ InRing' = n /\ OnWay' = n + m
    <2>1. OutBytes = 0 /\ OutBytes' = m /\ InRing' = InRing
      BY <1>7 DEF OutBytes, InRing
    <2>2. n \in Nat /\ InRing = n
      BY <1>10, <1>11, <2>1 DEF WaySized
    <2>3. OnWay' = InRing' + OutBytes'
      BY <1>10 DEF WaySized
    <2>4. QED
      BY <2>1, <2>2, <2>3
  <1>13. ASSUME NEW i \in 1 .. n PROVE WayByte(i)' = WayByte(i)
    <2>1. WayByte(i)' = Cell(i)' /\ WayByte(i) = Cell(i) /\ Cell(i)' = Cell(i)
      BY <1>12 DEF WayByte, Cell
    <2>2. QED
      BY <2>1, Zenon
  <1>14. ASSUME NEW i \in n + 1 .. n + m PROVE WayByte(i)' = Stream[h + (i - n)]
    <2>1. ~ (i <= n) /\ i - n \in 1 .. m /\ i - n \in 1 .. Len(u)
      BY <1>2, <1>3, <1>7, <1>12
    <2>2. WayByte(i)' = s_ep_out_buf'[i - n]
      BY <1>12, <2>1 DEF WayByte
    <2>3. QED
      BY <1>7, <2>1, <2>2
  <1>15. PICK g : g = h + m
    OBVIOUS
  <1>16. \E to : Traced(to, g)' /\ to[0] = at[0]
    <2>1. n \in Nat /\ m \in Nat /\ h \in Nat /\ OnWay' = n + m
      BY <1>5, <1>7, <1>12
    <2>2. \A i \in 1 .. n : WayByte(i)' = WayByte(i)
      BY <1>13
    <2>3. \A i \in n + 1 .. n + m : WayByte(i)' = Stream[h + (i - n)]
      BY <1>14
    <2>4. Longer(n, m, h)
      BY <1>6, <1>11, <2>1, <2>2, <2>3, Zenon DEF Longer
    <2>5. QED
      BY <1>15, <2>4, TraceLonger, SMT
  <1>17. Pending(s_parser') \in Scraps[at[0]].last
    OBVIOUS
  <1>18. HostAt(g)'
    BY <1>9, <1>15
  <1>19. QED
    BY <1>16, <1>17, <1>18 DEF Heard

LEMMA HostHeard ==
  ASSUME IInv, IInv', NEW P, Heard(P), host_out_next \/ host_out_rest
  PROVE  Heard(P)'
  <1>1. WaySized /\ WaySized'
    BY WayMeasured, WayMeasuredNext
  <1>2. PICK h, at : /\ HostAt(h) /\ Traced(at, h) /\ at[0] = P
                     /\ Pending(s_parser) \in Scraps[P].last
    BY DEF Heard
  <1>3. CASE host_out_next
    <2>1. /\ out_ep = "primed" /\ out_ep' = "done" /\ unsent = <<>>
          /\ written < Len(Requests) /\ written' = written + 1
          /\ s_ep_out_buf' = Packet(Requests[written + 1])
          /\ unsent' = Rest(Requests[written + 1])
          /\ UNCHANGED <<s_rx_ring, s_rx_head, s_rx_tail, s_parser>>
      BY <1>3 DEF host_out_next, OutReady
    <2>2. PICK w, u : w = written + 1 /\ u = Requests[w]
      OBVIOUS
    <2>3. w \in 1 .. Len(Requests) /\ w - 1 = written /\ w = written'
      BY <1>1, <2>1, <2>2 DEF WaySized
    <2>4. /\ u \in Bytes /\ u # <<>> /\ Len(u) \in Nat
          /\ Starts[w - 1] \in Nat /\ Starts[w] = Starts[w - 1] + Len(u)
      BY <2>2, <2>3, Sizes, Stretches
    <2>5. h = PacketAt(w, 0) /\ h = Starts[w - 1] /\ h + Len(u) = Starts[w]
      <3>1. Len(unsent) = 0 /\ h \in Nat /\ h + Len(unsent) = Starts[written]
        BY <1>2, <2>1 DEF HostAt
      <3>2. h = Starts[w - 1]
        BY <2>3, <3>1
      <3>3. 0 * EXLINK_BULK_MPS = 0
        BY Sizes
      <3>4. QED
        BY <2>4, <3>2, <3>3 DEF PacketAt
    <2>6. \A i \in 1 .. Len(u) : u[i] = Stream[h + i]
      BY <2>2, <2>3, <2>5, StreamIs
    <2>7. out_ep # "done" /\ s_ep_out_buf' = Packet(u) /\ unsent' = Rest(u)
      BY <2>1, <2>2
    <2>8. Heard(at[0])'
      BY <1>2, <2>1, <2>3, <2>4, <2>5, <2>6, <2>7, PacketHeard
    <2>9. QED
      BY <1>2, <2>8
  <1>4. CASE host_out_rest
    <2>1. /\ out_ep = "primed" /\ out_ep' = "done" /\ unsent # <<>>
          /\ s_ep_out_buf' = Packet(unsent) /\ unsent' = Rest(unsent) /\ written' = written
          /\ UNCHANGED <<s_rx_ring, s_rx_head, s_rx_tail, s_parser>>
      BY <1>4 DEF host_out_rest, OutReady
    <2>2. PICK w, u : w = written /\ u = unsent
      OBVIOUS
    <2>3. /\ u \in Bytes /\ u # <<>> /\ w = written' /\ w >= 1
          /\ h + Len(u) = Starts[w] /\ \A i \in 1 .. Len(u) : u[i] = Stream[h + i]
      BY <1>1, <1>2, <2>1, <2>2 DEF HostAt, WaySized
    <2>4. w \in 1 .. Len(Requests)
      BY <1>1, <2>2, <2>3 DEF WaySized
    <2>5. PICK k \in 0 .. Len(Requests[w]) : h = PacketAt(w, k)
      BY <1>2, <2>1, <2>2 DEF HostAt
    <2>6. k \in Nat
      BY <2>4, Stretches
    <2>7. out_ep # "done" /\ s_ep_out_buf' = Packet(u) /\ unsent' = Rest(u)
      BY <2>1, <2>2
    <2>8. Heard(at[0])'
      BY <1>2, <2>1, <2>3, <2>4, <2>5, <2>6, <2>7, PacketHeard
    <2>9. QED
      BY <1>2, <2>8
  <1>5. QED
    BY <1>3, <1>4

(* What each response answers: request n, or none when n = 0.              *)
Matches(resp, n) == IF n = 0 THEN IsError(resp) ELSE resp = Answers[n]

(* A response staged that the host has not read.                           *)
Unread == pc = "start" \/ (in_ep = "primed" /\ in_len > 0)

(* The response in hand answers r, a later request than any response       *)
(* before it.                                                              *)
Owed(P, of, e, r) ==
  pc \in {"enter", "wait"} =>
    /\ s_resp # <<>> /\ Matches(s_resp, r) /\ Starts[r] <= P
    /\ r # 0 => e < r /\ \A n \in 1 .. Len(rcvd) : of[n] < r

(* The responses read answer of[n], the one staged e, the one in hand r:   *)
(* requests that end at byte P of the stream or before.                    *)
Tags(P, of, e, r) ==
  /\ P \in Nat /\ of \in [1 .. Len(rcvd) -> 0 .. written]
  /\ e \in 0 .. written /\ r \in 0 .. written
  /\ \A n \in 1 .. Len(rcvd) : Matches(rcvd[n], of[n]) /\ Starts[of[n]] <= P
  /\ s_ep_in_buf # <<>> => Matches(s_ep_in_buf, e)
  /\ Starts[e] <= P
  /\ in_len > 0 \/ pc = "start" => s_ep_in_buf # <<>>
  /\ Owed(P, of, e, r)
  /\ \A m, n \in 1 .. Len(rcvd) : m < n /\ of[n] # 0 => of[m] <= of[n]
  /\ e # 0 => \A n \in 1 .. Len(rcvd) : of[n] <= e
  /\ "torn" \notin mishap =>
       /\ \A m, n \in 1 .. Len(rcvd) : m < n /\ of[n] # 0 => of[m] < of[n]
       /\ Unread /\ e # 0 => \A n \in 1 .. Len(rcvd) : of[n] < e

(* Until a session is cut in the middle of something, a response is staged *)
(* with the flag up and nothing is in hand between sessions.               *)
Calm ==
  "torn" \notin mishap =>
    /\ bus # "configured" =>
         /\ pc \in {"take", "drain"} /\ s_rx_head = s_rx_tail
         /\ out_ep # "done" /\ in_ep \notin {"primed", "done"}
    /\ in_ep \in {"primed", "done"} => s_tx_busy
    /\ pc = "start" => s_tx_busy /\ in_ep \notin {"primed", "done"}

LossInv == Calm /\ \E P, of, e, r : Heard(P) /\ Tags(P, of, e, r)

LEMMA InitLossInv == Init => LossInv
  <1> SUFFICES ASSUME Init PROVE LossInv
    OBVIOUS
  <1>1. IInv /\ WaySized
    BY InitIInv, WayMeasured
  <1>2. OnWay = 0 /\ Starts[0] = 0
    <2>1. InRing = 0
      BY <1>1, RingCount DEF Init, IInv, TypeOK
    <2>2. OutBytes = 0
      BY DEF Init, OutBytes
    <2>3. QED
      BY <1>1, <2>1, <2>2, StartsAre DEF WaySized
  <1>3. HostAt(0)
    BY <1>2 DEF Init, HostAt
  <1> DEFINE at == [i \in 0 .. 0 |-> 0]
  <1>4. at \in [0 .. 0 -> 0 .. 0] /\ at[0] = 0
    OBVIOUS
  <1> HIDE DEF at
  <1>5. Traced(at, 0)
    BY <1>2, <1>4 DEF Traced
  <1>6. Pending(s_parser) \in Scraps[0].last
    BY InitSound, ScrapsAre DEF Init
  <1>7. Heard(0)
    BY <1>3, <1>4, <1>5, <1>6 DEF Heard
  <1> DEFINE of == [n \in 1 .. 0 |-> 0]
  <1>8. Tags(0, of, 0, 0)
    BY <1>2 DEF Init, Tags, Owed
  <1>9. Calm
    BY DEF Init, Calm
  <1>10. QED
    BY <1>7, <1>8, <1>9 DEF LossInv

LEMMA CalmStays ==
  ASSUME IInv, Calm, [Next]_vars
  PROVE  Calm'
  <1> USE DEF Calm
  <1>1. CASE dispatch_take \/ dispatch_empty \/ dispatch_byte
    BY <1>1 DEF dispatch_take, dispatch_empty, dispatch_byte
  <1>2. CASE send_enter \/ send_stage
    BY <1>2 DEF send_enter, send_stage
  <1>3. CASE send_start
    BY <1>3 DEF send_start
  <1>4. CASE send_done \/ send_timeout
    BY <1>4 DEF send_done, send_timeout
  <1>5. CASE exlink_ctrl_out_cb
    BY <1>5 DEF exlink_ctrl_out_cb
  <1>6. CASE exlink_ctrl_in_cb
    BY <1>6 DEF exlink_ctrl_in_cb
  <1>7. CASE BusReset \/ BusDisconnect
    BY <1>7 DEF BusReset, BusDisconnect, SessionEnds, Quiet, usb_if_ctrl_on_reset
  <1>8. CASE usb_if_ctrl_on_configured
    BY <1>8 DEF usb_if_ctrl_on_configured
  <1>9. CASE host_out_next \/ host_out_rest \/ host_out_empty
    BY <1>9 DEF host_out_next, host_out_rest, host_out_empty, OutReady
  <1>10. CASE host_in
    BY <1>10 DEF host_in
  <1>11. CASE UNCHANGED vars
    BY <1>11 DEF vars
  <1>12. QED
    BY <1>1, <1>2, <1>3, <1>4, <1>5, <1>6, <1>7, <1>8, <1>9, <1>10, <1>11
       DEF Next, Dispatch, Isr, Bus, Host

(* A step that stages and reads no response, the parser going on to Q. *)
LEMMA TagsStay ==
  ASSUME NEW P, NEW of, NEW e, NEW r, Tags(P, of, e, r),
         NEW Q \in Nat, P <= Q, NEW k \in 0 .. written',
         written \in Nat, written' \in Nat, written <= written',
         \A n \in 0 .. written : Starts[n] \in Nat,
         UNCHANGED <<rcvd, s_ep_in_buf>>, mishap \subseteq mishap',
         in_len' > 0 \/ pc' = "start" => in_len > 0 \/ pc = "start",
         Unread' => Unread, Owed(Q, of, e, k)'
  PROVE  Tags(Q, of, e, k)'
  <1>1. of \in [1 .. Len(rcvd) -> 0 .. written'] /\ e \in 0 .. written'
    BY DEF Tags
  <1>2. ASSUME NEW n \in 1 .. Len(rcvd)
        PROVE  Matches(rcvd[n], of[n]) /\ Starts[of[n]] <= Q
    <2>1. /\ Matches(rcvd[n], of[n]) /\ Starts[of[n]] <= P /\ P \in Nat
          /\ of[n] \in 0 .. written
      BY DEF Tags
    <2>2. Starts[of[n]] \in Nat
      BY <2>1
    <2>3. QED
      BY <2>1, <2>2
  <1>3. Starts[e] <= Q
    BY DEF Tags
  <1>4. \A n \in 1 .. Len(rcvd) : Matches(rcvd[n], of[n])' /\ Starts[of[n]] <= Q
    BY <1>2 DEF Matches
  <1>5. s_ep_in_buf' # <<>> => Matches(s_ep_in_buf, e)'
    BY DEF Tags, Matches
  <1>6. QED
    BY <1>1, <1>3, <1>4, <1>5 DEF Tags

(* The host reads the response staged. *)
LEMMA TagsRead ==
  ASSUME IInv, Calm, NEW P, NEW of, NEW e, NEW r, Tags(P, of, e, r), host_in, in_len > 0
  PROVE  Tags(P, Append(of, e), e, r)'
  <1>1. PICK N, w : N = Len(rcvd) /\ w = written
    OBVIOUS
  <1>2. /\ in_ep = "primed" /\ in_ep' = "done" /\ rcvd' = Append(rcvd, s_ep_in_buf)
        /\ UNCHANGED <<written, s_ep_in_buf, in_len, pc, s_resp, mishap, bus>>
    BY DEF host_in
  <1>3. /\ N \in Nat /\ of \in [1 .. N -> 0 .. w] /\ w \in Nat
        /\ rcvd \in Seq(Seq(Byte)) /\ s_ep_in_buf \in Seq(Byte)
    BY <1>1, LenProperties DEF IInv, TypeOK, Tags
  <1>4. PICK to : to = Append(of, e)
    OBVIOUS
  <1>5. /\ Len(rcvd') = N + 1
        /\ \A n \in 1 .. N : rcvd'[n] = rcvd[n]
        /\ rcvd'[N + 1] = s_ep_in_buf
    BY <1>1, <1>2, <1>3, AppendProperties
  <1>6. e \in 0 .. w
    BY <1>1 DEF Tags
  <1>7. /\ to \in [1 .. N + 1 -> 0 .. w]
        /\ \A n \in 1 .. N : to[n] = of[n]
        /\ to[N + 1] = e
    <2>1. of \in Seq(0 .. w) /\ Len(of) = N
      BY <1>3
    <2>2. /\ to \in Seq(0 .. w) /\ Len(to) = N + 1
          /\ \A n \in 1 .. N : to[n] = of[n] /\ to[N + 1] = e
      BY <1>4, <1>6, <2>1, AppendProperties
    <2>3. to[N + 1] = e
      BY <1>3, <1>4, <1>6, <2>1, AppendProperties
    <2>4. QED
      BY <2>2, <2>3, LenProperties
  <1>8. s_ep_in_buf # <<>> /\ Matches(s_ep_in_buf, e) /\ Starts[e] <= P
    BY DEF Tags
  <1>9. \A n \in 1 .. N + 1 : n \in 1 .. N \/ n = N + 1
    BY <1>3
  <1>10. ASSUME NEW n \in 1 .. N + 1
         PROVE  Matches(rcvd'[n], to[n]) /\ Starts[to[n]] <= P
    <2>1. CASE n \in 1 .. N
      BY <1>1, <1>5, <1>7, <2>1 DEF Tags
    <2>2. CASE n = N + 1
      BY <1>5, <1>7, <1>8, <2>2
    <2>3. QED
      BY <1>9, <2>1, <2>2
  <1>11. e # 0 => \A n \in 1 .. N + 1 : to[n] <= e
    <2> SUFFICES ASSUME e # 0, NEW n \in 1 .. N + 1 PROVE to[n] <= e
      OBVIOUS
    <2>1. CASE n \in 1 .. N
      BY <1>1, <1>7, <2>1 DEF Tags
    <2>2. CASE n = N + 1
      BY <1>6, <1>7, <2>2
    <2>3. QED
      BY <1>9, <2>1, <2>2
  <1>12. ASSUME NEW m \in 1 .. N + 1, NEW n \in 1 .. N + 1, m < n, to[n] # 0
         PROVE  to[m] <= to[n] /\ ("torn" \notin mishap => to[m] < to[n])
    <2>1. m \in 1 .. N /\ to[m] = of[m]
      BY <1>3, <1>7, <1>12
    <2>2. CASE n \in 1 .. N
      <3>1. to[n] = of[n]
        BY <1>7, <2>2
      <3>2. of[m] <= of[n] /\ ("torn" \notin mishap => of[m] < of[n])
        BY <1>1, <1>12, <2>1, <2>2, <3>1 DEF Tags
      <3>3. QED
        BY <2>1, <3>1, <3>2
    <2>3. CASE n = N + 1
      <3>1. to[n] = e /\ e # 0
        BY <1>7, <1>12, <2>3
      <3>2. of[m] <= e /\ ("torn" \notin mishap => of[m] < e)
        BY <1>1, <1>2, <2>1, <3>1 DEF Tags, Unread
      <3>3. QED
        BY <2>1, <3>1, <3>2
    <2>4. QED
      BY <1>9, <2>2, <2>3
  <1>13. ASSUME pc \in {"enter", "wait"}, r # 0
         PROVE  e < r /\ \A n \in 1 .. N + 1 : to[n] < r
    <2>1. e < r /\ \A n \in 1 .. N : of[n] < r
      BY <1>1, <1>13 DEF Tags, Owed
    <2>2. QED
      BY <1>7, <1>9, <2>1
  <1>14. Owed(P, to, e, r)'
    <2>1. pc \in {"enter", "wait"} =>
            s_resp # <<>> /\ Matches(s_resp, r) /\ Starts[r] <= P
      BY DEF Tags, Owed
    <2>2. pc' = pc /\ s_resp' = s_resp
      BY <1>2
    <2>3. QED
      BY <1>5, <1>13, <2>1, <2>2 DEF Owed, Matches
  <1>15. "torn" \notin mishap => ~ Unread'
    BY <1>2 DEF Calm, Unread
  <1>16. \A n \in 1 .. N + 1 : Matches(rcvd[n], to[n])' /\ Starts[to[n]] <= P
    BY <1>10 DEF Matches
  <1>17. Matches(s_ep_in_buf, e)' /\ s_ep_in_buf' # <<>>
    BY <1>2, <1>8 DEF Matches
  <1>18. P \in Nat /\ r \in 0 .. w /\ w = written' /\ mishap' = mishap /\ Len(rcvd') = N + 1
    BY <1>1, <1>2, <1>5 DEF Tags
  <1>19. QED
    BY <1>4, <1>6, <1>7, <1>8, <1>11, <1>12, <1>14, <1>15, <1>16, <1>17, <1>18 DEF Tags

(* The thread stages the response in hand. *)
LEMMA TagsStage ==
  ASSUME NEW P, NEW of, NEW e, NEW r, Tags(P, of, e, r), Calm, send_stage, IInv
  PROVE  Tags(P, of, r, r)'
  <1>1. /\ pc = "wait" /\ pc' = "start" /\ s_ep_in_buf' = s_resp /\ ~ s_tx_busy
        /\ UNCHANGED <<rcvd, written, in_ep, in_len, mishap>>
    BY DEF send_stage
  <1>2. /\ s_resp # <<>> /\ Matches(s_resp, r) /\ Starts[r] <= P
        /\ r # 0 => \A n \in 1 .. Len(rcvd) : of[n] < r
    BY <1>1 DEF Tags, Owed
  <1>3. Matches(s_ep_in_buf, r)' /\ s_ep_in_buf' # <<>>
    BY <1>1, <1>2 DEF Matches
  <1>4. \A n \in 1 .. Len(rcvd) : Matches(rcvd[n], of[n])' /\ Starts[of[n]] <= P
    BY <1>1 DEF Tags, Matches
  <1>5. Owed(P, of, r, r)'
    BY <1>1 DEF Owed
  <1>6. /\ P \in Nat /\ of \in [1 .. Len(rcvd) -> 0 .. written] /\ r \in 0 .. written
        /\ written \in Nat
    BY DEF Tags, IInv, TypeOK
  <1>7. r # 0 => \A n \in 1 .. Len(rcvd) : of[n] <= r
    BY <1>2, <1>6
  <1>8. QED
    BY <1>1, <1>2, <1>3, <1>4, <1>5, <1>6, <1>7 DEF Tags

LEMMA Earlier ==
  ASSUME NEW a \in 0 .. Len(Requests), NEW b \in 0 .. Len(Requests), Starts[a] < Starts[b]
  PROVE  a < b
  <1> SUFFICES ASSUME ~ (a < b) PROVE FALSE
    OBVIOUS
  <1>1. a \in b .. Len(Requests)
    BY Sizes
  <1>2. Starts[b] <= Starts[a] /\ Starts[a] \in Nat /\ Starts[b] \in Nat
    BY <1>1, StartsGrow, StartsAre
  <1>3. QED
    BY <1>2

(* The thread takes a byte: x of the stream, after the last request        *)
(* answered.                                                               *)
LEMMA TagsByte ==
  ASSUME IInv, IInv', NEW P, NEW of, NEW e, NEW r, Tags(P, of, e, r), dispatch_byte,
         NEW x \in 1 .. Starts[written], P < x, AnswersAt(x)
  PROVE  \E k : Tags(x, of, e, k)'
  <1>1. /\ pc = "drain" /\ pc' \in {"drain", "enter"}
        /\ UNCHANGED <<rcvd, s_ep_in_buf, in_ep, in_len, mishap, written>>
    BY DEF dispatch_byte
  <1>2. WaySized
    BY WayMeasured
  <1>3. /\ P \in Nat /\ x \in Nat /\ P <= x /\ written \in Nat /\ e \in 0 .. written
        /\ of \in [1 .. Len(rcvd) -> 0 .. written]
        /\ \A n \in 0 .. written : n \in 0 .. Len(Requests)
    BY <1>2 DEF Tags, WaySized
  <1>4. \A n \in 0 .. written : Starts[n] \in Nat
    BY <1>3, StartsAre
  <1>5. Unread' => Unread
    BY <1>1 DEF Unread
  <1>6. ASSUME NEW k \in 0 .. written, Owed(x, of, e, k)'
        PROVE  Tags(x, of, e, k)'
    BY <1>1, <1>3, <1>4, <1>5, <1>6, TagsStay
  <1>7. CASE pc' = "drain"
    <2>1. 0 \in 0 .. written /\ Owed(x, of, e, 0)'
      BY <1>3, <1>7 DEF Owed
    <2>2. QED
      BY <1>6, <2>1
  <1>8. CASE pc' = "enter" /\ s_resp' # <<>> /\ IsError(s_resp')
    <2>1. 0 \in 0 .. written /\ Starts[0] <= x
      BY <1>3, StartsAre
    <2>2. Owed(x, of, e, 0)'
      BY <1>8, <2>1 DEF Owed, Matches
    <2>3. QED
      BY <1>6, <2>1, <2>2
  <1>9. ASSUME pc' = "enter", s_resp' # <<>>,
               NEW n \in 1 .. Len(Requests), Starts[n] = x, s_resp' = Answers[n]
        PROVE  \E k : Tags(x, of, e, k)'
    <2>1. /\ n \in Nat /\ n # 0 /\ n - 1 \in 0 .. Len(Requests)
          /\ written \in 0 .. Len(Requests) /\ Starts[n - 1] < Starts[n]
          /\ Starts[n - 1] \in Nat /\ Starts[n] \in Nat /\ Starts[written] \in Nat
          /\ n \in 0 .. Len(Requests)
      BY <1>2, Stretches DEF WaySized
    <2>2. n \in 0 .. written
      <3>1. Starts[n - 1] < Starts[written]
        BY <1>9, <2>1
      <3>2. n - 1 < written
        BY <2>1, <3>1, Earlier
      <3>3. QED
        BY <1>3, <2>1, <3>2
    <2>3. ASSUME NEW a \in 0 .. written, Starts[a] <= P
          PROVE  a < n
      <3>1. a \in 0 .. Len(Requests) /\ Starts[a] < Starts[n]
        BY <1>3, <1>4, <1>9, <2>3
      <3>2. QED
        BY <2>1, <3>1, Earlier
    <2>4. e < n /\ \A i \in 1 .. Len(rcvd) : of[i] < n
      BY <1>3, <2>3 DEF Tags
    <2>5. Owed(x, of, e, n)'
      BY <1>1, <1>3, <1>9, <2>1, <2>4 DEF Owed, Matches
    <2>6. QED
      BY <1>6, <2>2, <2>5
  <1>10. QED
    BY <1>7, <1>8, <1>9 DEF AnswersAt

(* The steps that neither stage nor read a response, nor take a byte. *)
LEMMA TagsElse ==
  ASSUME IInv, IInv', NEW P, NEW of, NEW e, NEW r, Tags(P, of, e, r), [Next]_vars,
         ~ dispatch_byte, ~ send_stage, ~ (host_in /\ in_len > 0)
  PROVE  Tags(P, of, e, r)'
  <1> DEFINE Same ==
        /\ UNCHANGED <<rcvd, s_ep_in_buf>> /\ mishap \subseteq mishap'
        /\ written' = written \/ written' = written + 1
        /\ in_len' > 0 \/ pc' = "start" => in_len > 0 \/ pc = "start"
        /\ Unread' => Unread
        /\ pc' \in {"enter", "wait"} => pc \in {"enter", "wait"} /\ s_resp' = s_resp
  <1>1. ASSUME Same PROVE Tags(P, of, e, r)'
    <2>1. written \in 0 .. Len(Requests) /\ Len(Requests) \in Nat
      BY WayMeasured DEF WaySized
    <2>2. /\ P \in Nat /\ P <= P /\ r \in 0 .. written'
          /\ written \in Nat /\ written' \in Nat /\ written <= written'
      BY <1>1, <2>1 DEF Tags
    <2>3. \A n \in 0 .. written : Starts[n] \in Nat
      BY <2>1, StartsAre
    <2>4. Owed(P, of, e, r)'
      BY <1>1 DEF Tags, Owed, Matches
    <2>5. QED
      BY <1>1, <2>2, <2>3, <2>4, TagsStay
  <1>2. CASE dispatch_take \/ dispatch_empty
    BY <1>1, <1>2 DEF dispatch_take, dispatch_empty, Unread
  <1>3. CASE send_enter
    BY <1>1, <1>3 DEF send_enter, Unread
  <1>4. CASE send_start
    BY <1>1, <1>4 DEF send_start, Unread
  <1>5. CASE send_done \/ send_timeout
    BY <1>1, <1>5 DEF send_done, send_timeout, Unread
  <1>6. CASE exlink_ctrl_out_cb
    BY <1>1, <1>6 DEF exlink_ctrl_out_cb, Unread
  <1>7. CASE exlink_ctrl_in_cb
    BY <1>1, <1>7 DEF exlink_ctrl_in_cb, Unread
  <1>8. CASE BusReset \/ BusDisconnect
    BY <1>1, <1>8 DEF BusReset, BusDisconnect, SessionEnds, HostForgets, Unread
  <1>9. CASE usb_if_ctrl_on_configured
    BY <1>1, <1>9 DEF usb_if_ctrl_on_configured, Unread
  <1>10. CASE host_out_next \/ host_out_rest \/ host_out_empty
    BY <1>1, <1>10 DEF host_out_next, host_out_rest, host_out_empty, Unread
  <1>11. CASE host_in /\ ~ (in_len > 0)
    BY <1>1, <1>11 DEF host_in, Unread
  <1>12. CASE UNCHANGED vars
    BY <1>1, <1>12 DEF vars, Unread
  <1>13. QED
    BY <1>2, <1>3, <1>4, <1>5, <1>6, <1>7, <1>8, <1>9, <1>10, <1>11, <1>12
       DEF Next, Dispatch, Isr, Bus, Host

LEMMA HeardElse ==
  ASSUME IInv, IInv', NEW P, Heard(P), [Next]_vars, ~ dispatch_byte
  PROVE  Heard(P)'
  <1> DEFINE Same ==
        /\ UNCHANGED <<s_rx_ring, s_rx_head, s_rx_tail, s_parser, written>>
        /\ unsent' = unsent \/ unsent' = <<>>
        /\ \/ UNCHANGED <<out_ep, s_ep_out_buf>>
           \/ out_ep' # "done" \/ s_ep_out_buf' = <<>>
  <1>1. ASSUME Same PROVE Heard(P)'
    BY <1>1, HeardStays
  <1>2. CASE dispatch_take \/ dispatch_empty
    BY <1>1, <1>2 DEF dispatch_take, dispatch_empty
  <1>3. CASE send_enter \/ send_stage \/ send_start \/ send_done \/ send_timeout
    BY <1>1, <1>3 DEF send_enter, send_stage, send_start, send_done, send_timeout
  <1>4. CASE exlink_ctrl_out_cb
    BY <1>4, OutCbHeard
  <1>5. CASE exlink_ctrl_in_cb
    BY <1>1, <1>5 DEF exlink_ctrl_in_cb
  <1>6. CASE BusReset \/ BusDisconnect
    BY <1>1, <1>6 DEF BusReset, BusDisconnect, HostForgets
  <1>7. CASE usb_if_ctrl_on_configured
    BY <1>1, <1>7 DEF usb_if_ctrl_on_configured
  <1>8. CASE host_out_next \/ host_out_rest
    BY <1>8, HostHeard
  <1>9. CASE host_out_empty \/ host_in
    BY <1>1, <1>9 DEF host_out_empty, host_in
  <1>10. CASE UNCHANGED vars
    BY <1>1, <1>10 DEF vars
  <1>11. QED
    BY <1>2, <1>3, <1>4, <1>5, <1>6, <1>7, <1>8, <1>9, <1>10
       DEF Next, Dispatch, Isr, Bus, Host

LEMMA StepLossInv ==
  ASSUME NoPiecedFrame, IInv, IInv', LossInv, [Next]_vars
  PROVE  LossInv'
  <1>1. PICK P, of, e, r : Heard(P) /\ Tags(P, of, e, r)
    BY DEF LossInv
  <1>2. Calm /\ Calm'
    BY CalmStays DEF LossInv
  <1>3. ASSUME NEW Q, NEW to, NEW d, NEW k, Heard(Q)', Tags(Q, to, d, k)'
        PROVE  LossInv'
    BY <1>2, <1>3 DEF LossInv
  <1>4. CASE dispatch_byte
    <2>1. PICK x \in 1 .. Starts[written] :
            P \in Nat /\ P < x /\ Heard(x)' /\ AnswersAt(x)
      BY <1>1, <1>4, ByteHeard
    <2>2. PICK k : Tags(x, of, e, k)'
      BY <1>1, <1>4, <2>1, TagsByte
    <2>3. QED
      BY <1>3, <2>1, <2>2
  <1>5. CASE ~ dispatch_byte
    <2>1. Heard(P)'
      BY <1>1, <1>5, HeardElse
    <2>2. CASE send_stage
      BY <1>1, <1>2, <1>3, <2>1, <2>2, TagsStage
    <2>3. CASE host_in /\ in_len > 0
      BY <1>1, <1>2, <1>3, <2>1, <2>3, TagsRead
    <2>4. CASE ~ send_stage /\ ~ (host_in /\ in_len > 0)
      BY <1>1, <1>3, <1>5, <2>1, <2>4, TagsElse
    <2>5. QED
      BY <2>2, <2>3, <2>4
  <1>6. QED
    BY <1>4, <1>5

LEMMA AlwaysLossInv ==
  ASSUME NoPiecedFrame
  PROVE  Spec => []LossInv
  <1>1. IInv /\ IInv' /\ LossInv /\ [Next]_vars => LossInv'
    BY StepLossInv
  <1>2. QED
    BY <1>1, InitLossInv, AlwaysIInv, PTL DEF Spec

(* Whatever is lost, cut or delayed between the host and the thread, a     *)
(* response is an error or the answer to a request the host wrote, and     *)
(* they come in the order of the requests, each once, or again only after  *)
(* a session was cut: the parser resynchronises on the magic and rejects   *)
(* what it pieces together from two requests.  This holds for requests     *)
(* from which no loss can make another good frame, which is what the       *)
(* checksum is there for; how the host is paced, what it leaves unread and *)
(* how often the bus goes away do not matter.                              *)
THEOREM LossesNeverAnswered ==
  ASSUME NoPiecedFrame
  PROVE  Spec => []NoFalseAnswer
  <1>1. ASSUME LossInv PROVE NoFalseAnswer
    <2>1. PICK P, of, e, r : Tags(P, of, e, r)
      BY <1>1 DEF LossInv
    <2>2. of \in [1 .. Len(rcvd) -> 0 .. written]
      BY <2>1 DEF Tags
    <2>3. \A n \in 1 .. Len(rcvd) :
            IF of[n] = 0 THEN IsError(rcvd[n]) ELSE rcvd[n] = Answers[of[n]]
      BY <2>1 DEF Tags, Matches
    <2>4. ASSUME NEW m \in 1 .. Len(rcvd), NEW n \in 1 .. Len(rcvd),
                 m < n, of[m] # 0, of[n] # 0
          PROVE  of[m] < of[n] \/ (of[m] = of[n] /\ "torn" \in mishap)
      BY <2>1, <2>2, <2>4 DEF Tags
    <2>5. QED
      BY <2>2, <2>3, <2>4, Zenon DEF NoFalseAnswer
  <1>2. LossInv => NoFalseAnswer
    BY <1>1
  <1>3. QED
    BY <1>2, AlwaysLossInv, PTL
=============================================================================
