------------------------------ MODULE CtrlLink ------------------------------
(***************************************************************************)
(* The command channel of ExLink: usb_if_ctrl.c (endpoint EP1, byte ring,  *)
(* blocking send) and the dispatch thread of frame_dispatch.c, which feeds *)
(* the ring to the frame parser and answers every frame.                   *)
(*                                                                         *)
(* The interrupt, the dispatch thread and a host interleave as in DapLink. *)
(* The host writes the frames of Requests one after the other, cut into    *)
(* packets, with at most Window of them unanswered; a response is the byte *)
(* string exlink_frame_build makes of it, read as one transfer.            *)
(***************************************************************************)
EXTENDS FrameGrammar, Integers

CONSTANTS
  EXLINK_BULK_MPS,       \* bulk packet size
  EXLINK_RX_RING_SIZE,   \* slots of the byte ring, one of them kept empty
  RT_SEM_VALUE_MAX,      \* where an RT-Thread semaphore saturates
  BOARD_NAME,            \* the name PING reports, a byte string
  Requests,              \* the byte strings this host writes, in order
  Window,                \* requests it keeps unanswered
  HostStalls,            \* TRUE: the host may leave a response unread for 500 ms
  MaxSessionEnds         \* bound: bus resets and disconnections of a live session

ASSUME CtrlAssumption ==
  /\ EXLINK_MAX_PAYLOAD >= 1
  /\ EXLINK_BULK_MPS \in Nat \ {0}
  /\ EXLINK_RX_RING_SIZE \in Nat \ {0, 1}
  /\ RT_SEM_VALUE_MAX \in Nat \ {0}
  /\ BOARD_NAME \in Seq(Byte)
  /\ Requests \in Seq(Seq(Byte))
  /\ \A n \in 1 .. Len(Requests) : Requests[n] # <<>>
  /\ Window \in Nat \ {0}
  /\ HostStalls \in BOOLEAN
  /\ MaxSessionEnds \in Nat

RingIndex == 0 .. EXLINK_RX_RING_SIZE - 1

VARIABLES
  s_rx_ring,           \* the byte ring
  s_rx_head,           \* written by the interrupt
  s_rx_tail,           \* written by the dispatch thread
  s_rx_dropped,        \* packets cut short because the ring was full
  usb_if_ctrl_rx_sem,  \* value of the semaphore
  s_parser,            \* the dispatch thread's parser
  s_resp,              \* the response frame it has built
  pc,                  \* where the dispatch thread is
  ret,                 \* what its last usb_if_ctrl_send returned
  s_configured,        \* the interface is configured
  s_tx_busy,           \* a response is being sent
  s_ep_in_buf,         \* EP1 IN buffer
  s_ep_out_buf,        \* EP1 OUT buffer: the packet received
  in_ep,               \* EP1 IN: off, idle, primed, done (interrupt pending)
  in_len,              \* length of the transfer primed or done on EP1 IN
  out_ep,              \* EP1 OUT: off, idle, primed, done (interrupt pending)
  bus,                 \* down, default (reset, not configured), configured
  written,             \* host: requests begun
  unsent,              \* host: what is left to write of the last one
  outstanding,         \* host: requests of this session without a response
  rcvd,                \* host: responses read, in order
  ends,                \* history: live sessions that ended
  mishap               \* history: what has gone wrong outside the device

ringVars == <<s_rx_ring, s_rx_head, s_rx_dropped, usb_if_ctrl_rx_sem>>
dispVars == <<s_parser, s_resp>>
epVars   == <<in_ep, in_len, out_ep, bus, s_configured>>
hostVars == <<written, unsent, outstanding, rcvd>>
histVars == <<ends, mishap>>
vars == <<ringVars, s_rx_tail, dispVars, pc, ret, s_tx_busy, s_ep_in_buf, s_ep_out_buf,
          epVars, hostVars, histVars>>

TypeOK ==
  /\ s_rx_ring \in [RingIndex -> Byte]
  /\ s_rx_head \in RingIndex
  /\ s_rx_tail \in RingIndex
  /\ s_rx_dropped \in Nat
  /\ usb_if_ctrl_rx_sem \in 0 .. RT_SEM_VALUE_MAX
  /\ s_parser \in Parser /\ PayloadFits(s_parser)
  /\ s_resp \in Seq(Byte) /\ Len(s_resp) <= EXLINK_MAX_FRAME
  /\ pc \in {"take", "drain", "enter", "wait", "start", "sent"}
  /\ ret \in {0, -2, -4, -5, -6}
  /\ s_configured \in BOOLEAN
  /\ s_tx_busy \in BOOLEAN
  /\ s_ep_in_buf \in Seq(Byte) /\ Len(s_ep_in_buf) <= EXLINK_MAX_FRAME
  /\ s_ep_out_buf \in Seq(Byte) /\ Len(s_ep_out_buf) <= EXLINK_BULK_MPS
  /\ in_ep \in {"off", "idle", "primed", "done"}
  /\ in_len \in 0 .. EXLINK_MAX_FRAME
  /\ out_ep \in {"off", "idle", "primed", "done"}
  /\ bus \in {"down", "default", "configured"}
  /\ written \in 0 .. Len(Requests)
  /\ unsent \in Seq(Byte)
  /\ outstanding \in 0 .. Window
  /\ rcvd \in Seq(Seq(Byte))
  /\ ends \in 0 .. MaxSessionEnds
  /\ mishap \in SUBSET {"torn", "late"}

(* State after main() has run: usb_if_ctrl_add, parser initialised,        *)
(* nothing enumerated.                                                     *)
Init ==
  /\ s_rx_ring = [i \in RingIndex |-> 0]
  /\ s_rx_head = 0
  /\ s_rx_tail = 0
  /\ s_rx_dropped = 0
  /\ usb_if_ctrl_rx_sem = 0
  /\ s_parser = exlink_parser_init
  /\ s_resp = <<>>
  /\ pc = "take"
  /\ ret = 0
  /\ s_configured = FALSE
  /\ s_tx_busy = FALSE
  /\ s_ep_in_buf = <<>>
  /\ s_ep_out_buf = <<>>
  /\ in_ep = "off"
  /\ in_len = 0
  /\ out_ep = "off"
  /\ bus = "down"
  /\ written = 0
  /\ unsent = <<>>
  /\ outstanding = 0
  /\ rcvd = <<>>
  /\ ends = 0
  /\ mishap = {}

----------------------------------------------------------------------------
(* The byte ring.                                                          *)

Succ(i) == (i + 1) % EXLINK_RX_RING_SIZE

InRing == (s_rx_head + EXLINK_RX_RING_SIZE - s_rx_tail) % EXLINK_RX_RING_SIZE

(* How many bytes of a packet the ring takes: the loop stops at the first  *)
(* byte that finds it full.                                                *)
Room_twoSpare == EXLINK_RX_RING_SIZE - 2 - InRing
Room == EXLINK_RX_RING_SIZE - 1 - InRing

rx_ring_put(packet) ==
  LET n == Min({Len(packet), Room})
  IN  /\ s_rx_ring' = [i \in RingIndex |->
                         LET k == (i + EXLINK_RX_RING_SIZE - s_rx_head) % EXLINK_RX_RING_SIZE
                         IN  IF k < n THEN packet[k + 1] ELSE s_rx_ring[i]]
      /\ s_rx_head' = (s_rx_head + n) % EXLINK_RX_RING_SIZE
      /\ s_rx_dropped' = IF n < Len(packet) THEN s_rx_dropped + 1 ELSE s_rx_dropped

SemRelease ==
  usb_if_ctrl_rx_sem' = Min({usb_if_ctrl_rx_sem + 1, RT_SEM_VALUE_MAX})

----------------------------------------------------------------------------
(* The USB interrupt.                                                      *)

exlink_ctrl_out_cb ==
  /\ out_ep = "done"
  /\ IF s_ep_out_buf # <<>> THEN rx_ring_put(s_ep_out_buf) /\ SemRelease
                            ELSE UNCHANGED ringVars
  /\ out_ep' = "primed"
  /\ UNCHANGED <<s_rx_tail, dispVars, pc, ret, s_tx_busy, s_ep_in_buf, s_ep_out_buf,
                 in_ep, in_len, bus, s_configured, hostVars, histVars>>

NeedsEmptyPacket_always(len) == len % EXLINK_BULK_MPS = 0
NeedsEmptyPacket(len) == len > 0 /\ len % EXLINK_BULK_MPS = 0

exlink_ctrl_in_cb ==
  /\ in_ep = "done"
  /\ IF NeedsEmptyPacket(in_len)
       THEN in_ep' = "primed" /\ in_len' = 0 /\ UNCHANGED s_tx_busy
       ELSE in_ep' = "idle" /\ s_tx_busy' = FALSE /\ UNCHANGED in_len
  /\ UNCHANGED <<ringVars, s_rx_tail, dispVars, pc, ret, s_ep_in_buf, s_ep_out_buf,
                 out_ep, bus, s_configured, hostVars, histVars>>

(* Nothing of the session is in hand, half a frame included.               *)
Quiet ==
  /\ pc \in {"take", "drain"}
  /\ s_rx_head = s_rx_tail
  /\ s_parser.state = "MAGIC0"
  /\ in_ep \notin {"primed", "done"}
  /\ out_ep # "done"

SessionEnds ==
  IF bus = "configured"
    THEN /\ ends < MaxSessionEnds
         /\ ends' = ends + 1
         /\ mishap' = IF Quiet THEN mishap ELSE mishap \cup {"torn"}
    ELSE UNCHANGED histVars

usb_if_ctrl_on_reset == s_configured' = FALSE /\ s_tx_busy' = FALSE

(* The host starts over; it does not finish a request of the old session.  *)
HostForgets ==
  /\ outstanding' = 0
  /\ unsent' = <<>>
  /\ UNCHANGED <<written, rcvd>>

(* Bus reset: endpoints forgotten, then the hook.  The ring, the parser    *)
(* and the dispatch thread are left as they are.                           *)
BusReset ==
  /\ SessionEnds
  /\ usb_if_ctrl_on_reset
  /\ in_ep' = "off"
  /\ out_ep' = "off"
  /\ bus' = "default"
  /\ HostForgets
  /\ UNCHANGED <<ringVars, s_rx_tail, dispVars, pc, ret, s_ep_in_buf, s_ep_out_buf,
                 in_len>>

BusDisconnect ==
  /\ bus # "down"
  /\ SessionEnds
  /\ usb_if_ctrl_on_reset
  /\ bus' = "down"
  /\ HostForgets
  /\ UNCHANGED <<ringVars, s_rx_tail, dispVars, pc, ret, s_ep_in_buf, s_ep_out_buf,
                 in_ep, in_len, out_ep>>

usb_if_ctrl_on_configured ==
  /\ bus = "default"
  /\ bus' = "configured"
  /\ s_configured' = TRUE
  /\ s_tx_busy' = FALSE
  /\ in_ep' = "idle"
  /\ out_ep' = "primed"
  /\ UNCHANGED <<ringVars, s_rx_tail, dispVars, pc, ret, s_ep_in_buf, s_ep_out_buf,
                 in_len, hostVars, histVars>>

----------------------------------------------------------------------------
(* Answers.                                                                *)

EXLINK_OP_PING  == 1
EXLINK_OP_ECHO  == 2
EXLINK_OP_ERROR == 255
NotImplemented  == {16, 17, 32, 33, 48, 49, 64, 128}

EXLINK_ERR_BAD_CRC         == 1
EXLINK_ERR_BAD_LEN         == 3
EXLINK_ERR_UNKNOWN_OP      == 4
EXLINK_ERR_NOT_IMPLEMENTED == 5

build_error(err) == exlink_frame_build(EXLINK_OP_ERROR, <<err>>, EXLINK_MAX_FRAME)

(* Protocol version 1.0, firmware version 0.1, the board's name cut to     *)
(* what the 36-byte payload leaves, and a zero.                            *)
handle_ping ==
  LET name == SubSeq(BOARD_NAME, 1, Min({Len(BOARD_NAME), 31}))
  IN  exlink_frame_build(EXLINK_OP_PING, <<0, 1, 0, 1>> \o name \o <<0>>, EXLINK_MAX_FRAME)

exlink_dispatch(op, payload) ==
  CASE op = EXLINK_OP_PING   -> handle_ping
    [] op = EXLINK_OP_ECHO   -> exlink_frame_build(op, payload, EXLINK_MAX_FRAME)
    [] op \in NotImplemented -> build_error(EXLINK_ERR_NOT_IMPLEMENTED)
    [] OTHER                 -> build_error(EXLINK_ERR_UNKNOWN_OP)

(* The response to what exlink_parser_feed returned; nothing for NONE.     *)
Response(parser, result) ==
  CASE result = "OK"      -> exlink_dispatch(parser.op, parser.payload)
    [] result = "BAD_CRC" -> build_error(EXLINK_ERR_BAD_CRC)
    [] result = "BAD_LEN" -> build_error(EXLINK_ERR_BAD_LEN)
    [] result = "NONE"    -> <<>>

----------------------------------------------------------------------------
(* The dispatch thread.                                                    *)

(* rt_sem_take with 200 ms to wait: the thread goes on with or without a   *)
(* token.                                                                  *)
dispatch_take ==
  /\ pc = "take"
  /\ usb_if_ctrl_rx_sem' = IF usb_if_ctrl_rx_sem > 0 THEN usb_if_ctrl_rx_sem - 1 ELSE 0
  /\ pc' = "drain"
  /\ UNCHANGED <<s_rx_ring, s_rx_head, s_rx_dropped, s_rx_tail, dispVars, ret, s_tx_busy,
                 s_ep_in_buf, s_ep_out_buf, epVars, hostVars, histVars>>

(* usb_if_ctrl_rx_getchar finds the ring empty. *)
dispatch_empty ==
  /\ pc = "drain"
  /\ s_rx_tail = s_rx_head
  /\ pc' = "take"
  /\ UNCHANGED <<ringVars, s_rx_tail, dispVars, ret, s_tx_busy, s_ep_in_buf, s_ep_out_buf,
                 epVars, hostVars, histVars>>

(* It finds a byte, which goes to the parser; a verdict is answered.  The  *)
(* interrupt only looks at the tail, so getchar and feed are one step.     *)
dispatch_byte ==
  /\ pc = "drain"
  /\ s_rx_tail # s_rx_head
  /\ s_rx_tail' = Succ(s_rx_tail)
  /\ LET b      == s_rx_ring[s_rx_tail]
         result == FeedResult(s_parser, b)
         answer == Response(s_parser', result)
     IN  /\ s_parser' = exlink_parser_feed(s_parser, b)
         /\ s_resp' = IF result = "NONE" THEN s_resp ELSE answer
         /\ pc' = IF answer = <<>> THEN "drain" ELSE "enter"
  /\ UNCHANGED <<ringVars, ret, s_tx_busy, s_ep_in_buf, s_ep_out_buf, epVars, hostVars, histVars>>

(* usb_if_ctrl_send: refused on an unconfigured interface. *)
send_enter ==
  /\ pc = "enter"
  /\ IF s_configured THEN pc' = "wait" /\ UNCHANGED ret
                     ELSE pc' = "drain" /\ ret' = -2
  /\ UNCHANGED <<ringVars, s_rx_tail, dispVars, s_tx_busy, s_ep_in_buf, s_ep_out_buf,
                 epVars, hostVars, histVars>>

(* First wait over: copy the response, raise the flag. *)
send_stage ==
  /\ pc = "wait"
  /\ ~ s_tx_busy
  /\ s_ep_in_buf' = s_resp
  /\ s_tx_busy' = TRUE
  /\ pc' = "start"
  /\ UNCHANGED <<ringVars, s_rx_tail, dispVars, ret, s_ep_out_buf, epVars, hostVars, histVars>>

(* usbd_ep_start_write: refused when a reset has closed the endpoint.      *)
send_start ==
  /\ pc = "start"
  /\ IF in_ep = "off"
       THEN /\ s_tx_busy' = FALSE
            /\ ret' = -5
            /\ pc' = "drain"
            /\ UNCHANGED <<in_ep, in_len>>
       ELSE /\ in_ep' = "primed"
            /\ in_len' = Len(s_resp)
            /\ pc' = "sent"
            /\ UNCHANGED <<s_tx_busy, ret>>
  /\ UNCHANGED <<ringVars, s_rx_tail, dispVars, s_ep_in_buf, s_ep_out_buf, out_ep, bus,
                 s_configured, hostVars, histVars>>

(* Second wait over: the flag has been lowered. *)
send_done ==
  /\ pc = "sent"
  /\ ~ s_tx_busy
  /\ ret' = 0
  /\ pc' = "drain"
  /\ UNCHANGED <<ringVars, s_rx_tail, dispVars, s_tx_busy, s_ep_in_buf, s_ep_out_buf,
                 epVars, hostVars, histVars>>

send_timeout_firstWaitOnly ==
  /\ pc = "wait"
  /\ s_tx_busy
  /\ HostStalls \/ bus # "configured"
  /\ ret' = -4
  /\ pc' = "drain"
  /\ mishap' = mishap \cup {"late"}
  /\ UNCHANGED <<ringVars, s_rx_tail, dispVars, s_tx_busy, s_ep_in_buf, s_ep_out_buf,
                 epVars, hostVars, ends>>

(* Either wait gives up after 500 polls of 1 ms. *)
send_timeout ==
  /\ pc \in {"wait", "sent"}
  /\ s_tx_busy
  /\ HostStalls \/ bus # "configured"
  /\ ret' = IF pc = "wait" THEN -4 ELSE -6
  /\ pc' = "drain"
  /\ mishap' = mishap \cup {"late"}
  /\ UNCHANGED <<ringVars, s_rx_tail, dispVars, s_tx_busy, s_ep_in_buf, s_ep_out_buf,
                 epVars, hostVars, ends>>

----------------------------------------------------------------------------
(* The host.                                                               *)

Packet(bytes) == SubSeq(bytes, 1, Min({Len(bytes), EXLINK_BULK_MPS}))
Rest(bytes)   == SubSeq(bytes, EXLINK_BULK_MPS + 1, Len(bytes))

OutReady == bus = "configured" /\ out_ep = "primed"

(* It writes the next packet of its request, or the first of the next one. *)
host_out_next ==
  /\ OutReady
  /\ unsent = <<>>
  /\ written < Len(Requests)
  /\ outstanding < Window
  /\ written' = written + 1
  /\ outstanding' = outstanding + 1
  /\ s_ep_out_buf' = Packet(Requests[written + 1])
  /\ unsent' = Rest(Requests[written + 1])
  /\ out_ep' = "done"
  /\ UNCHANGED <<ringVars, s_rx_tail, dispVars, pc, ret, s_tx_busy, s_ep_in_buf, in_ep,
                 in_len, bus, s_configured, rcvd, histVars>>

host_out_rest ==
  /\ OutReady
  /\ unsent # <<>>
  /\ s_ep_out_buf' = Packet(unsent)
  /\ unsent' = Rest(unsent)
  /\ out_ep' = "done"
  /\ UNCHANGED <<ringVars, s_rx_tail, dispVars, pc, ret, s_tx_busy, s_ep_in_buf, in_ep,
                 in_len, bus, s_configured, written, outstanding, rcvd, histVars>>

(* An empty packet, as after a request of whole packets. *)
host_out_empty ==
  /\ OutReady
  /\ unsent = <<>>
  /\ s_ep_out_buf' = <<>>
  /\ out_ep' = "done"
  /\ UNCHANGED <<ringVars, s_rx_tail, dispVars, pc, ret, s_tx_busy, s_ep_in_buf, in_ep,
                 in_len, bus, s_configured, hostVars, histVars>>

(* It reads the transfer primed on EP1 IN. *)
host_in ==
  /\ bus = "configured"
  /\ in_ep = "primed"
  /\ in_ep' = "done"
  /\ IF in_len > 0
       THEN /\ rcvd' = Append(rcvd, s_ep_in_buf)
            /\ outstanding' = IF outstanding > 0 THEN outstanding - 1 ELSE 0
       ELSE UNCHANGED <<rcvd, outstanding>>
  /\ UNCHANGED <<ringVars, s_rx_tail, dispVars, pc, ret, s_tx_busy, s_ep_in_buf,
                 s_ep_out_buf, in_len, out_ep, bus, s_configured, written, unsent,
                 histVars>>

----------------------------------------------------------------------------
Dispatch ==
  \/ dispatch_take \/ dispatch_empty \/ dispatch_byte
  \/ send_enter \/ send_stage \/ send_start \/ send_done \/ send_timeout

Isr  == exlink_ctrl_out_cb \/ exlink_ctrl_in_cb
Bus  == BusReset \/ BusDisconnect \/ usb_if_ctrl_on_configured
Host == host_out_next \/ host_out_rest \/ host_out_empty \/ host_in

Next == Dispatch \/ Isr \/ Bus \/ Host

Spec == Init /\ [][Next]_vars

(* Fairness: a ready thread of this priority runs, interrupts are raised.  *)
FairSpec ==
  /\ Spec
  /\ WF_vars(Dispatch)
  /\ WF_vars(exlink_ctrl_out_cb)
  /\ WF_vars(exlink_ctrl_in_cb)

(* ... and the host finishes the requests it begins and reads responses.   *)
HostFairSpec == FairSpec /\ WF_vars(host_in) /\ WF_vars(host_out_rest)

----------------------------------------------------------------------------
(* Properties.                                                             *)

(* What a request is answered with, a whole frame or an impossible header. *)
Answer(request) ==
  LET op      == request[3]
      payload == SubSeq(request, EXLINK_HEADER_LEN + 1, Len(request) - EXLINK_CRC_LEN)
  IN  CASE request[4] + 256 * request[5] > EXLINK_MAX_PAYLOAD ->
             build_error(EXLINK_ERR_BAD_LEN)
        [] request = exlink_frame_build(op, payload, EXLINK_MAX_FRAME) ->
             exlink_dispatch(op, payload)
        [] OTHER -> build_error(EXLINK_ERR_BAD_CRC)

Answers == [n \in 1 .. Len(Requests) |-> Answer(Requests[n])]

IsError(response) == response[3] = EXLINK_OP_ERROR

(* The answer to PING is built when the payload holds the name.            *)
PingFits == 5 + Min({Len(BOARD_NAME), 31}) <= EXLINK_MAX_PAYLOAD

(* A host whose requests the parser decides on, PING among them.           *)
FramedHost == PingFits /\ \A n \in 1 .. Len(Requests) : Decided(Requests[n])

(* The bytes of the first n requests.                                      *)
Starts ==
  LET at[n \in 0 .. Len(Requests)] == IF n = 0 THEN 0 ELSE at[n - 1] + Len(Requests[n])
  IN  at

(* One that keeps no more unanswered than the ring holds.                  *)
WithinRing ==
  \A m, n \in 0 .. Len(Requests) :
    m <= n /\ n <= m + Window => Starts[n] - Starts[m] < EXLINK_RX_RING_SIZE

(* The requests as one stream of bytes, and where in it a packet begins.   *)
Stream ==
  [x \in 1 .. Starts[Len(Requests)] |->
     LET n == CHOOSE n \in 1 .. Len(Requests) : Starts[n - 1] < x /\ x <= Starts[n]
     IN  Requests[n][x - Starts[n - 1]]]

PacketAfter(x) ==
  \E n \in 1 .. Len(Requests) : \E k \in 0 .. Len(Requests[n]) :
    k * EXLINK_BULK_MPS < Len(Requests[n]) /\ x = Starts[n - 1] + k * EXLINK_BULK_MPS

(* What a parser that holds s keeps of it and the next byte.               *)
Kept(s, b) ==
  LET t == Append(s, b)
  IN  IF TooLong(t) \/ Complete(t) THEN <<>> ELSE LongestBeginning(t)

(* What it may hold after byte x of the stream when bytes were lost before *)
(* it: a loss ends where a packet begins.  `last' is with byte x taken     *)
(* last, `ever' with byte x or any byte before it.                         *)
Before(scraps, x) == IF PacketAfter(x - 1) THEN scraps.ever ELSE scraps.last

Scraps ==
  LET after[x \in 0 .. Starts[Len(Requests)]] ==
        IF x = 0 THEN [last |-> {<<>>}, ever |-> {<<>>}]
        ELSE LET prior == after[x - 1]
                 now   == {Kept(s, Stream[x]) : s \in Before(prior, x)}
             IN  [last |-> now, ever |-> prior.ever \cup now]
  IN  after

(* Requests the checksum protects: whatever is lost of them, a frame put   *)
(* together from what is left is one of them or answered with an error.    *)
NoPiecedFrame ==
  \A x \in 1 .. Starts[Len(Requests)] : \A s \in Before(Scraps[x - 1], x) :
    LET t == Append(s, Stream[x])
    IN  Complete(t) => \/ Answer(t) = <<>> \/ IsError(Answer(t))
                       \/ \E n \in 1 .. Len(Requests) : Starts[n] = x /\ Requests[n] = t

(* A host that waits for each answer loses no byte of a request, as long   *)
(* as the ring can hold the largest one (usb_if_ctrl.c:28): the thread has *)
(* emptied the ring before it answers.                                     *)
NoByteLost == mishap = {} => s_rx_dropped = 0

(* With no mishap and no loss the n-th response is the answer to the n-th  *)
(* request.                                                                *)
AnswersPair ==
  mishap = {} /\ s_rx_dropped = 0
    => \A n \in 1 .. Len(rcvd) : rcvd[n] = Answers[n]

(* Whatever was lost, cut or delayed, every response but an error is the   *)
(* answer to a request that was written, and they come in the order of the *)
(* requests, each at most once: the checksum keeps frames put together     *)
(* from the pieces of two from being answered.  Only a session cut while   *)
(* the thread stood between its wait and its send can have the same        *)
(* response read twice: the reset lowers the flag of a send not begun.     *)
NoFalseAnswer ==
  \E of \in [1 .. Len(rcvd) -> 0 .. written] :
    /\ \A n \in 1 .. Len(rcvd) :
         IF of[n] = 0 THEN IsError(rcvd[n]) ELSE rcvd[n] = Answers[of[n]]
    /\ \A m, n \in 1 .. Len(rcvd) : m < n /\ of[m] # 0 /\ of[n] # 0
         => of[m] < of[n] \/ (of[m] = of[n] /\ "torn" \in mishap)

(* The thread empties the ring again whatever the host does: the send it   *)
(* may be in gives up.                                                     *)
Drained == (s_rx_head # s_rx_tail) ~> (s_rx_head = s_rx_tail)

(* Every request a host with one outstanding begins is answered, or a      *)
(* mishap has come in between.                                             *)
Answered ==
  \A n \in 1 .. Len(Requests) : (written >= n) ~> (Len(rcvd) >= n \/ mishap # {})
============================================================================
