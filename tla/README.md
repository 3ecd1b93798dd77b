# ExLink verification project

ExLink is a USB debug probe: HPM5361 (one RISC-V core), RT-Thread, CherryUSB in
high-speed mode. This directory holds TLA+ models of its firmware, the TLC runs
that check them and the TLAPS proofs about them.

## 1. Inventory

Everything below runs on one core. The USB interrupt preempts all threads; the
frame-dispatch thread and the DAP engine thread have priority 12 (round robin),
the shell (msh) priority 20.

| Component | Source | State it keeps | Operations | Hard behaviour | What makes it correct |
|---|---|---|---|---|---|
| DAP v2 channel | `dap_engine.c`, `usb_if_dap.c` | request ring, semaphore, busy flag, EP2 buffers | submit (ISR), engine loop, blocking send, endpoint callbacks, reset/configured hooks | ISR against thread, time-outs against late completions, resets at any moment, ring at its limit | no lost wake-up, no stuck flag, slot and buffer never overwritten in use, responses framed and in command order, nothing dropped within the window |
| Frame parser | `frame_parser.c` | parser state, payload index, CRC | feed one byte, build a frame | resynchronisation, limits 0 and 4096 | every frame that begins while the parser hunts is judged once, at its last byte; what a rejected string held is gone with it, and at most one frame's worth of bytes; a built frame parses back |
| Command channel | `usb_if_ctrl.c`, `frame_dispatch.c` | 8192-byte ring, semaphore, busy flag, parser | OUT callback, getchar, dispatch, blocking send | ring full in the middle of a packet, reset in the middle of a frame, send result ignored | every request answered once or an error frame; no byte invented |
| CDC echo ports | `usb_if_uart.c` | busy flag per port, buffers | OUT/IN callbacks, hooks | packet arriving while the echo is in flight | echo in order, read always re-posted |
| DAP v1 HID | `usb_if_dapv1.c` | OUT buffer | OUT callback, configured hook | none (stub) | read always re-posted |
| USB assembly | `usb_device.c` | none | event broadcast | order of the hooks relative to the endpoints | every interface hears every event |
| Start-up | `main.c` | none | initialisation order, LED loop | USB live before the ring exists | |
| CMSIS-DAP commands | `cmsis-dap/arm/DAP.c` | `DAP_Data`, port mode | ProcessCommand, ExecuteCommand, transfers | posted reads, WAIT retries, failure inside a list | count and data reported match what the target executed |
| SWD over SPI | `cmsis-dap/port/dap_swd_spi.c` | cached drive direction, clock phase, SELECT cache | bit and byte transfers, connect, AP access | caches against resets, two threads | cached state equals hardware state |
| SWD diagnostics | `cmsis-dap/port/dap_swd_diag.c` | configuration of the shell | msh commands | second thread on the same SPI, cached SELECT, nested retry and poll loops | every access reaches the bank it names, a read collects its own value, every command ends |
| USB driver, RT-Thread, HPM SDK | vendored | | | | modelled only where the code above relies on it |

Interactions. USB host -> EP1 OUT -> byte ring -> dispatch thread -> parser ->
response -> EP1 IN. USB host -> EP2 OUT -> request ring -> engine thread ->
command processor -> SWD over SPI -> response -> EP2 IN. USB events RESET,
DISCONNECTED and CONFIGURED are broadcast by `usb_device.c` to the four
interfaces from the interrupt.

The hazards of this code, with their lines and the properties that cover them,
are in `PROJECT.json` under `hazards`.

## 2. Modules, and what could follow

| Part | Model | Promise | Proofs |
|---|---|---|---|
| DAP v2 channel | `DapLink`, `MCDapLink` | `CommandPipe`: an in-order server | `DapLinkProofs` |
| Frame protocol | `FrameCodec`, `FrameParser`, `MCFrameParser` | `FrameGrammar`, `FrameScanner`: recognition without an automaton | `FrameCodecProofs`, `FrameParserProofs` |
| Command channel | `CtrlLink` over `FrameCodec`, `MCCtrlLink` | | `CtrlLinkProofs` |
| Echo ports, v1 stub | `CdcEcho` | | `CdcEchoProofs` |
| Transfer commands | `SwdTransfer` | | `SwdTransferProofs` |
| Command processor | `DapCommand` | the CMSIS-DAP layout (`Laid`) | `DapCommandProofs` |
| Diagnostic shell | `DiagShell` | | `DiagShellProofs` |

`DapLink` calls the command processor as one step (`engine_execute`: some response
of at least one byte); `DapCommand` opens that step, and `SwdTransfer` opens the
transfer commands inside it, one access on the wire at a time. The split is sound
because the engine thread alone runs the command processor, on data the interrupt
does not touch (`SlotHeld` is exactly that); the shell, the one other user of the
wire, has a module of its own.

Every safety property and every refinement a passing run checks is also a theorem.
The liveness properties are TLC's alone: `SlotReleased`, `Answered` (three modules),
`Echoed`, `Drained`, `Ends`.

Not done, in the order in which it would be worth doing: the wire of
`dap_swd_spi.c` bit by bit, which has little control to check, since direction and phase are set from the two arguments of one function
and only a bring-up command (`swd_cfg 1`) makes the phases differ; the event
broadcast of `usb_device.c` as one module, which would only be a product: the
interfaces share the bus state and nothing else.

## 3. The DAP v2 channel

### Modules

* `DapLink.tla`: the channel. One action per handler or, in the engine thread, per
  stretch of code between two accesses to state the interrupt also touches.
* `CommandPipe.tla`: the promise: a first-in first-out server that may refuse a
  command when full and abandon an answer, and never reorders, repeats or invents.
* `MCDapLink.tla`: the refinement mapping from `DapLink` to `CommandPipe`; the
  three `.cfg` files give the constants.
* `DapLinkProofs.tla`: types, wake-ups, the flag, the buffers and the credit; then
  order, pairing and the refinement of `CommandPipe`.

### How the state corresponds

`s_req`, `s_req_head`, `s_req_tail`, `s_req_dropped`, `s_dap_sem`, `s_tx_busy`,
`s_dap_in_buf`, `s_dap_out_buf` and `s_last_send_ret` are the variables of those
names. A command is its number in the order the host wrote it, which is all the
properties tell apart; its response carries the number and a length from 1 to one
packet. `pc` is the place of the engine thread: `take` (before `rt_sem_take`),
`check` (the loop test), `exec`, `wait` (first wait of `usb_if_dap_send`), `start`
(flag raised, write not started), `sent` (second wait), `release` (before the tail
moves). `in_ep` and `out_ep` are the endpoints as the driver and the controller
keep them: `off` (closed), `idle`, `primed` (a transfer is posted), `done` (the
transfer is over and its interrupt pending). `sent`, `outstanding`, `rcvd`,
`in_open` belong to the host; `ends` and `mishap` are history: `torn`, a session
ended while the device had work in hand, and `late`, a send gave up waiting.

### How the actions correspond

| Action | Code |
|---|---|
| `dap_out_cb`, `dap_engine_submit` | OUT completion: submit or drop, post the next read |
| `dap_in_cb` | IN completion: empty packet after a full one, else lower the flag |
| `BusReset`, `BusDisconnect`, `usb_if_dap_on_configured` | driver and hooks; a reset closes the endpoints before the hook, a disconnection leaves them |
| `engine_take`, `engine_check`, `engine_execute`, `engine_release` | the engine loop |
| `send_stage`, `send_start`, `send_done`, `send_timeout` | `usb_if_dap_send` |
| `host_out`, `host_out_empty`, `host_in` | the host, external |

Assumptions about what is outside: the host selects a configuration once per bus
reset; it never has more than `Window` commands without a response in a session;
inside `usbd_ep_start_write` (vendored) no interrupt strikes; the interval between
the copy into the IN buffer and the raising of the flag is one step with it, since
an interrupt there can only lower a flag that is already low. The returns -1 and
-3 of the send and the empty response cannot occur for responses of 1 to 512
bytes. The time-out of 1000 polls is a choice that is open whenever the flag is up
and the host stalls (`HostStalls`) or there is no host; a host that polls answers
within it.

### Runs and bounds

| Run | Constants | Checks |
|---|---|---|
| `dap_session` | ring 2, window 2, packet 2, semaphore limit 2, 4 commands, 1 session end, stalls | invariants, slot and buffer action properties, release of slots |
| `dap_within` | ring 3, window 2, 5 commands, no session end, stalls | nothing dropped, pairing, every command answered, refinement of `CommandPipe` |
| `dap_overrun` | ring 2, window 2, 3 commands | violated: finding 1 |

Four and five commands wrap the ring of 3 and 4 slots; a packet of size 2 gives
both a short and a full response; a semaphore limit of 2 saturates. One session
end is enough for every state of the device to meet a reset or a disconnection,
and for a new session to inherit what was left. Deadlock is checked in the
session run and the others: the bus can always be reset, so none is expected.

Fairness: `FairSpec` is weak fairness of the engine thread (a priority-12 thread
that is ready does run: only the dispatch thread shares its priority, in round
robin) and of the two endpoint interrupts. `HostFairSpec` adds a host that keeps
reading, needed only for `Answered`.

### What the runs show

Within a session, and across sessions that end with nothing in hand, responses
come in command order and at most once, also after time-outs and drops
(`InOrder`); the flag is never left up (`NoOrphanBusy`); the thread never sleeps
over a command (`NoLostWakeup`); whatever the host does, a slot is given back
(`SlotReleased`). With a window below the ring size nothing is dropped, and the
channel implements `CommandPipe`.

**Finding 1** (`dap_overrun`). With the window the probe advertises
(`DAP_PACKET_COUNT` = 2) a command can be dropped: the slot is released only when
the blocking send has returned, up to a millisecond after the host has read the
response and may already have written its next command. The comment at
`dap_engine.c:27-30` sizes the ring so that this does not happen.
`DropsOnlyAtHandover` shows that it is the only way to lose a command.

### What is proved

For every value of the constants (`ConstantsAssumption`: sizes are positive
naturals), `DapLinkProofs` proves type correctness (`TypeCorrect`), `NoLostWakeup`,
`NoOrphanBusy`, `OutListening`, `SlotHeld`, `BufferHeld`, `Framed`, `Credited`, and
`NoOverrun` under `Window < DAP_PACKET_COUNT` (`RingNeverOverruns`),
`DropsOnlyAtHandover` under `Window <= DAP_PACKET_COUNT`.

`NoLostWakeup`, `NoOrphanBusy` and `OutListening` are inductive as they stand
(the first with the types). The others rest on `Inductive`:

* `SlotInUse`: while the engine works, head and tail differ. Without it a
  submission could write the slot being executed, since it writes at the head.
* `IdleOffBus`: a session that ended clean leaves the thread, the ring and the
  endpoints at rest. Without it a reset could leave the flag low during a transfer.
* `BusyCovers`: the flag is up from start to last completion, and a response is
  started only on a free endpoint.
* `OpenTransfer`: a transfer is open only while its empty packet is due.

`Credited` is the counting argument: packet on EP2 OUT + slots not yet answered +
response on EP2 IN never exceed the host's outstanding commands. A submission that
finds the ring full therefore needs the one slot the engine holds past its
response; with a window below the ring size there is none.

`Credited` and `Inductive` are theorems only and no run lists them.

Its second part proves `InOrder` (`ResponsesInOrder`), `Paired`
(`ResponsesPaired`) and, as long as no session is torn down with work in hand, the
refinement `PipeImplemented` (`ImplementsPipe`), all three for every size and
window. The argument is one lemma, `EveryStep`: while no session is torn down, a
step of the channel moves at most one command, and there are only seven ways
(`Moves`): nothing moves, one is written by the host, accepted by the ring, refused,
answered, given up, or read by the host. What the ring holds is described by its
length `N` and its elements `W(k)`, so that wrapping around (`Wrap`, `QueueGrows`,
`QueueLeaves`, `QueueReleased`) is dealt with once. Two invariants then follow move
by move: `Ordered`, the commands read, on EP2 IN, in the ring and on EP2 OUT come in
increasing order, all of them written; and `Numbered`, with nothing lost they are 1,
2, 3... without a gap. Neither holds for the responses read alone: the next one read
comes from the buffer, the buffer from the slot, the slot from EP2 OUT. `EveryStep`
needs `Staged` (between execution and start, the response is that of the command at
the tail) and `InOpened` (a configured device has EP2 IN open, so a start is
refused only after a reset). The refinement adds `Fresh`: a packet on EP2 OUT
holds the command written last.

Only model-checked: `SlotReleased` and `Answered` (liveness, out of the prover's
reach).

## 4. The command channel

### Modules

* `FrameCodec.tla`: `frame_parser.c` as operators: CRC-16/CCITT-FALSE,
  `exlink_frame_build`, `exlink_parser_init`, `exlink_parser_feed` (the parser after
  a byte; `FeedResult` is the value returned). A CRC register is the set of its
  one-bits; the payload received so far is a sequence, its length is `idx`. No
  RECURSIVE operator: eight nested applications for the bits of a byte, and a
  recursive function for the bytes of a buffer.
* `FrameParser.tla`: the parser fed one byte after the other.
* `FrameGrammar.tla`: which byte strings are frames, begin one, or are headers that
  announce too much (`Decided`, `Intact`, `LongestBeginning`), and the bytes a parser
  holds (`Pending`). Nothing in it knows the automaton's states but `Pending`.
* `FrameScanner.tla`: recognising frames without an automaton: keep the longest end
  of what was heard that may begin a frame, judge it when it is complete.
* `CtrlLink.tla`: `usb_if_ctrl.c` and the thread of `frame_dispatch.c`, over
  `FrameCodec` byte for byte, with a host that writes the frames of `Requests`.
* `FrameCodecProofs.tla`: checksum, builder and parser as functions of byte strings;
  `FrameParserProofs.tla`, `CtrlLinkProofs.tla`: theorems about the two machines.
* `MCFrameParser.tla`, `MCCtrlLink.tla`: the published check value of the CRC, and
  the requests of the runs.

### How state and actions correspond

The variables named after C variables are those variables. `pc` is the dispatch
thread: `take` (in `rt_sem_take`), `drain` (the inner loop), `enter`, `wait`,
`start`, `sent` (inside `usb_if_ctrl_send`, as in `DapLink`). `ret` is what the send
returned, which the thread ignores. The endpoints, the bus, `ends` and `mishap` are
as in `DapLink`; `written`, `unsent`, `outstanding`, `rcvd` are the host's.

| Action | Code |
|---|---|
| `exlink_ctrl_out_cb`, `rx_ring_put` | OUT completion: bytes to the ring up to the first that does not fit, semaphore, next read |
| `exlink_ctrl_in_cb` | IN completion: empty packet or flag down |
| `BusReset`, `BusDisconnect`, `usb_if_ctrl_on_configured` | driver and hooks |
| `dispatch_take`, `dispatch_empty`, `dispatch_byte` | the thread: 200 ms wait, `getchar` with the parser and the handlers |
| `send_enter` ... `send_timeout` | `usb_if_ctrl_send` |
| `host_out_next`, `host_out_rest`, `host_out_empty`, `host_in` | the host, external |

`usb_if_ctrl_rx_getchar`, the feed and the building of the answer are one step: the
interrupt writes only the head of the ring and only looks at the tail, and a tail
that moves earlier than it could only makes room. The returns -1 and -3 cannot occur
(a response is 7 to `EXLINK_MAX_FRAME` bytes). The semaphore is only a hint here:
the thread wakes every 200 ms in any case, which `dispatch_take` states.

### Runs and bounds

| Run | Constants | Checks |
|---|---|---|
| `frame_parser` | payload 0 to 2 bytes, alphabet 0, 2, 3, 75, 76 and the right checksums | the scanner is implemented; every built frame parses back; no stall longer than a frame |
| `ctrl_sync` | payload 5, packet 4, ring 13, five requests, one outstanding, one session end | no byte lost, answers pair with requests, every request answered |
| `ctrl_burst` | payload 5, packet 8, ring 12, three requests outstanding, stalls, one session end | no false answer, the ring is always emptied |

The alphabet holds both magic bytes (garbage, doubled magic, magic as operation,
length, payload and checksum), the largest length and the first impossible one. The
automaton has no other distinguished byte. In `ctrl_sync` the ring just holds the
largest frame of 12 bytes, as `usb_if_ctrl.c:28` requires of the real one, and the
answers to PING and to the largest ECHO are whole packets; in `ctrl_burst` three
frames of 8 bytes overrun a ring of 11 usable slots, so that frames are cut at
every place. The board name is left empty.

Fairness is that of `DapLink`: thread and interrupts in `FairSpec`; a host that
finishes its requests and reads in `HostFairSpec`, needed for `Answered`. With
`HostStalls = FALSE` a send gives up only when no session is configured.

### What the runs show

The automaton agrees with the scanner on every stream of the alphabet: a frame that
begins while it hunts is found, whatever came before, a stray magic byte included,
and none is recognised twice. That is not every frame there is: a string judged
`BAD_CRC` or `BAD_LEN` is dropped as a whole (`Judge` and `Reject` leave nothing
pending, as the parser goes back to `MAGIC0` at `frame_parser.c:134` and `:161`), so
a frame that began inside such a string is lost, its first bytes as body of the
other. `Flushable` bounds what can be lost that way. A host that waits for its
answers loses nothing, and its n-th response answers its n-th request, across
sessions that end with nothing in hand. A host that does not wait may lose requests
when the ring is full, but what it gets back is an error or the true answer to a
request it wrote, in order: frames put together from two others do not pass the
checksum.

A session cut between the first wait of the send and the start of the write is the
exception `NoFalseAnswer` makes: the reset lowers the flag just raised, and when the
next session is configured before the thread goes on, the old response is started
with the flag low; the send returns at once, the next response is written into the
buffer of the transfer under way, and the host can read the same response twice.

`usb_if_ctrl_send` returns 0 also when a reset or a disconnection lowered the flag
it waits for (`usb_if_ctrl.c:133-137`, `:180`), for a response nobody has read,
although `usb_if_ctrl.h:32-33` speaks of success after the frame is sent. Its only
caller ignores the value, so no property is about it.

### What is proved

**The parser as a function** (`FrameCodecProofs`, for every `EXLINK_MAX_PAYLOAD` from
0 to 65535, `MaxPayloadAssumption`; the code has 4096). The checksum is a recursion
over a byte string. The library's induction theorems take an operator and cannot be
used here, so the module starts from a set of naturals that holds 0 and with each
number the next (`SetInduction`), and shows once that a recursion over 0..N which
never leaves a set has a solution (`RecursionExists`).
From these follow what `exlink_crc16` is on a longer string, that a 16-bit register
and its two bytes determine each other, and the two theorems the rest uses:

* `FeedRecognises`: a parser is `Sound` when its running checksum is the checksum of
  the bytes it holds (`Pending`) and its length field is as far as it has been
  received. A byte keeps it sound and is judged as `FrameGrammar` judges the whole
  string: `OK` for a complete frame with the right checksum, `BAD_CRC` for any other
  complete one, `BAD_LEN` for a header that announces too much, `NONE` otherwise,
  and then it holds the longest end of the string that may begin a frame.
* `IntactIsBuilt`: a complete frame has the right checksum exactly when it is what
  `exlink_frame_build` makes of its opcode and payload.

**The parser on a stream** (`FrameParserProofs`, every alphabet of bytes,
`AlphabetAssumption`): `TypeCorrect`, with `PayloadNeverOverruns` as its part (the
write `p->payload[p->idx++]` stays inside the buffer; the invariant adds that until
the high byte of the length or of the checksum has come the field holds only the low
one, without which the check would be made on another number than the one received);
`ParserImplementsScanner` (the refinement, step by step from `FeedRecognises`);
`BuiltFramesAreTaken` (`RoundTrip`) and `NoFrameIsSwallowed` (`Flushable`), by
following a built frame, or the zero bytes, through the parser.

**The command channel** (`CtrlLinkProofs`, every size, board name, window and host,
`CtrlAssumption`). `TypeCorrect` rests on `Sound(s_parser)`, which bounds what the
parser can hand to the answer, and on `ResponseBuilt`: every answer fits the frame
buffer. The next two are about a `FramedHost`: its requests are strings the parser
decides on (whole frames, their checksums right or wrong, or headers that announce
too much), and the answer to PING can be built (36 bytes of payload at
`frame_dispatch.c:35`, the code allows 4096 at `frame_proto.h:49`).

* `ResponsesMatchRequests` (`AnswersPair`), whatever the window and the ring: until
  a session is cut with work in hand, a send gives up or a byte is lost, the n-th
  response is the answer to the n-th request.
* `RingNeverOverflows` (`NoByteLost`): if besides the ring holds as many bytes as the
  host keeps unanswered (`WithinRing`; for a host that waits for each answer that is
  the ring `usb_if_ctrl.c:28` asks for), no byte is lost.

Neither property is inductive: both speak of the end of a path that leads through
four places. The invariant `ChannelInv` says that, until a mishap or a loss, the
bytes the parser holds, the ring, the packet received and what the host has left to
write are together, in this order, exactly the bytes of the requests the thread has
not decided on (`Carries`, over `Starts`, where each request begins in the stream),
that the parser has not yet taken the whole of the first, and that the response in
the thread's hands is the answer to the one before it (`Paired`, `Thread`,
`Attached`). Four of the steps move bytes and change none (`CarriesKept`); one adds
a request at the end (`CarriesMore`); one takes a request away at the front, when
its last byte is decided on (`CarriesNext`), and there `AnswerIs` turns the parser's
verdict into the answer the property names. `AtRest` shows that a session that ends
quietly, half a frame nowhere, leaves nothing of the stream behind.

* `LossesNeverAnswered` (`NoFalseAnswer`), whatever the window and the ring, whatever
  is lost and wherever sessions are cut: a response is an error or the answer to a
  request that was written, in the order of the requests, and none is read twice
  unless a session was torn.

Whether a frame put together from the pieces of two passes a 16-bit checksum depends
on the requests, and for some it would. The hypothesis is therefore about what the
host writes, and about nothing the device does: `NoPiecedFrame`. `Scraps` follows the
requests as one `Stream` and collects, for every place in it, the byte strings a
parser can hold there when bytes were lost before, at the end of any packet or of
several in a row (a full ring drops the end of a packet, a cut session what was not
yet written; the next byte to arrive is the first of a packet). `NoPiecedFrame` says
that a complete frame made of such a string and the next byte is a request that ends
just there, or is answered with an error or not at all.

The invariant `LossInv` has three parts. `Heard`: every byte in the ring and in the
packet received has its place in the stream (`Traced`), the places grow, and leave
out bytes only up to the beginning of a packet (`Follows`); what the parser holds is
one of the `Scraps` at the place of the last byte it took. `Tags`: each response
read, staged or in hand has its request, which ends at that place or before, or
none, if it is an error; the requests do not go back along the responses read, the
one staged and the one in hand. A new answer belongs to a request that ends at the
byte just taken, behind all of these. `Calm`: unless a session was torn, a response
is staged only with the flag up and endpoint EP1 IN free, so the buffer is not
rewritten under the host's eyes; this is where the exception comes from. The last
response read may be the very one in the buffer, so the order is strict up to the
buffer only as long as what it holds has not been read (`Unread`). Bytes are moved by four kinds of step:
taken by the ring, some of them or all (`TraceShort`), taken by the parser
(`TraceShift`, `ScrapStep`, `ScrapJudged`), written by the host (`TraceLonger`), or
forgotten with the session.

TLC evaluates the hypotheses on the hosts of the runs (`ProvenHost` in
`MCCtrlLink`): `FramedHost` on both, `WithinRing` on the host that waits,
`NoPiecedFrame` on the one that does not.

Only model-checked: `Answered` and `Drained`, which are liveness.

## 5. The echo ports and the v1 stub

`CdcEcho.tla` holds both ports of `usb_if_uart.c` and the OUT endpoint of
`usb_if_dapv1.c`. `rx`, `tx`, `tx_busy` are the fields of `cdc_port_t`; `in_ep`,
`in_len`, `out_ep`, `bus` and `ends` are as in the other modules; `written`, `heard`
and `open` are the host's. A packet is its port, its number and its length.
`cdc_port_out` and `cdc_port_in` are the callbacks, served in any order when both
are pending. The result of `usbd_ep_start_write`, which the code ignores, is a
write that does not happen on a closed endpoint. Packets written while an echo is in
flight are dropped, as the comment at `usb_if_uart.c:46` says.

The run `cdc_echo` has packets of length 0, 1 and 2 (= packet size), two for each
port, and one session end. It shows that echoes come back on their own port, in
order, once, as separate transfers (`EchoInOrder`); that a packet reaching a port
with nothing on its IN endpoint is echoed whatever happened before, sessions cut in
the middle included, unless this session ends (`Echoed`). Two packets are enough for
one to be in flight while the next arrives; three were checked once and give the
same result in four minutes. Fairness: completions are served and the host reads.

`CdcEchoProofs` proves, for every packet size and any number of packets and
sessions, `TypeCorrect`, `AlwaysListening` (a configured device has a read posted or
completed on every OUT endpoint; the types already exclude an OUT endpoint left
idle) and `EchoesInOrder`. The invariant of the last is `PortOK` for each port:
`Numbered` (echo no newer than the packet received, and older when its interrupt is
pending), `Unheard` (an echo under way has not been heard), `Covered` (the flag is
up during a transfer, and an open transfer is about to be ended by an empty packet)
and the order itself. `Echoed` is liveness and stays with TLC.

## 6. The transfer commands

`SwdTransfer.tla` holds what the engine thread does inside `DAP_ProcessCommand` for
the commands that reach the target: `DAP_SWD_Transfer` (a list of accesses),
`DAP_SWD_TransferBlock`, `DAP_Dummy_Transfer` (no debug port connected),
`DAP_TransferConfigure` and `DAP_SWD_WriteAbort`, over `SWD_Transfer` of
`dap_swd_spi.c`. Nothing interrupts these commands (the shell runs at a lower priority; what the
engine does to it is the matter of section 8); what makes them hard is the target. An access port
answers late: a read returns the value of the read before it, and an error is
noticed only by a later access.

### State and actions

`post_read`, `check_write`, `retry`, `match_retry`, `data`, `response_count`,
`response_value` and `transfer` are the variables of those names; `left` is
`request_count`, `mismatch` the bit of `response_value` that is added to it, `i` the
place of the request at hand, `ptr` the bytes of the list read so far. `pc` names
the place in the code: a retry loop (`flush`, `post`, `read`, `poll`, `write`,
`drain`, `verify`, and three of the block command), `fetch` (head of the loop),
`start` (after the posted read, if any, is collected), `cancel` (the second loop).
A step is one access on the wire. `buf` and `sticky` are the target's: whose read is
in the read buffer, and whether an access port access went wrong; `log` and `waits`
are history. A value is the number of the request that read it, a register or a
bit pattern is left out, and whether a poll matches is a free choice.

| Actions | Code |
|---|---|
| `WaitAgain`, `Fail` | any retry loop: `while (response_value == WAIT && retry--)`, and its end without OK |
| `Fetch`, `Flush`, `Start`, `Post`, `Read`, `Poll`, `Write` | the loop over the requests (`DAP.c:721-900`) |
| `Cancel`, `Finish`, `Drain`, `Verify` | the cancelled requests, the last posted read or the check of the last write (`:902-939`) |
| `BlockPost`, `BlockRead`, `BlockWrite` | `DAP_SWD_TransferBlock` |
| `Respond` | the response is written and the command over |

`DAP_TransferAbort` is only ever cleared in this firmware (command 0x07 is answered
as invalid), so its tests are left out; the timestamps are compiled out. The target
(`Answers`, `Perform`, `Value`) is external: it may answer WAIT or nothing valid at
any time, spoil the parity of a read, and after an error answers FAULT to everything
but the DP reads that report errors.

### Runs and bounds

| Run | Constants | Checks |
|---|---|---|
| `swd_transfer` | all lists and blocks of 0 to 3 accesses, retry and match counts 0 and 1 | all properties |
| `swd_length` (violation) | lists of 0 to 2, no retries | `RequestLength` |

Three requests are the longest dependency the code has: a posted read, the request
that collects it, and what follows. A retry count of 1 has both outcomes of every
retry loop. `Answered` assumes weak fairness of the device only: the engine thread
runs a command to its end, and every retry is counted.

`ResultsInOrder` and `ResultsComplete` relate the data of the response to the list,
`Executed` the list and the count to what the target carried out. It states the
slack the protocol has: a failed response may leave one access carried out that it
does not count, two in a block of AP reads. `ErrorsSurface` says OK is never
reported while an error of the target is undetected, when the last access of the
command is a plain AP read or a write. It cannot be extended to lists that end in a
DP read, or in a poll: `check_write` is cleared by every read, and a DP read of
CTRL/STAT succeeds after a failed write. The host reads the error there itself.

**Finding 2** (`swd_length`). A list that fails reports a request length that is too
large (`DAP.c:902`): the failed request is passed over twice. The shortest traces
are lists of one request that fails at its own access. TLC's is as a rule an AP read
that fails where it is posted (`DAP.c:800-807`, left by the break at `:806`): one
byte long, and `ptr` ends at 2, or at 6 when the byte behind the list looks like a
write. Which acknowledge ends it, `WAIT`, `FAULT` or a wrong parity, and now and
then which request, depends on the order in which TLC's workers reach states of the
same depth; `-workers 1` gives the same trace each time. It matters inside an
ExecuteCommands packet (`DAP.c:1787`), where the next command is looked for there.

### What is proved

`SwdTransferProofs` proves `TypeCorrect`, `ResultsStayInOrder` and
`ResultsAreComplete` for every `MaxRequests`, every set of retry and match counts
(`TransferAssumption`: natural numbers, the defaults among them) and every behaviour
of the target. `ResultsInOrder` is not inductive: it does not say whose value the
read buffer holds. The invariant is `TypeOK`, `Counted` (at each place of the code,
how the request at hand, `request_count` and `response_count` add up to the length of
the list, which bounds the indices) and `Gathered` (at each place, the requests up to
which the data is collected: `Covers(n)`, or `Posted(n)` when the last plain read is
still in the read buffer and only requests without data follow it). `HoldsNext` and
`HoldsOn` are the two ways in which the collected part grows, `Collects` combines
them for a posted read; `Stopped` is what remains of the invariant after a failure.

The second part of the module carries the argument into the target, under the same assumptions:

* `PatienceBounded`: no access is tried more than the configured retries and once
  (`Patience`, which no run lists). Invariant `Tried`: the attempts made and the
  retry count left add up, at each retry loop.
* `ErrorsAlwaysSurface` (`ErrorsSurface`). Invariant `Checked`, made of `Watched(n)`:
  when the last access among the first n requests is one whose error comes late, a
  check is still due (`post_read` or `check_write`) or the target holds no error.
* `ExecutedAsCounted` (`Executed`). Invariant `CarriedOut`: at each place of the
  code the log of the target is the accesses of the list up to the request at hand,
  with or without the one under way (`Done(n)`); the slack of one or two accesses in
  the property is what remains of that after a failure.

`Answered` is liveness and is checked by TLC only.

## 7. The command processor

`DapCommand.tla` holds the dispatch of `arm/DAP.c`: a packet of one command or the
counted list of ExecuteCommands, one action for each handler, and the state they
leave behind: `debug_port`, the reset line `nreset`, the clock `sclk` as the divider
of the SPI makes it. Each handler ends in `Returns(c, taken, put)`: the numbers are
those its return expression has in the code, and they are compared with `Laid(c)`,
the CMSIS-DAP layout of the command. `astray` and `garbled` say whether the pointer
into the packet, or the response, has left the place where the host put the next
command or looks for the next answer. The sequence commands walk their sequences one
by one (`SequenceItem`): `request` and `response` are the pointers the code moves,
`request_count` and `response_count` what it returns, kept apart there as here. A
list of transfers that fails may return any length (finding 2). The commands of a
packet are chosen as the processor reaches them. JTAG, SWO, UART and atomic commands
are not compiled in: their handlers answer an error of the usual length, or the
command is unknown and taken for a single byte (`Invalid`).

| Run | Constants | Checks |
|---|---|---|
| `dap_command` | packets of 0 to 4 commands, sequence commands of 0 to 3 sequences, bit counts 0 (all), 1, 9, block counts 0, 2, clocks 0, 200 kHz, 1, 40, 100 MHz | `TypeOK`, `Aligned`, `NeverFaster` |
| `command_clock` | the same with clocks 1, 3, 40 MHz | `NeverFaster` violated: finding 3 |

Four commands put a command before and behind one that goes wrong or walks
sequences, and 0 is the empty list; three sequences mix reads and writes, and 0 has
none. Of the clocks of `dap_command`, 0 is refused by the handler, three are ones
the divider makes, the last is above the source; `command_clock` adds one the divider
does not make.

**Finding 3** (`command_clock`). A clock that does not divide the 80 MHz of the SPI
by an even number is refused by `spi_master_timing_init`, whose status
`dap_swd_spi_set_clock` ignores (`dap_swd_spi.c:275`); the host is told OK and the
wire keeps the clock it had, faster than asked for when a slower one was asked. The
comment at `DAP.c:426` says the frequency is really set in the hardware.

`DapCommandProofs` proves `TypeCorrect`; `CommandsAligned` (`Aligned`) for packets
and sequence commands of any length and any bit counts, from the invariant `Walk`
(inside a sequence command pointers and counts go together, and the command is still
counted, so the count never runs below zero); and `ClockNeverFaster` (`NeverFaster`)
under the assumption that every clock asked for is 0, at least the source, or one
the divider makes. Without it the theorem is false: that is finding 3.

Seen while reading, and of no consequence to a property: `PORT_OFF` leaves nRESET as
it is although `DAP_config.h:130` says released; the turnaround and data phase of
SWD_Configure are stored but the transport uses its own constants; DAP_Setup
announces a default of 1 MHz while the SPI starts at 10 MHz.

## 8. The diagnostic shell

`DiagShell.tla` holds the commands of `dap_swd_diag.c` that talk to the target, over
the register layer of `dap_swd_spi.c`: WAIT is retried (`swd_xfer_retry`), SELECT is
written only when the cached bank differs (`swd_select_ap`), an access port read is
collected from RDBUFF (`ap_read`, `Collect`), and the prologue connects, clears
errors, selects bank 0 and polls CTRL/STAT for power. `swd_id` stands for `swd_read`
and `swd_freq`, which make the same single access; `swd_raw` for the commands that
clock the wire without the protocol. `cmd`, `op` and `stage` are the place in the
code, `tries` and `polls` the two loop counts, `s_sel_cache` the variable of that
name. The target is external: it may wait, refuse, stay silent, spoil a read or a
write, be reset or lose its supply at any time.

The second actor is the host: its packets run in the engine thread and go past
`s_sel_cache`, so between two commands of the shell target and wire may be in any
state. Nothing locks the two threads against each other. `HostMayPreempt` says
whether the host is active while a command of the shell runs; the run and two
of the theorems take FALSE, the use the shell is made for (bring-up without a
debugger attached). With TRUE `ReachesBank` and `CollectsOwn` fail, as they must, and
no document promises more.

| Run | Constants | Checks |
|---|---|---|
| `diag_shell` | 3 retries, 3 polls, host silent during a command | `TypeOK`, `ReachesBank`, `CollectsOwn`, `Ends` |

Three tell the first, a middle and the last attempt of a loop apart. `Ends` assumes
weak fairness of the shell only: its thread (priority 20) runs because the dispatch
and engine threads block on their semaphores between two packets, and the LED loop,
of the same priority as the shell, sleeps.

`ReachesBank` is what the cache must do: an access the target carries out goes to
the bank its register is in. A write of SELECT that is spoilt leaves the cache
wrong, but then the target refuses until the next prologue; the raw commands and the
host leave it wrong too, and the prologue, which forgets the cache, comes before
every access port access. `DiagShellProofs` proves both properties for every number
of retries and polls (`BankReached`, `OwnCollected`, both assuming
`~ HostMayPreempt`) from `Coherent`, which says this at each step of a command, and
`Shape` (which steps have a bank to select or a value to collect). `TypeCorrect`
holds with either value of `HostMayPreempt`.

## 9. Not modelled

Vendored code (RT-Thread, CherryUSB, HPM SDK) beyond what the modules rely on: it is
nearly all of the repository's lines, and none of ExLink's own logic. Board files
and linker scripts; the USB descriptors; the debug counters and `dap_stat`. Of the
SWD transport, the bits on the wire, with the drive direction and clock phase of
each, and the pins; of the shell, the commands that set pins, clock or phase by hand
(`swd_pin`, `swd_drive`, `swd_clk`, `swd_rst`, `swd_trit`, `swd_cfg`), which have no
protocol to check. The window at start-up in which USB is live before the ring
exists: the host cannot enumerate that fast. A reset that strikes inside the vendored
driver, between its test of an endpoint and the programming of the controller.
