------------------------------ MODULE DapLink ------------------------------
(***************************************************************************)
(* The CMSIS-DAP v2 channel of ExLink: usb_if_dap.c (endpoint EP2), the    *)
(* request ring and engine thread of dap_engine.c, the part of the USB     *)
(* device driver they rely on, and a host that keeps at most Window        *)
(* commands outstanding.                                                   *)
(*                                                                         *)
(* Three actors share the state on one core:                               *)
(*  - the USB interrupt runs the endpoint callbacks and the RESET,         *)
(*    DISCONNECTED and CONFIGURED hooks; it preempts the thread, so each   *)
(*    callback is one atomic action;                                       *)
(*  - the engine thread takes the semaphore, executes the command in its   *)
(*    ring slot and sends the response, one action for each stretch of     *)
(*    code between two accesses to state the interrupt also touches;       *)
(*  - the host puts packets on EP2 OUT and fetches them from EP2 IN.       *)
(*                                                                         *)
(* A command is its number 1, 2, 3... in the order the host wrote them;    *)
(* the response to command n is represented by n and its length.           *)
(***************************************************************************)
EXTENDS Naturals, Integers, Sequences

CONSTANTS
  DAP_PACKET_COUNT,  \* commands the probe tells the host it can hold
  EXLINK_BULK_MPS,   \* bulk packet size, also the largest response
  RT_SEM_VALUE_MAX,  \* where an RT-Thread semaphore saturates
  Window,            \* commands this host keeps outstanding
  HostStalls,        \* TRUE: the host may leave a response unread for 1 s
  MaxReq,            \* bound: commands the host writes
  MaxSessionEnds     \* bound: bus resets and disconnections of a live session

ASSUME ConstantsAssumption ==
  /\ DAP_PACKET_COUNT \in Nat \ {0}
  /\ EXLINK_BULK_MPS \in Nat \ {0}
  /\ RT_SEM_VALUE_MAX \in Nat \ {0}
  /\ Window \in Nat \ {0}
  /\ HostStalls \in BOOLEAN
  /\ MaxReq \in Nat
  /\ MaxSessionEnds \in Nat

(* Definitions named <definition>_<what> are mutated forms: a bug the code  *)
(* could plausibly have had.  No specification uses them; substituted for  *)
(* the definition, each makes a property fail that holds of the code.      *)
DAP_REQ_SLOTS_noSpare == DAP_PACKET_COUNT

(* One slot is kept empty to tell a full ring from an empty one. *)
DAP_REQ_SLOTS == DAP_PACKET_COUNT + 1

Index == 0 .. DAP_REQ_SLOTS - 1
None  == 0                                \* no command
Cmd   == 0 .. MaxReq                      \* None or a command's number

VARIABLES
  s_req,            \* request slots (dap_engine.c)
  s_req_head,       \* written by the interrupt
  s_req_tail,       \* written by the engine thread
  s_req_dropped,    \* commands that found the ring full
  s_dap_sem,        \* value of the engine's semaphore
  pc,               \* where the engine thread is
  s_resp,           \* the response it has built: command and length
  s_last_send_ret,  \* result of its last usb_if_dap_send
  s_tx_busy,        \* usb_if_dap.c: a response is being sent
  s_dap_in_buf,     \* EP2 IN buffer: the command whose response it holds
  s_dap_out_buf,    \* EP2 OUT buffer: the command received, None if empty
  in_ep,            \* EP2 IN: off, idle, primed, done (interrupt pending)
  in_len,           \* length of the packet primed or done on EP2 IN
  out_ep,           \* EP2 OUT: off, idle, primed, done (interrupt pending)
  bus,              \* down, default (reset, not configured), configured
  sent,             \* host: commands written
  outstanding,      \* host: commands of this session without a response
  rcvd,             \* host: responses read, in order
  in_open,          \* host: the last data packet did not end its transfer
  ends,             \* history: live sessions that ended
  mishap            \* history: what has gone wrong outside the device

ringVars == <<s_req, s_req_head, s_req_dropped, s_dap_sem>>
sendVars == <<s_resp, s_last_send_ret>>
epVars   == <<in_ep, in_len, out_ep, bus>>
hostVars == <<sent, outstanding, rcvd, in_open>>
vars == <<s_req, s_req_head, s_req_tail, s_req_dropped, s_dap_sem, pc, s_resp,
          s_last_send_ret, s_tx_busy, s_dap_in_buf, s_dap_out_buf, in_ep,
          in_len, out_ep, bus, sent, outstanding, rcvd, in_open, ends, mishap>>

TypeOK ==
  /\ s_req \in [Index -> Cmd]
  /\ s_req_head \in Index
  /\ s_req_tail \in Index
  /\ s_req_dropped \in Nat
  /\ s_dap_sem \in 0 .. RT_SEM_VALUE_MAX
  /\ pc \in {"take", "check", "exec", "wait", "start", "sent", "release"}
  /\ s_resp \in [cmd : Cmd, len : 0 .. EXLINK_BULK_MPS]
  /\ s_last_send_ret \in {0, -4, -5, -6}
  /\ s_tx_busy \in BOOLEAN
  /\ s_dap_in_buf \in Cmd
  /\ s_dap_out_buf \in Cmd
  /\ in_ep \in {"off", "idle", "primed", "done"}
  /\ in_len \in 0 .. EXLINK_BULK_MPS
  /\ out_ep \in {"off", "idle", "primed", "done"}
  /\ bus \in {"down", "default", "configured"}
  /\ sent \in Cmd
  /\ outstanding \in 0 .. Window
  /\ rcvd \in Seq(Cmd)
  /\ in_open \in BOOLEAN
  /\ ends \in 0 .. MaxSessionEnds
  /\ mishap \in SUBSET {"torn", "late"}

(* State after main() has run: interface registered, ring and semaphore    *)
(* initialised, thread started, nothing enumerated.                        *)
Init ==
  /\ s_req = [i \in Index |-> None]
  /\ s_req_head = 0
  /\ s_req_tail = 0
  /\ s_req_dropped = 0
  /\ s_dap_sem = 0
  /\ pc = "take"
  /\ s_resp = [cmd |-> None, len |-> 0]
  /\ s_last_send_ret = 0
  /\ s_tx_busy = FALSE
  /\ s_dap_in_buf = None
  /\ s_dap_out_buf = None
  /\ in_ep = "off"
  /\ in_len = 0
  /\ out_ep = "off"
  /\ bus = "down"
  /\ sent = 0
  /\ outstanding = 0
  /\ rcvd = <<>>
  /\ in_open = FALSE
  /\ ends = 0
  /\ mishap = {}

----------------------------------------------------------------------------
(* The request ring and its semaphore.                                     *)

Succ_noWrap(i) == i + 1
Succ(i) == (i + 1) % DAP_REQ_SLOTS

RingFull == Succ(s_req_head) = s_req_tail

(* Slots in use, and whether the oldest of them is that of a response      *)
(* already handed to the endpoint, or given up.                            *)
Count == IF s_req_head >= s_req_tail THEN s_req_head - s_req_tail
                                     ELSE s_req_head + DAP_REQ_SLOTS - s_req_tail
Held  == IF pc \in {"sent", "release"} THEN 1 ELSE 0

SemRelease_missing == UNCHANGED s_dap_sem

SemRelease ==
  s_dap_sem' = IF s_dap_sem < RT_SEM_VALUE_MAX THEN s_dap_sem + 1 ELSE s_dap_sem

dap_engine_submit_noReturn(cmd) ==
  /\ s_req_dropped' = IF RingFull THEN s_req_dropped + 1 ELSE s_req_dropped
  /\ s_req' = [s_req EXCEPT ![s_req_head] = cmd]
  /\ s_req_head' = Succ(s_req_head)
  /\ SemRelease

(* Producer, called from the OUT callback: a full ring counts and drops.   *)
dap_engine_submit(cmd) ==
  \/ /\ RingFull
     /\ s_req_dropped' = s_req_dropped + 1
     /\ UNCHANGED <<s_req, s_req_head, s_dap_sem>>
  \/ /\ ~ RingFull
     /\ s_req' = [s_req EXCEPT ![s_req_head] = cmd]
     /\ s_req_head' = Succ(s_req_head)
     /\ SemRelease
     /\ UNCHANGED s_req_dropped

----------------------------------------------------------------------------
(* The USB interrupt.                                                      *)

dap_out_cb_rearmsAfterData ==
  /\ out_ep = "done"
  /\ IF s_dap_out_buf # None THEN dap_engine_submit(s_dap_out_buf)
                             ELSE UNCHANGED ringVars
  /\ out_ep' = IF s_dap_out_buf # None THEN "primed" ELSE "idle"
  /\ UNCHANGED <<s_req_tail, pc, sendVars, s_tx_busy, s_dap_in_buf, s_dap_out_buf,
                 in_ep, in_len, bus, hostVars, ends, mishap>>

(* A packet has arrived on EP2 OUT: submit it unless it is empty, then     *)
(* listen again.                                                           *)
dap_out_cb ==
  /\ out_ep = "done"
  /\ IF s_dap_out_buf # None THEN dap_engine_submit(s_dap_out_buf)
                             ELSE UNCHANGED ringVars
  /\ out_ep' = "primed"
  /\ UNCHANGED <<s_req_tail, pc, sendVars, s_tx_busy, s_dap_in_buf, s_dap_out_buf,
                 in_ep, in_len, bus, hostVars, ends, mishap>>

dap_in_cb_noEmptyPacket ==
  /\ in_ep = "done"
  /\ s_tx_busy' = FALSE
  /\ in_ep' = "idle"
  /\ UNCHANGED <<ringVars, s_req_tail, pc, sendVars, s_dap_in_buf, s_dap_out_buf,
                 in_len, out_ep, bus, hostVars, ends, mishap>>

NeedsEmptyPacket(len) == len > 0 /\ len % EXLINK_BULK_MPS = 0

(* A packet has left on EP2 IN: a full-size one is followed by a           *)
(* zero-length packet, any other ends the transfer.                        *)
dap_in_cb ==
  /\ in_ep = "done"
  /\ IF NeedsEmptyPacket(in_len)
       THEN /\ in_ep' = "primed"
            /\ in_len' = 0
            /\ UNCHANGED s_tx_busy
       ELSE /\ s_tx_busy' = FALSE
            /\ in_ep' = "idle"
            /\ UNCHANGED in_len
  /\ UNCHANGED <<ringVars, s_req_tail, pc, sendVars, s_dap_in_buf, s_dap_out_buf,
                 out_ep, bus, hostVars, ends, mishap>>

(* The device has no command, response or packet of the session in hand.   *)
Quiet ==
  /\ pc = "take"
  /\ s_req_head = s_req_tail
  /\ in_ep \notin {"primed", "done"}
  /\ out_ep # "done"

(* History: a live session ends, possibly with work in hand.               *)
SessionEnds ==
  IF bus = "configured"
    THEN /\ ends < MaxSessionEnds
         /\ ends' = ends + 1
         /\ mishap' = IF Quiet THEN mishap ELSE mishap \cup {"torn"}
    ELSE UNCHANGED <<ends, mishap>>

usb_if_dap_on_reset == s_tx_busy' = FALSE

(* Bus reset: the driver forgets every endpoint before the hook runs.  The *)
(* request ring, the semaphore and the engine thread are left as they are. *)
BusReset ==
  /\ SessionEnds
  /\ usb_if_dap_on_reset
  /\ in_ep' = "off"
  /\ out_ep' = "off"
  /\ bus' = "default"
  /\ outstanding' = 0
  /\ in_open' = FALSE
  /\ UNCHANGED <<ringVars, s_req_tail, pc, sendVars, s_dap_in_buf, s_dap_out_buf,
                 in_len, sent, rcvd>>

(* Loss of the bus: only the hook runs, the endpoints stay as they were.   *)
BusDisconnect ==
  /\ bus # "down"
  /\ SessionEnds
  /\ usb_if_dap_on_reset
  /\ bus' = "down"
  /\ outstanding' = 0
  /\ in_open' = FALSE
  /\ UNCHANGED <<ringVars, s_req_tail, pc, sendVars, s_dap_in_buf, s_dap_out_buf,
                 in_ep, in_len, out_ep, sent, rcvd>>

(* The host selects the configuration: endpoints opened, OUT read posted.  *)
usb_if_dap_on_configured ==
  /\ bus = "default"
  /\ bus' = "configured"
  /\ s_tx_busy' = FALSE
  /\ in_ep' = "idle"
  /\ out_ep' = "primed"
  /\ UNCHANGED <<ringVars, s_req_tail, pc, sendVars, s_dap_in_buf, s_dap_out_buf,
                 in_len, hostVars, ends, mishap>>

----------------------------------------------------------------------------
(* The engine thread.                                                      *)

(* rt_sem_take(.., RT_WAITING_FOREVER).                                    *)
engine_take ==
  /\ pc = "take"
  /\ s_dap_sem > 0
  /\ s_dap_sem' = s_dap_sem - 1
  /\ pc' = "check"
  /\ UNCHANGED <<s_req, s_req_head, s_req_tail, s_req_dropped, sendVars, s_tx_busy,
                 s_dap_in_buf, s_dap_out_buf, epVars, hostVars, ends, mishap>>

(* The test of the draining loop.                                          *)
engine_check ==
  /\ pc = "check"
  /\ pc' = IF s_req_tail # s_req_head THEN "exec" ELSE "take"
  /\ UNCHANGED <<ringVars, s_req_tail, sendVars, s_tx_busy, s_dap_in_buf,
                 s_dap_out_buf, epVars, hostVars, ends, mishap>>

(* DAP_ExecuteCommand reads the command in its slot and builds a response  *)
(* of one byte to one packet; only a non-empty one is sent.                *)
engine_execute ==
  /\ pc = "exec"
  /\ \E len \in 1 .. EXLINK_BULK_MPS :
       /\ s_resp' = [cmd |-> s_req[s_req_tail], len |-> len]
       /\ pc' = IF len > 0 THEN "wait" ELSE "release"
  /\ UNCHANGED <<ringVars, s_req_tail, s_last_send_ret, s_tx_busy, s_dap_in_buf,
                 s_dap_out_buf, epVars, hostVars, ends, mishap>>

send_stage_noWait ==
  /\ pc = "wait"
  /\ s_dap_in_buf' = s_resp.cmd
  /\ s_tx_busy' = TRUE
  /\ pc' = "start"
  /\ UNCHANGED <<ringVars, s_req_tail, sendVars, s_dap_out_buf, epVars, hostVars,
                 ends, mishap>>

(* usb_if_dap_send, first wait over: copy the response, raise the flag.    *)
(* Between the two the interrupt could only lower a flag already low.      *)
send_stage ==
  /\ pc = "wait"
  /\ ~ s_tx_busy
  /\ s_dap_in_buf' = s_resp.cmd
  /\ s_tx_busy' = TRUE
  /\ pc' = "start"
  /\ UNCHANGED <<ringVars, s_req_tail, sendVars, s_dap_out_buf, epVars, hostVars,
                 ends, mishap>>

send_start_leavesBusy ==
  /\ pc = "start"
  /\ IF in_ep = "off"
       THEN /\ s_last_send_ret' = -5
            /\ pc' = "release"
            /\ UNCHANGED <<in_ep, in_len>>
       ELSE /\ in_ep' = "primed"
            /\ in_len' = s_resp.len
            /\ pc' = "sent"
            /\ UNCHANGED s_last_send_ret
  /\ UNCHANGED <<ringVars, s_req_tail, s_resp, s_tx_busy, s_dap_in_buf, s_dap_out_buf,
                 out_ep, bus, hostVars, ends, mishap>>

(* usbd_ep_start_write: refused when a reset has closed the endpoint.      *)
send_start ==
  /\ pc = "start"
  /\ IF in_ep = "off"
       THEN /\ s_tx_busy' = FALSE
            /\ s_last_send_ret' = -5
            /\ pc' = "release"
            /\ UNCHANGED <<in_ep, in_len>>
       ELSE /\ in_ep' = "primed"
            /\ in_len' = s_resp.len
            /\ pc' = "sent"
            /\ UNCHANGED <<s_tx_busy, s_last_send_ret>>
  /\ UNCHANGED <<ringVars, s_req_tail, s_resp, s_dap_in_buf, s_dap_out_buf, out_ep,
                 bus, hostVars, ends, mishap>>

(* Second wait over: the flag has been lowered.                            *)
send_done ==
  /\ pc = "sent"
  /\ ~ s_tx_busy
  /\ s_last_send_ret' = 0
  /\ pc' = "release"
  /\ UNCHANGED <<ringVars, s_req_tail, s_resp, s_tx_busy, s_dap_in_buf, s_dap_out_buf,
                 epVars, hostVars, ends, mishap>>

send_timeout_firstWaitOnly ==
  /\ pc = "wait"
  /\ s_tx_busy
  /\ HostStalls \/ bus # "configured"
  /\ s_last_send_ret' = -4
  /\ pc' = "release"
  /\ mishap' = mishap \cup {"late"}
  /\ UNCHANGED <<ringVars, s_req_tail, s_resp, s_tx_busy, s_dap_in_buf, s_dap_out_buf,
                 epVars, hostVars, ends>>

(* Either wait gives up after 1000 polls of 1 ms, and the response is left *)
(* unsent (-4) or on the endpoint (-6).  It takes a host that stalls, or   *)
(* no host at all.                                                         *)
send_timeout ==
  /\ pc \in {"wait", "sent"}
  /\ s_tx_busy
  /\ HostStalls \/ bus # "configured"
  /\ s_last_send_ret' = IF pc = "wait" THEN -4 ELSE -6
  /\ pc' = "release"
  /\ mishap' = mishap \cup {"late"}
  /\ UNCHANGED <<ringVars, s_req_tail, s_resp, s_tx_busy, s_dap_in_buf, s_dap_out_buf,
                 epVars, hostVars, ends>>

engine_release_retriesFailedSend ==
  /\ pc = "release"
  /\ s_req_tail' = IF s_last_send_ret < 0 THEN s_req_tail ELSE Succ(s_req_tail)
  /\ pc' = "check"
  /\ UNCHANGED <<ringVars, sendVars, s_tx_busy, s_dap_in_buf, s_dap_out_buf, epVars,
                 hostVars, ends, mishap>>

engine_release_skipsBacklog ==
  /\ pc = "release"
  /\ s_req_tail' = s_req_head
  /\ pc' = "check"
  /\ UNCHANGED <<ringVars, sendVars, s_tx_busy, s_dap_in_buf, s_dap_out_buf, epVars,
                 hostVars, ends, mishap>>

(* The slot is given back only now, after the blocking send.               *)
engine_release ==
  /\ pc = "release"
  /\ s_req_tail' = Succ(s_req_tail)
  /\ pc' = "check"
  /\ UNCHANGED <<ringVars, sendVars, s_tx_busy, s_dap_in_buf, s_dap_out_buf, epVars,
                 hostVars, ends, mishap>>

----------------------------------------------------------------------------
(* The host.                                                               *)

(* It writes its next command when the window and the endpoint allow.      *)
host_out ==
  /\ bus = "configured"
  /\ out_ep = "primed"
  /\ sent < MaxReq
  /\ outstanding < Window
  /\ sent' = sent + 1
  /\ outstanding' = outstanding + 1
  /\ s_dap_out_buf' = sent + 1
  /\ out_ep' = "done"
  /\ UNCHANGED <<ringVars, s_req_tail, pc, sendVars, s_tx_busy, s_dap_in_buf, in_ep,
                 in_len, bus, rcvd, in_open, ends, mishap>>

(* It may also write an empty packet. *)
host_out_empty ==
  /\ bus = "configured"
  /\ out_ep = "primed"
  /\ s_dap_out_buf' = None
  /\ out_ep' = "done"
  /\ UNCHANGED <<ringVars, s_req_tail, pc, sendVars, s_tx_busy, s_dap_in_buf, in_ep,
                 in_len, bus, hostVars, ends, mishap>>

(* It reads the packet primed on EP2 IN, straight from the buffer.         *)
host_in ==
  /\ bus = "configured"
  /\ in_ep = "primed"
  /\ in_ep' = "done"
  /\ in_open' = (in_len = EXLINK_BULK_MPS)
  /\ IF in_len > 0
       THEN /\ rcvd' = Append(rcvd, s_dap_in_buf)
            /\ outstanding' = IF outstanding > 0 THEN outstanding - 1 ELSE 0
       ELSE UNCHANGED <<rcvd, outstanding>>
  /\ UNCHANGED <<ringVars, s_req_tail, pc, sendVars, s_tx_busy, s_dap_in_buf,
                 s_dap_out_buf, in_len, out_ep, bus, sent, ends, mishap>>

----------------------------------------------------------------------------
Engine ==
  \/ engine_take \/ engine_check \/ engine_execute
  \/ send_stage \/ send_start \/ send_done \/ send_timeout
  \/ engine_release

Isr == dap_out_cb \/ dap_in_cb

Bus == BusReset \/ BusDisconnect \/ usb_if_dap_on_configured

Host == host_out \/ host_out_empty \/ host_in

Next == Engine \/ Isr \/ Bus \/ Host

Spec == Init /\ [][Next]_vars

(* Fairness: the scheduler runs a ready thread of this priority and the    *)
(* controller raises its interrupts.                                       *)
FairSpec ==
  /\ Spec
  /\ WF_vars(Engine)
  /\ WF_vars(dap_out_cb)
  /\ WF_vars(dap_in_cb)

(* ... and the host keeps polling EP2 IN. *)
HostFairSpec == FairSpec /\ WF_vars(host_in)

----------------------------------------------------------------------------
(* Properties.                                                             *)

(* A command waiting in the ring always wakes the thread: the thread never *)
(* blocks on a zero semaphore with a command queued, although the          *)
(* semaphore saturates and one take may drain several commands             *)
(* (dap_engine.c: release in submit, take and drain loop in entry).        *)
NoLostWakeup == pc = "take" /\ s_req_head # s_req_tail => s_dap_sem > 0

(* The busy flag is up only while something will lower it: the thread is   *)
(* about to start the transfer, or EP2 IN has a packet whose completion is *)
(* still to come.  Otherwise every later response would time out           *)
(* (usb_if_dap.c: s_tx_busy, also across resets and the empty packet).     *)
NoOrphanBusy == s_tx_busy => pc = "start" \/ in_ep \in {"primed", "done"}

(* While configured the device always listens on EP2 OUT, dropped and      *)
(* empty packets included, so the host's writes never block for good.      *)
OutListening == bus = "configured" => out_ep \in {"primed", "done"}

(* The engine works on the command in its slot, not on a copy: no step     *)
(* overwrites the slot from the time it is read to the time it is released *)
(* (dap_engine.c: one slot kept empty, tail advanced last).                *)
InUse == pc \in {"exec", "wait", "start", "sent", "release"}
SlotHeld == [][InUse => s_req'[s_req_tail] = s_req[s_req_tail]]_vars

(* The IN buffer is not rewritten while the controller may still read it,  *)
(* after a send that timed out included, unless a session was torn down    *)
(* with work in hand (usb_if_dap.c: both waits on s_tx_busy).              *)
BufferHeld ==
  [][("torn" \notin mishap /\ in_ep = "primed" /\ in_len > 0)
       => s_dap_in_buf' = s_dap_in_buf]_vars

(* A response of a whole packet is closed by an empty packet before the    *)
(* next response starts, so the host never reads two as one transfer.      *)
Framed ==
  "torn" \notin mishap /\ in_ep = "primed" /\ in_len > 0 => ~ in_open

(* Responses reach the host in the order of their commands and at most     *)
(* once, whatever was dropped or timed out in between.                     *)
InOrder ==
  "torn" \notin mishap
    => \A i, j \in 1 .. Len(rcvd) : i < j => rcvd[i] < rcvd[j]

(* With no mishap and no drop the n-th response answers the n-th command,  *)
(* which is how a CMSIS-DAP host pairs them.                               *)
Paired ==
  mishap = {} /\ s_req_dropped = 0 => \A i \in 1 .. Len(rcvd) : rcvd[i] = i

(* The ring holds every command of a host that keeps within its window     *)
(* (dap_engine.c:27-30 promises this for Window = DAP_PACKET_COUNT).       *)
NoOverrun == "torn" \notin mishap => s_req_dropped = 0

(* A command of a host that keeps to DAP_PACKET_COUNT is dropped only in   *)
(* the hand-over: the engine still holds the slot of a command whose       *)
(* response is no longer on the endpoint.                                  *)
DropsOnlyAtHandover ==
  [][(s_req_dropped' # s_req_dropped /\ "torn" \notin mishap)
       => /\ pc \in {"sent", "release"}
          /\ ~ (in_ep = "primed" /\ in_len > 0)]_vars

(* Every command the device has in hand is one its host still waits for:   *)
(* the packet on EP2 OUT, the slots not yet answered and the response on   *)
(* EP2 IN never outnumber the host's outstanding commands.  This is the    *)
(* credit the window bounds, and why a small window cannot overrun.        *)
Arrived  == IF out_ep = "done" /\ s_dap_out_buf # None THEN 1 ELSE 0
OnWire   == IF in_ep = "primed" /\ in_len > 0 THEN 1 ELSE 0
Credited ==
  "torn" \notin mishap => Arrived + (Count - Held) + OnWire <= outstanding

(* What the properties above rest on, stated so that it is inductive.      *)
(* A slot the engine works on is a slot in use; a session that ended       *)
(* without tearing anything down leaves the device idle; while no session  *)
(* was torn down the flag covers the whole transfer, a response is started *)
(* only on a free endpoint, and a transfer of whole packets is still open  *)
(* only while its empty packet is due.                                     *)
SlotInUse == InUse => s_req_head # s_req_tail

IdleOffBus ==
  "torn" \notin mishap /\ bus # "configured"
    => /\ pc \in {"take", "check"}
       /\ s_req_head = s_req_tail
       /\ in_ep \in {"off", "idle"}
       /\ out_ep # "done"

BusyCovers ==
  "torn" \notin mishap
    => /\ in_ep \in {"primed", "done"} => s_tx_busy
       /\ pc = "start" => s_tx_busy /\ in_ep \notin {"primed", "done"}

OpenTransfer ==
  "torn" \notin mishap /\ in_open
    => \/ in_ep = "done" /\ in_len = EXLINK_BULK_MPS
       \/ in_ep = "primed" /\ in_len = 0

Inductive == SlotInUse /\ IdleOffBus /\ BusyCovers /\ OpenTransfer

(* Whatever the host does, the engine gives back the slot of a queued      *)
(* command: the two bounded waits of usb_if_dap_send keep it from being    *)
(* stuck behind a response nobody reads.                                   *)
SlotReleased ==
  \A i \in Index : (s_req_tail = i /\ s_req_head # i) ~> (s_req_tail # i)

(* Every command written is answered, or a mishap has come in between.     *)
Answered ==
  \A n \in 1 .. MaxReq : (sent >= n) ~> (Len(rcvd) >= n \/ mishap # {})
============================================================================
