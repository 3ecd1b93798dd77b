------------------------------ MODULE CdcEcho -------------------------------
(***************************************************************************)
(* The two virtual serial ports of ExLink, which echo what they receive    *)
(* (usb_if_uart.c), and the CMSIS-DAP v1 interface, which swallows it      *)
(* (usb_if_dapv1.c).  There is no thread: everything runs in the USB       *)
(* interrupt, but the completions of a port's two endpoints may be served  *)
(* in either order, and a host reads and writes at any time.               *)
(*                                                                         *)
(* A packet is the port it was written to, its number there and its        *)
(* length; the echo of an empty packet does not exist.                     *)
(***************************************************************************)
EXTENDS Naturals, Sequences

CONSTANTS
  EXLINK_BULK_MPS,   \* bulk packet size
  MaxPackets,        \* bound: packets the host writes to each port
  MaxSessionEnds     \* bound: bus resets and disconnections of a live session

ASSUME EchoAssumption ==
  /\ EXLINK_BULK_MPS \in Nat \ {0}
  /\ MaxPackets \in Nat
  /\ MaxSessionEnds \in Nat

Port     == {1, 2}
Packet   == [port : Port, n : 0 .. MaxPackets, len : 0 .. EXLINK_BULK_MPS]
Endpoint == {"off", "idle", "primed", "done"}

VARIABLES
  rx,         \* per port: OUT buffer
  tx,         \* per port: IN buffer
  tx_busy,    \* per port: an echo is being sent
  in_ep,      \* per port: off, idle, primed, done (interrupt pending)
  in_len,     \* per port: length of the transfer on the IN endpoint
  out_ep,     \* per port: the same for the OUT endpoint
  hid_out_ep, \* the OUT endpoint of the v1 interface
  bus,        \* down, default (reset, not configured), configured
  written,    \* host: number of the last packet written to each port
  heard,      \* host: per port, the echoes read and whether each came in the
              \*   middle of a transfer
  open,       \* host: per port, the last packet read did not end its transfer
  ends        \* history: live sessions that ended

devVars  == <<rx, tx, tx_busy, in_ep, in_len, out_ep>>
hostVars == <<written, heard, open>>
vars     == <<devVars, hid_out_ep, bus, hostVars, ends>>

TypeOK ==
  /\ rx \in [Port -> Packet]
  /\ tx \in [Port -> Packet]
  /\ tx_busy \in [Port -> BOOLEAN]
  /\ in_ep \in [Port -> Endpoint]
  /\ in_len \in [Port -> 0 .. EXLINK_BULK_MPS]
  /\ out_ep \in [Port -> Endpoint \ {"idle"}]
  /\ hid_out_ep \in Endpoint \ {"idle"}
  /\ bus \in {"down", "default", "configured"}
  /\ written \in [Port -> 0 .. MaxPackets]
  /\ heard \in [Port -> Seq([packet : Packet, joined : BOOLEAN])]
  /\ open \in [Port -> BOOLEAN]
  /\ ends \in 0 .. MaxSessionEnds

NoPacket(p) == [port |-> p, n |-> 0, len |-> 0]

(* s_cdc and the buffers as the program starts; nothing enumerated.        *)
Init ==
  /\ rx = [p \in Port |-> NoPacket(p)]
  /\ tx = [p \in Port |-> NoPacket(p)]
  /\ tx_busy = [p \in Port |-> FALSE]
  /\ in_ep = [p \in Port |-> "off"]
  /\ in_len = [p \in Port |-> 0]
  /\ out_ep = [p \in Port |-> "off"]
  /\ hid_out_ep = "off"
  /\ bus = "down"
  /\ written = [p \in Port |-> 0]
  /\ heard = [p \in Port |-> <<>>]
  /\ open = [p \in Port |-> FALSE]
  /\ ends = 0

(* Definitions named <definition>_<what> are mutated forms: see DapLink.   *)

----------------------------------------------------------------------------
(* The USB interrupt.                                                      *)

EchoTaken_whenBusy(p) == rx[p].len > 0
EchoTaken(p) == rx[p].len > 0 /\ ~ tx_busy[p]

ListenAgain_afterEcho(p) ==
  out_ep' = [out_ep EXCEPT ![p] = IF EchoTaken(p) THEN "primed" ELSE "off"]
ListenAgain(p) == out_ep' = [out_ep EXCEPT ![p] = "primed"]

(* A packet has arrived: echo it unless it is empty or the echo before it  *)
(* is under way, then listen again.                                        *)
cdc_port_out(p) ==
  /\ out_ep[p] = "done"
  /\ IF EchoTaken(p)
       THEN /\ tx' = [tx EXCEPT ![p] = rx[p]]
            /\ tx_busy' = [tx_busy EXCEPT ![p] = TRUE]
            /\ IF in_ep[p] = "off"
                 THEN UNCHANGED <<in_ep, in_len>>
                 ELSE /\ in_ep' = [in_ep EXCEPT ![p] = "primed"]
                      /\ in_len' = [in_len EXCEPT ![p] = rx[p].len]
       ELSE UNCHANGED <<tx, tx_busy, in_ep, in_len>>
  /\ ListenAgain(p)
  /\ UNCHANGED <<rx, hid_out_ep, bus, hostVars, ends>>

NeedsEmptyPacket_never(len) == FALSE
NeedsEmptyPacket(len) == len > 0 /\ len % EXLINK_BULK_MPS = 0

(* An echo has left: an empty packet after a full one, else the end.       *)
cdc_port_in(p) ==
  /\ in_ep[p] = "done"
  /\ IF NeedsEmptyPacket(in_len[p])
       THEN /\ in_ep' = [in_ep EXCEPT ![p] = "primed"]
            /\ in_len' = [in_len EXCEPT ![p] = 0]
            /\ UNCHANGED tx_busy
       ELSE /\ in_ep' = [in_ep EXCEPT ![p] = "idle"]
            /\ tx_busy' = [tx_busy EXCEPT ![p] = FALSE]
            /\ UNCHANGED in_len
  /\ UNCHANGED <<rx, tx, out_ep, hid_out_ep, bus, hostVars, ends>>

hid_out_cb_stops ==
  /\ hid_out_ep = "done"
  /\ hid_out_ep' = "idle"
  /\ UNCHANGED <<devVars, bus, hostVars, ends>>

(* The v1 interface only listens again. *)
hid_out_cb ==
  /\ hid_out_ep = "done"
  /\ hid_out_ep' = "primed"
  /\ UNCHANGED <<devVars, bus, hostVars, ends>>

SessionEnds ==
  IF bus = "configured" THEN ends < MaxSessionEnds /\ ends' = ends + 1
                        ELSE UNCHANGED ends

usb_if_uart_on_reset == tx_busy' = [p \in Port |-> FALSE]

(* The host starts over with every transfer. *)
HostForgets == open' = [p \in Port |-> FALSE] /\ UNCHANGED <<written, heard>>

(* Bus reset: the driver forgets the endpoints, then the hooks run.        *)
BusReset ==
  /\ SessionEnds
  /\ usb_if_uart_on_reset
  /\ in_ep' = [p \in Port |-> "off"]
  /\ out_ep' = [p \in Port |-> "off"]
  /\ hid_out_ep' = "off"
  /\ bus' = "default"
  /\ HostForgets
  /\ UNCHANGED <<rx, tx, in_len>>

(* Loss of the bus: only the hooks run. *)
BusDisconnect ==
  /\ bus # "down"
  /\ SessionEnds
  /\ usb_if_uart_on_reset
  /\ bus' = "down"
  /\ HostForgets
  /\ UNCHANGED <<rx, tx, in_ep, in_len, out_ep, hid_out_ep>>

(* Configured: endpoints opened, flags down, a read posted on each OUT     *)
(* endpoint, that of the v1 interface included.                            *)
usb_if_uart_on_configured ==
  /\ bus = "default"
  /\ bus' = "configured"
  /\ tx_busy' = [p \in Port |-> FALSE]
  /\ in_ep' = [p \in Port |-> "idle"]
  /\ out_ep' = [p \in Port |-> "primed"]
  /\ hid_out_ep' = "primed"
  /\ UNCHANGED <<rx, tx, in_len, hostVars, ends>>

----------------------------------------------------------------------------
(* The host.                                                               *)

(* It writes a packet: empty, short or full. *)
host_out(p) ==
  /\ bus = "configured"
  /\ out_ep[p] = "primed"
  /\ written[p] < MaxPackets
  /\ \E len \in {0, 1, EXLINK_BULK_MPS} :
       rx' = [rx EXCEPT ![p] = [port |-> p, n |-> written[p] + 1, len |-> len]]
  /\ written' = [written EXCEPT ![p] = @ + 1]
  /\ out_ep' = [out_ep EXCEPT ![p] = "done"]
  /\ UNCHANGED <<tx, tx_busy, in_ep, in_len, hid_out_ep, bus, heard, open, ends>>

(* It reads a packet; a short one ends the transfer. *)
host_in(p) ==
  /\ bus = "configured"
  /\ in_ep[p] = "primed"
  /\ in_ep' = [in_ep EXCEPT ![p] = "done"]
  /\ heard' = IF in_len[p] > 0
                THEN [heard EXCEPT ![p] = Append(@, [packet |-> tx[p], joined |-> open[p]])]
                ELSE heard
  /\ open' = [open EXCEPT ![p] = in_len[p] = EXLINK_BULK_MPS]
  /\ UNCHANGED <<rx, tx, tx_busy, in_len, out_ep, hid_out_ep, bus, written, ends>>

host_hid_out ==
  /\ bus = "configured"
  /\ hid_out_ep = "primed"
  /\ hid_out_ep' = "done"
  /\ UNCHANGED <<devVars, bus, hostVars, ends>>

----------------------------------------------------------------------------
Isr  == hid_out_cb \/ \E p \in Port : cdc_port_out(p) \/ cdc_port_in(p)
Bus  == BusReset \/ BusDisconnect \/ usb_if_uart_on_configured
Host == host_hid_out \/ \E p \in Port : host_out(p) \/ host_in(p)

Next == Isr \/ Bus \/ Host

Spec == Init /\ [][Next]_vars

(* Fairness: a completion interrupt is served, and the host reads.         *)
FairSpec ==
  /\ Spec
  /\ WF_vars(hid_out_cb)
  /\ \A p \in Port : WF_vars(cdc_port_out(p)) /\ WF_vars(cdc_port_in(p))
                                              /\ WF_vars(host_in(p))

----------------------------------------------------------------------------
(* Properties.                                                             *)

(* What a port sends back was written to that port, in the order it was    *)
(* written, each packet at most once and as a transfer of its own.         *)
EchoInOrder ==
  \A p \in Port : \A i \in 1 .. Len(heard[p]) :
    /\ heard[p][i].packet.port = p
    /\ ~ heard[p][i].joined
    /\ i > 1 => heard[p][i - 1].packet.n < heard[p][i].packet.n

(* A configured device listens on every OUT endpoint.                      *)
OutListening ==
  bus = "configured" => /\ \A p \in Port : out_ep[p] \in {"primed", "done"}
                        /\ hid_out_ep \in {"primed", "done"}

(* A packet that reaches a port with nothing on its IN endpoint is echoed  *)
(* whatever happened before, unless the session ends first.                *)
Reached(p, n) == out_ep[p] = "done" /\ in_ep[p] = "idle" /\ rx[p].len > 0 /\ rx[p].n = n
Echoed ==
  \A p \in Port, n \in 1 .. MaxPackets :
    Reached(p, n) ~> \/ bus # "configured"
                     \/ \E i \in 1 .. Len(heard[p]) : heard[p][i].packet.n = n
============================================================================
