--------------------------- MODULE CdcEchoProofs ----------------------------
(***************************************************************************)
(* Proofs about the echo ports, for packets and sessions of any number and *)
(* any packet size: types, the OUT endpoints that keep listening, and the  *)
(* order and the framing of the echoes.                                    *)
(***************************************************************************)
EXTENDS CdcEcho, TLAPS

Heard == [packet : Packet, joined : BOOLEAN]

(* The assumption, piece by piece.                                         *)
LEMMA Sizes ==
  /\ EXLINK_BULK_MPS \in Nat /\ EXLINK_BULK_MPS > 0
  /\ MaxPackets \in Nat /\ MaxSessionEnds \in Nat
BY EchoAssumption

LEMMA EndsType == ASSUME TypeOK, SessionEnds PROVE ends' \in 0 .. MaxSessionEnds
BY Sizes DEF TypeOK, SessionEnds

----------------------------------------------------------------------------
(* Types.                                                                  *)

LEMMA InitTypes == Init => TypeOK
<1> SUFFICES ASSUME Init PROVE TypeOK  OBVIOUS
<1>1. \A p \in Port : NoPacket(p) \in Packet
  BY Sizes DEF NoPacket, Packet
<1>2. rx \in [Port -> Packet] /\ tx \in [Port -> Packet]
  BY <1>1 DEF Init
<1>3. in_len \in [Port -> 0 .. EXLINK_BULK_MPS] /\ written \in [Port -> 0 .. MaxPackets]
  BY Sizes DEF Init
<1>4. heard \in [Port -> Seq(Heard)]
  BY DEF Init, Heard
<1>5. tx_busy \in [Port -> BOOLEAN] /\ open \in [Port -> BOOLEAN]
  BY DEF Init
<1>6. ends \in 0 .. MaxSessionEnds  BY Sizes DEF Init
<1> QED  BY <1>2, <1>3, <1>4, <1>5, <1>6 DEF Init, TypeOK, Endpoint, Heard

(* Every action keeps the types.                                           *)
LEMMA NextKeepsTypes == TypeOK /\ [Next]_vars => TypeOK'
<1> SUFFICES ASSUME TypeOK, [Next]_vars PROVE TypeOK'  OBVIOUS
<1>1. ASSUME NEW p \in Port, cdc_port_out(p) PROVE TypeOK'
  <2>1. out_ep' \in [Port -> Endpoint \ {"idle"}]
    BY <1>1 DEF cdc_port_out, ListenAgain, TypeOK, Endpoint
  <2>2. CASE EchoTaken(p)
    <3>1. rx[p] \in Packet /\ rx[p].len \in 0 .. EXLINK_BULK_MPS
      BY DEF TypeOK, Packet
    <3>2. tx' \in [Port -> Packet] /\ tx_busy' \in [Port -> BOOLEAN]
      BY <1>1, <2>2, <3>1 DEF cdc_port_out, TypeOK
    <3>3. in_ep' \in [Port -> Endpoint] /\ in_len' \in [Port -> 0 .. EXLINK_BULK_MPS]
      BY <1>1, <2>2, <3>1 DEF cdc_port_out, TypeOK, Endpoint
    <3> QED  BY <1>1, <2>1, <3>2, <3>3 DEF cdc_port_out, TypeOK, hostVars
  <2>3. CASE ~ EchoTaken(p)
    BY <1>1, <2>1, <2>3 DEF cdc_port_out, TypeOK, hostVars
  <2> QED  BY <2>2, <2>3
<1>2. ASSUME NEW p \in Port, cdc_port_in(p) PROVE TypeOK'
  <2>1. in_ep' \in [Port -> Endpoint] /\ tx_busy' \in [Port -> BOOLEAN]
    BY <1>2 DEF cdc_port_in, TypeOK, Endpoint
  <2>2. in_len' \in [Port -> 0 .. EXLINK_BULK_MPS]
    <3>1. 0 \in 0 .. EXLINK_BULK_MPS  BY Sizes
    <3> QED  BY <1>2, <3>1 DEF cdc_port_in, TypeOK
  <2> QED  BY <1>2, <2>1, <2>2 DEF cdc_port_in, TypeOK, hostVars
<1>3. CASE hid_out_cb
  BY <1>3 DEF hid_out_cb, TypeOK, Endpoint, devVars, hostVars
<1>4. CASE BusReset
  <2>1. ends' \in 0 .. MaxSessionEnds  BY <1>4, EndsType DEF BusReset
  <2>2. /\ tx_busy' \in [Port -> BOOLEAN] /\ open' \in [Port -> BOOLEAN]
        /\ in_ep' \in [Port -> Endpoint] /\ out_ep' \in [Port -> Endpoint \ {"idle"}]
    BY <1>4 DEF BusReset, usb_if_uart_on_reset, HostForgets, Endpoint
  <2> QED  BY <1>4, <2>1, <2>2 DEF BusReset, HostForgets, TypeOK, Endpoint
<1>5. CASE BusDisconnect
  <2>1. ends' \in 0 .. MaxSessionEnds  BY <1>5, EndsType DEF BusDisconnect
  <2>2. tx_busy' \in [Port -> BOOLEAN] /\ open' \in [Port -> BOOLEAN]
    BY <1>5 DEF BusDisconnect, usb_if_uart_on_reset, HostForgets
  <2> QED  BY <1>5, <2>1, <2>2 DEF BusDisconnect, HostForgets, TypeOK
<1>6. CASE usb_if_uart_on_configured
  <2>1. /\ tx_busy' \in [Port -> BOOLEAN]
        /\ in_ep' \in [Port -> Endpoint] /\ out_ep' \in [Port -> Endpoint \ {"idle"}]
    BY <1>6 DEF usb_if_uart_on_configured, Endpoint
  <2> QED  BY <1>6, <2>1 DEF usb_if_uart_on_configured, TypeOK, hostVars, Endpoint
<1>7. ASSUME NEW p \in Port, host_out(p) PROVE TypeOK'
  <2>1. written[p] + 1 \in 0 .. MaxPackets  BY <1>7, Sizes DEF host_out, TypeOK
  <2>2. PICK len \in {0, 1, EXLINK_BULK_MPS} :
          rx' = [rx EXCEPT ![p] = [port |-> p, n |-> written[p] + 1, len |-> len]]
    BY <1>7 DEF host_out
  <2>3. [port |-> p, n |-> written[p] + 1, len |-> len] \in Packet
    BY <2>1, Sizes DEF Packet
  <2>4. rx' \in [Port -> Packet]  BY <2>2, <2>3 DEF TypeOK
  <2>5. written' \in [Port -> 0 .. MaxPackets]  BY <1>7, <2>1 DEF host_out, TypeOK
  <2>6. out_ep' \in [Port -> Endpoint \ {"idle"}]  BY <1>7 DEF host_out, TypeOK, Endpoint
  <2> QED  BY <1>7, <2>4, <2>5, <2>6 DEF host_out, TypeOK
<1>8. ASSUME NEW p \in Port, host_in(p) PROVE TypeOK'
  <2>1. in_ep' \in [Port -> Endpoint]  BY <1>8 DEF host_in, TypeOK, Endpoint
  <2>2. (in_len[p] = EXLINK_BULK_MPS) \in BOOLEAN  OBVIOUS
  <2>3. open' \in [Port -> BOOLEAN]  BY <1>8, <2>2 DEF host_in, TypeOK
  <2>4. [packet |-> tx[p], joined |-> open[p]] \in Heard  BY DEF TypeOK, Heard
  <2>5. heard[p] \in Seq(Heard)  BY DEF TypeOK, Heard
  <2>6. Append(heard[p], [packet |-> tx[p], joined |-> open[p]]) \in Seq(Heard)
    BY <2>4, <2>5
  <2>7. heard' \in [Port -> Seq(Heard)]
    BY <1>8, <2>6 DEF host_in, TypeOK, Heard
  <2> QED  BY <1>8, <2>1, <2>3, <2>7 DEF host_in, TypeOK, Heard
<1>9. CASE host_hid_out
  BY <1>9 DEF host_hid_out, TypeOK, Endpoint, devVars, hostVars
<1>10. CASE UNCHANGED vars
  BY <1>10 DEF vars, devVars, hostVars, TypeOK
<1> QED
  BY <1>1, <1>2, <1>3, <1>4, <1>5, <1>6, <1>7, <1>8, <1>9, <1>10 DEF Next, Isr, Bus, Host

(* Every variable keeps to its range, the completions and resets of every  *)
(* port in any order.                                                      *)
THEOREM TypeCorrect == Spec => []TypeOK
BY InitTypes, NextKeepsTypes, PTL DEF Spec

----------------------------------------------------------------------------
(* Listening.                                                              *)

LEMMA ListeningKept == TypeOK /\ OutListening /\ [Next]_vars => OutListening'
<1> SUFFICES ASSUME TypeOK, OutListening, [Next]_vars PROVE OutListening'  OBVIOUS
<1>1. ASSUME NEW p \in Port, cdc_port_out(p) PROVE OutListening'
  BY <1>1 DEF cdc_port_out, ListenAgain, TypeOK, OutListening
<1>2. ASSUME NEW p \in Port, cdc_port_in(p) PROVE OutListening'
  BY <1>2 DEF cdc_port_in, OutListening
<1>3. CASE hid_out_cb  BY <1>3 DEF hid_out_cb, devVars, OutListening
<1>4. CASE BusReset  BY <1>4 DEF BusReset, OutListening
<1>5. CASE BusDisconnect  BY <1>5 DEF BusDisconnect, OutListening
<1>6. CASE usb_if_uart_on_configured
  BY <1>6 DEF usb_if_uart_on_configured, OutListening
<1>7. ASSUME NEW p \in Port, host_out(p) PROVE OutListening'
  BY <1>7 DEF host_out, TypeOK, OutListening
<1>8. ASSUME NEW p \in Port, host_in(p) PROVE OutListening'
  BY <1>8 DEF host_in, OutListening
<1>9. CASE host_hid_out  BY <1>9 DEF host_hid_out, devVars, OutListening
<1>10. CASE UNCHANGED vars  BY <1>10 DEF vars, devVars, OutListening
<1> QED
  BY <1>1, <1>2, <1>3, <1>4, <1>5, <1>6, <1>7, <1>8, <1>9, <1>10 DEF Next, Isr, Bus, Host

(* A configured device listens on every OUT endpoint, that of the v1       *)
(* interface included.                                                     *)
THEOREM AlwaysListening == Spec => []OutListening
<1>1. Init => OutListening  BY DEF Init, OutListening
<1> QED  BY <1>1, InitTypes, NextKeepsTypes, ListeningKept, PTL DEF Spec

----------------------------------------------------------------------------
(* Order and framing.                                                      *)

(* The packets of a port: what has been heard is no newer than the last    *)
(* echo, the echo no newer than the packet received, and the packet a      *)
(* pending interrupt is about to echo is newer than the last echo.         *)
Numbered(p) ==
  /\ rx[p].port = p /\ tx[p].port = p
  /\ tx[p].n <= rx[p].n /\ rx[p].n <= written[p]
  /\ out_ep[p] = "done" => tx[p].n < rx[p].n

(* An echo on its way has not been heard.                                  *)
Unheard(p) ==
  \A i \in 1 .. Len(heard[p]) :
    /\ heard[p][i].packet.n <= tx[p].n
    /\ in_ep[p] = "primed" /\ in_len[p] > 0 => heard[p][i].packet.n < tx[p].n

(* The flag is up while a transfer is under way, and a transfer the host   *)
(* still has open is about to be ended by an empty packet.                 *)
Covered(p) ==
  /\ bus = "configured" /\ in_ep[p] \in {"primed", "done"} => tx_busy[p]
  /\ open[p] => /\ bus = "configured" /\ tx_busy[p]
                /\ \/ in_ep[p] = "done" /\ in_len[p] = EXLINK_BULK_MPS
                   \/ in_ep[p] = "primed" /\ in_len[p] = 0

InOrder(p) ==
  \A i \in 1 .. Len(heard[p]) :
    /\ heard[p][i].packet.port = p
    /\ ~ heard[p][i].joined
    /\ i > 1 => heard[p][i - 1].packet.n < heard[p][i].packet.n

PortOK(p) == Numbered(p) /\ Unheard(p) /\ Covered(p) /\ InOrder(p)

(* The numbers a port compares.                                            *)
LEMMA PortTypes ==
  ASSUME TypeOK, NEW p \in Port
  PROVE  /\ rx[p].n \in Nat /\ tx[p].n \in Nat /\ written[p] \in Nat
         /\ in_len[p] \in Nat
         /\ heard[p] \in Seq(Heard) /\ Len(heard[p]) \in Nat
         /\ \A i \in 1 .. Len(heard[p]) : heard[p][i].packet.n \in Nat
<1>1. rx[p] \in Packet /\ tx[p] \in Packet  BY DEF TypeOK
<1>2. rx[p].n \in Nat /\ tx[p].n \in Nat  BY <1>1, Sizes DEF Packet
<1>3. written[p] \in Nat /\ in_len[p] \in Nat  BY Sizes DEF TypeOK
<1>4. heard[p] \in Seq(Heard)  BY DEF TypeOK, Heard
<1>5. ASSUME NEW i \in 1 .. Len(heard[p]) PROVE heard[p][i].packet.n \in Nat
  <2>1. heard[p][i] \in Heard  BY <1>4, <1>5
  <2>2. heard[p][i].packet \in Packet  BY <2>1 DEF Heard
  <2> QED  BY <2>2, Sizes DEF Packet
<1> QED  BY <1>2, <1>3, <1>4, <1>5

(* A port nothing happens to stays as it is.                               *)
LEMMA PortStill ==
  ASSUME NEW q \in Port, PortOK(q),
         rx'[q] = rx[q], tx'[q] = tx[q], written'[q] = written[q], heard'[q] = heard[q],
         in_ep'[q] = in_ep[q], in_len'[q] = in_len[q], tx_busy'[q] = tx_busy[q],
         open'[q] = open[q], out_ep'[q] = out_ep[q] \/ out_ep'[q] # "done", bus' = bus
  PROVE  PortOK(q)'
<1>1. Numbered(q)'  BY DEF PortOK, Numbered
<1>2. Unheard(q)'  BY DEF PortOK, Unheard
<1>3. Covered(q)'  BY DEF PortOK, Covered
<1>4. InOrder(q)'  BY DEF PortOK, InOrder
<1> QED  BY <1>1, <1>2, <1>3, <1>4 DEF PortOK

LEMMA OutKeeps ==
  ASSUME TypeOK, NEW p \in Port, NEW q \in Port, PortOK(q), cdc_port_out(p)
  PROVE  PortOK(q)'
<1>0. /\ UNCHANGED <<rx, bus, written, heard, open>>
      /\ out_ep' = [out_ep EXCEPT ![p] = "primed"]
  BY DEF cdc_port_out, ListenAgain, hostVars
<1>1. CASE p # q
  BY <1>0, <1>1, PortStill DEF cdc_port_out, TypeOK
<1>2. CASE p = q /\ ~ EchoTaken(p)
  <2>1. UNCHANGED <<tx, tx_busy, in_ep, in_len>>  BY <1>2 DEF cdc_port_out
  <2>2. out_ep'[q] = "primed"  BY <1>0, <1>2 DEF TypeOK
  <2> QED  BY <1>0, <2>1, <2>2, PortStill
<1>3. CASE p = q /\ EchoTaken(p)
  <2>1. tx'[q] = rx[q] /\ tx_busy'[q] = TRUE /\ ~ tx_busy[q] /\ out_ep[q] = "done"
    BY <1>3 DEF cdc_port_out, EchoTaken, TypeOK
  <2>2. out_ep'[q] = "primed"  BY <1>0, <1>3 DEF TypeOK
  <2>3. Numbered(q)'
    BY <1>0, <2>1, <2>2, PortTypes DEF PortOK, Numbered
  <2>4. Unheard(q)'
    BY <1>0, <2>1, PortTypes DEF PortOK, Numbered, Unheard
  <2>5. Covered(q)'
    BY <1>0, <2>1 DEF PortOK, Covered
  <2>6. InOrder(q)'  BY <1>0 DEF PortOK, InOrder
  <2> QED  BY <2>3, <2>4, <2>5, <2>6 DEF PortOK
<1> QED  BY <1>1, <1>2, <1>3

LEMMA InKeeps ==
  ASSUME TypeOK, NEW p \in Port, NEW q \in Port, PortOK(q), cdc_port_in(p)
  PROVE  PortOK(q)'
<1>0. UNCHANGED <<rx, tx, out_ep, bus, written, heard, open>>
  BY DEF cdc_port_in, hostVars
<1>1. CASE p # q
  BY <1>0, <1>1, PortStill DEF cdc_port_in, TypeOK
<1>2. CASE p = q /\ NeedsEmptyPacket(in_len[p])
  <2>1. in_ep'[q] = "primed" /\ in_len'[q] = 0 /\ tx_busy'[q] = tx_busy[q] /\ in_ep[q] = "done"
    BY <1>2 DEF cdc_port_in, TypeOK
  <2>2. Numbered(q)'  BY <1>0 DEF PortOK, Numbered
  <2>3. Unheard(q)'  BY <1>0, <2>1 DEF PortOK, Unheard
  <2>4. Covered(q)'  BY <1>0, <2>1 DEF PortOK, Covered
  <2>5. InOrder(q)'  BY <1>0 DEF PortOK, InOrder
  <2> QED  BY <2>2, <2>3, <2>4, <2>5 DEF PortOK
<1>3. CASE p = q /\ ~ NeedsEmptyPacket(in_len[p])
  <2>1. in_ep'[q] = "idle" /\ in_ep[q] = "done"
    BY <1>3 DEF cdc_port_in, TypeOK
  <2>2. in_len[q] # EXLINK_BULK_MPS
    BY <1>3, Sizes DEF NeedsEmptyPacket
  <2>3. ~ open[q]  BY <2>1, <2>2 DEF PortOK, Covered
  <2>4. Numbered(q)'  BY <1>0 DEF PortOK, Numbered
  <2>5. Unheard(q)'  BY <1>0, <2>1 DEF PortOK, Unheard
  <2>6. Covered(q)'  BY <1>0, <2>1, <2>3 DEF PortOK, Covered
  <2>7. InOrder(q)'  BY <1>0 DEF PortOK, InOrder
  <2> QED  BY <2>4, <2>5, <2>6, <2>7 DEF PortOK
<1> QED  BY <1>1, <1>2, <1>3

LEMMA HostOutKeeps ==
  ASSUME TypeOK, NEW p \in Port, NEW q \in Port, PortOK(q), host_out(p)
  PROVE  PortOK(q)'
<1>0. UNCHANGED <<tx, tx_busy, in_ep, in_len, bus, heard, open>>
  BY DEF host_out
<1>1. CASE p # q
  BY <1>0, <1>1, PortStill DEF host_out, TypeOK
<1>2. CASE p = q
  <2>1. rx'[q].port = q /\ rx'[q].n = written[q] + 1
    BY <1>2 DEF host_out, TypeOK
  <2>2. written'[q] = written[q] + 1
    BY <1>2 DEF host_out, TypeOK
  <2>3. Numbered(q)'
    BY <1>0, <2>1, <2>2, PortTypes DEF PortOK, Numbered
  <2>4. Unheard(q)'  BY <1>0 DEF PortOK, Unheard
  <2>5. Covered(q)'  BY <1>0 DEF PortOK, Covered
  <2>6. InOrder(q)'  BY <1>0 DEF PortOK, InOrder
  <2> QED  BY <2>3, <2>4, <2>5, <2>6 DEF PortOK
<1> QED  BY <1>1, <1>2

LEMMA HostInKeeps ==
  ASSUME TypeOK, NEW p \in Port, NEW q \in Port, PortOK(q), host_in(p)
  PROVE  PortOK(q)'
<1>0. UNCHANGED <<rx, tx, tx_busy, in_len, out_ep, bus, written>>
  BY DEF host_in
<1>1. CASE p # q
  BY <1>0, <1>1, PortStill DEF host_in, TypeOK
<1>2. CASE p = q
  <2>1. /\ in_ep[q] = "primed" /\ in_ep'[q] = "done" /\ bus = "configured"
        /\ open'[q] = (in_len[q] = EXLINK_BULK_MPS)
    BY <1>2 DEF host_in, TypeOK
  <2>2. Numbered(q)'  BY <1>0 DEF PortOK, Numbered
  <2>3. Covered(q)'  BY <1>0, <2>1 DEF PortOK, Covered
  <2>4. CASE in_len[q] > 0
    <3> DEFINE e == [packet |-> tx[q], joined |-> open[q]]
    <3>1. heard'[q] = Append(heard[q], e)
      BY <1>2, <2>4 DEF host_in, TypeOK
    <3>2. ~ open[q]
      BY <2>1, <2>4, PortTypes DEF PortOK, Covered
    <3>3. e.packet.port = q /\ ~ e.joined /\ e.packet.n = tx[q].n
      BY <3>2 DEF PortOK, Numbered
    <3>4. \A i \in 1 .. Len(heard[q]) : heard[q][i].packet.n < e.packet.n
      BY <2>1, <2>4, <3>3 DEF PortOK, Unheard
    <3> HIDE DEF e
    <3>5. /\ Len(heard'[q]) = Len(heard[q]) + 1
          /\ \A i \in 1 .. Len(heard[q]) : heard'[q][i] = heard[q][i]
          /\ heard'[q][Len(heard[q]) + 1] = e
      BY <3>1, PortTypes
    <3>6. ASSUME NEW i \in 1 .. Len(heard'[q])
          PROVE  i \in 1 .. Len(heard[q]) \/ i = Len(heard[q]) + 1
      BY <3>5, PortTypes
    <3>7. Unheard(q)'
      <4> SUFFICES ASSUME NEW i \in 1 .. Len(heard'[q])
                   PROVE  heard'[q][i].packet.n <= tx[q].n
        BY <1>0, <2>1 DEF Unheard
      <4>1. CASE i \in 1 .. Len(heard[q])
        BY <3>5, <4>1 DEF PortOK, Unheard
      <4>2. CASE i = Len(heard[q]) + 1
        BY <3>3, <3>5, <4>2, PortTypes
      <4> QED  BY <3>6, <4>1, <4>2
    <3>8. InOrder(q)'
      <4> SUFFICES ASSUME NEW i \in 1 .. Len(heard'[q])
                   PROVE  /\ heard'[q][i].packet.port = q
                          /\ ~ heard'[q][i].joined
                          /\ i > 1 => heard'[q][i - 1].packet.n < heard'[q][i].packet.n
        BY DEF InOrder
      <4>1. CASE i \in 1 .. Len(heard[q])
        <5>1. i > 1 => i - 1 \in 1 .. Len(heard[q])  BY <4>1, PortTypes
        <5> QED  BY <3>5, <4>1, <5>1 DEF PortOK, InOrder
      <4>2. CASE i = Len(heard[q]) + 1
        <5>1. i > 1 => i - 1 \in 1 .. Len(heard[q])  BY <4>2, PortTypes
        <5>2. heard'[q][i] = e  BY <3>5, <4>2
        <5> QED  BY <3>3, <3>4, <3>5, <5>1, <5>2
      <4> QED  BY <3>6, <4>1, <4>2
    <3> QED  BY <2>2, <2>3, <3>7, <3>8 DEF PortOK
  <2>5. CASE ~ (in_len[q] > 0)
    <3>1. heard'[q] = heard[q]  BY <1>2, <2>5 DEF host_in
    <3>2. Unheard(q)'  BY <1>0, <2>1, <3>1 DEF PortOK, Unheard
    <3>3. InOrder(q)'  BY <3>1 DEF PortOK, InOrder
    <3> QED  BY <2>2, <2>3, <3>2, <3>3 DEF PortOK
  <2> QED  BY <2>4, <2>5
<1> QED  BY <1>1, <1>2

(* The bus hooks touch every port at once.                                 *)
LEMMA BusKeeps ==
  ASSUME TypeOK, NEW q \in Port, PortOK(q), Bus
  PROVE  PortOK(q)'
<1>1. UNCHANGED <<rx, tx, in_len, written, heard>>
  BY DEF Bus, BusReset, BusDisconnect, usb_if_uart_on_configured, HostForgets, hostVars
<1>2. out_ep'[q] = out_ep[q] \/ out_ep'[q] # "done"
  BY DEF Bus, BusReset, BusDisconnect, usb_if_uart_on_configured
<1>3. in_ep'[q] = in_ep[q] \/ in_ep'[q] \in {"off", "idle"}
  BY DEF Bus, BusReset, BusDisconnect, usb_if_uart_on_configured
<1>4. Numbered(q)'  BY <1>1, <1>2 DEF PortOK, Numbered
<1>5. Unheard(q)'  BY <1>1, <1>3 DEF PortOK, Unheard
<1>6. InOrder(q)'  BY <1>1 DEF PortOK, InOrder
<1>7. Covered(q)'
  <2>1. CASE BusReset \/ BusDisconnect
    BY <2>1 DEF BusReset, BusDisconnect, HostForgets, Covered
  <2>2. CASE usb_if_uart_on_configured
    <3>1. ~ open[q]  BY <2>2 DEF usb_if_uart_on_configured, PortOK, Covered
    <3>2. open'[q] = open[q] /\ in_ep'[q] = "idle"
      BY <2>2 DEF usb_if_uart_on_configured, hostVars
    <3> QED  BY <3>1, <3>2 DEF Covered
  <2> QED  BY <2>1, <2>2 DEF Bus
<1> QED  BY <1>4, <1>5, <1>6, <1>7 DEF PortOK

LEMMA PortsKept ==
  TypeOK /\ (\A q \in Port : PortOK(q)) /\ [Next]_vars => (\A q \in Port : PortOK(q))'
<1> SUFFICES ASSUME TypeOK, \A q \in Port : PortOK(q), [Next]_vars, NEW q \in Port
             PROVE  PortOK(q)'
  OBVIOUS
<1>1. CASE Bus  BY <1>1, BusKeeps
<1>2. CASE hid_out_cb \/ host_hid_out \/ UNCHANGED vars
  <2>1. UNCHANGED <<devVars, bus, hostVars>>
    BY <1>2 DEF hid_out_cb, host_hid_out, vars
  <2> QED  BY <2>1, PortStill DEF devVars, hostVars
<1>3. CASE \E p \in Port : cdc_port_out(p) \/ cdc_port_in(p) \/ host_out(p) \/ host_in(p)
  BY <1>3, OutKeeps, InKeeps, HostOutKeeps, HostInKeeps
<1> QED  BY <1>1, <1>2, <1>3 DEF Next, Isr, Host

(* Echoes come back from the port they were written to, in order, each     *)
(* once and as a transfer of its own, over any number of sessions.         *)
THEOREM EchoesInOrder == Spec => []EchoInOrder
<1>1. Init => \A q \in Port : PortOK(q)
  <2> SUFFICES ASSUME Init, NEW q \in Port PROVE PortOK(q)  OBVIOUS
  <2>1. Numbered(q)  BY DEF Init, Numbered, NoPacket
  <2>2. heard[q] = <<>> /\ Len(heard[q]) = 0  BY DEF Init
  <2>3. Unheard(q) /\ InOrder(q)  BY <2>2 DEF Unheard, InOrder
  <2>4. Covered(q)  BY DEF Init, Covered
  <2> QED  BY <2>1, <2>3, <2>4 DEF PortOK
<1>2. (\A q \in Port : PortOK(q)) => EchoInOrder
  BY DEF PortOK, InOrder, EchoInOrder
<1> QED  BY <1>1, <1>2, InitTypes, NextKeepsTypes, PortsKept, PTL DEF Spec
=============================================================================
