-------------------------- MODULE DapCommandProofs --------------------------
(***************************************************************************)
(* Proofs about the command processor, for packets and sequence commands   *)
(* of any length, any bit counts and any clocks.                           *)
(***************************************************************************)
EXTENDS DapCommand, TLAPS

(* The assumption, piece by piece.                                         *)
LEMMA Sizes ==
  /\ MaxCommands \in Nat /\ MaxItems \in Nat
  /\ Source \in Nat \ {0} /\ DefaultClock \in Nat \ {0}
BY CommandAssumption

LEMMA Elements ==
  /\ \A n \in Bits : n \in Nat
  /\ \A n \in Counts : n \in Nat
  /\ \A n \in Clocks : n \in Nat
BY CommandAssumption

----------------------------------------------------------------------------
(* Arithmetic of the divider.                                              *)

(* Rounding bits up to bytes stays within the numbers.                     *)
LEMMA BytesNat == \A bits \in Nat : BytesOf(bits) \in Nat
BY DEF BytesOf

(* The two divisions of the divider undo each other: a clock the divider   *)
(* makes exactly is the clock it makes.                                    *)
LEMMA DivisionUndone ==
  ASSUME NEW s \in Nat \ {0}, NEW hz \in Nat \ {0}, s % hz = 0, (s \div hz) % 2 = 0
  PROVE  /\ s \div hz \in Nat \ {0}
         /\ 2 * (((s \div hz) \div 2 - 1) + 1) = s \div hz
         /\ s \div (s \div hz) = hz
<1> DEFINE q == s \div hz
<1>1. q \in Nat /\ s = hz * q  OBVIOUS
<1>2. q # 0  BY <1>1
<1>3. 2 * ((q \div 2 - 1) + 1) = q  BY <1>1
<1>4. s \div q = hz  BY <1>1, <1>2
<1> QED  BY <1>1, <1>2, <1>3, <1>4

(* Whatever the clock asked for, there is one on the wire.                 *)
LEMMA ClockType ==
  ASSUME TypeOK, NEW hz \in Nat \ {0}, dap_swd_spi_set_clock(hz)
  PROVE  /\ sclk' \in Nat \ {0}
         /\ hz >= Source \/ Divisible(hz) => sclk' <= hz
<1> DEFINE h == IF hz = 0 \/ hz > Source THEN Source ELSE hz
<1>1. h \in Nat \ {0} /\ (h >= Source => h = Source) /\ h <= hz
  BY CommandAssumption
<1>2. spi_master_timing_init(h)  BY DEF dap_swd_spi_set_clock
<1>3. CASE h >= Source
  BY <1>1, <1>2, <1>3, CommandAssumption DEF spi_master_timing_init
<1>4. CASE ~ (h >= Source) /\ Divisible(h)
  <2>1. sclk' = Source \div (2 * (((Source \div h) \div 2 - 1) + 1))
    BY <1>2, <1>4 DEF spi_master_timing_init
  <2>2. Source \in Nat \ {0}  BY CommandAssumption
  <2>3. Source % h = 0 /\ (Source \div h) % 2 = 0  BY <1>4 DEF Divisible
  <2> HIDE DEF h
  <2>4. /\ 2 * (((Source \div h) \div 2 - 1) + 1) = Source \div h
        /\ Source \div (Source \div h) = h
    BY <1>1, <2>2, <2>3, DivisionUndone, SMTT(30)
  <2>5. sclk' = h  BY <2>1, <2>4
  <2> QED  BY <1>1, <2>5
<1>5. CASE ~ (h >= Source) /\ ~ Divisible(h)
  <2>1. sclk' = sclk  BY <1>2, <1>5 DEF spi_master_timing_init
  <2>2. h = hz  BY <1>5, CommandAssumption
  <2> QED  BY <1>5, <2>1, <2>2 DEF TypeOK
<1> QED  BY <1>3, <1>4, <1>5

----------------------------------------------------------------------------
(* The inductive invariant: inside a sequence command the pointers and the *)
(* counts go together, and a command is still counted.                     *)

Sequencing == pc \in {"SWD_Sequence", "JTAG_Sequence"}

Walk ==
  /\ Sequencing => cnt > 0
  /\ request = request_count /\ response = response_count

(* What the arguments of a command can be.                                 *)
LEMMA Arguments ==
  ASSUME NEW c \in Command
  PROVE  /\ c.op = "SWJ_Clock" => c.arg \in Clocks
         /\ c.op = "SWJ_Sequence" => c.arg \in Bits
         /\ c.op \in {"SWD_Sequence", "JTAG_Sequence"} => c.arg \in 0 .. MaxItems
         /\ c.op \in {"BlockRead", "BlockWrite", "JTAG_Configure", "unknown", "Vendor"}
              => c.arg \in Counts
         /\ c.op = "SWJ_Pins" => c.arg \in {"assert", "release", "others"}
BY DEF Command, Plain

(* A handler that returns has taken and put exactly what the layout says.  *)
Exact ==
  /\ pc' = "next" /\ cnt' = cnt - 1
  /\ UNCHANGED <<astray, garbled, excused, seqVars>>

LEMMA MovesExact ==
  ASSUME TypeOK, NEW a, NEW b, Moves(a = a, b = b)
  PROVE  pc' = "next" /\ cnt' = cnt - 1 /\ UNCHANGED <<astray, garbled>>
<1>1. pc' = "next" /\ cnt' = cnt - 1  BY DEF Moves
<1>2. astray' = astray
  <2>1. astray' = (astray \/ ~ (a = a))  BY Zenon DEF Moves
  <2> QED  BY <2>1 DEF TypeOK
<1>3. garbled' = garbled
  <2>1. garbled' = (garbled \/ ~ (b = b))  BY Zenon DEF Moves
  <2> QED  BY <2>1 DEF TypeOK
<1> QED  BY <1>1, <1>2, <1>3

LEMMA HandlersExact ==
  ASSUME TypeOK, NEW c \in Command, DAP_ProcessCommand(c)
  PROVE  \/ Exact
         \/ StartSequence(c) /\ c.op \in {"SWD_Sequence", "JTAG_Sequence"}
         \/ /\ \E exact, complete \in BOOLEAN : Moves(exact, complete)
            /\ excused' = TRUE /\ UNCHANGED seqVars
<1>1. ASSUME NEW a, NEW b, Laid(c) = <<a, b>>, Returns(c, a, b) PROVE Exact
  <2>1. Laid(c)[1] = a /\ Laid(c)[2] = b  BY <1>1
  <2>2. Moves(a = a, b = b) /\ UNCHANGED <<excused, seqVars>>
    BY <1>1, <2>1, Zenon DEF Returns
  <2> QED  BY <2>2, MovesExact DEF Exact
<1>2. CASE DAP_Info(c) \/ DAP_Connect(c) \/ DAP_SWD_Configure(c) \/ DAP_JTAG_IDCode(c)
  <2>1. Laid(c) = <<1, 1>>
    BY <1>2 DEF Laid, DAP_Info, DAP_Connect, DAP_SWD_Configure, DAP_JTAG_IDCode
  <2> QED
    BY <1>1, <1>2, <2>1 DEF DAP_Info, DAP_Connect, DAP_SWD_Configure, DAP_JTAG_IDCode
<1>3. CASE DAP_HostStatus(c) \/ DAP_Delay(c)
  <2>1. Laid(c) = <<2, 1>>  BY <1>3 DEF Laid, DAP_HostStatus, DAP_Delay
  <2> QED  BY <1>1, <1>3, <2>1 DEF DAP_HostStatus, DAP_Delay
<1>4. CASE DAP_Disconnect(c)
  <2>1. Laid(c) = <<0, 1>>  BY <1>4 DEF Laid, DAP_Disconnect
  <2> QED  BY <1>1, <1>4, <2>1 DEF DAP_Disconnect
<1>5. CASE DAP_ResetTarget(c)
  <2>1. Laid(c) = <<0, 2>>  BY <1>5 DEF Laid, DAP_ResetTarget
  <2> QED  BY <1>1, <1>5, <2>1 DEF DAP_ResetTarget
<1>6. CASE DAP_SWJ_Pins(c)
  <2>1. Laid(c) = <<6, 1>>  BY <1>6 DEF Laid, DAP_SWJ_Pins
  <2> QED  BY <1>1, <1>6, <2>1 DEF DAP_SWJ_Pins
<1>7. CASE DAP_SWJ_Clock(c)
  <2>1. Laid(c) = <<4, 1>>  BY <1>7 DEF Laid, DAP_SWJ_Clock
  <2> QED  BY <1>1, <1>7, <2>1 DEF DAP_SWJ_Clock
<1>8. CASE DAP_SWJ_Sequence(c)
  <2> DEFINE count == IF c.arg = 0 THEN 256 ELSE c.arg
  <2>0. c.op = "SWJ_Sequence"  BY <1>8 DEF DAP_SWJ_Sequence
  <2>01. c.arg \in Bits  BY <2>0, Arguments
  <2>1. count \in Nat  BY <2>01, Elements
  <2>2. Laid(c) = <<1 + Clocked(c.arg, 256), 1>>  BY <1>8 DEF Laid, DAP_SWJ_Sequence
  <2>3. 1 + Clocked(c.arg, 256) = (count + 7) \div 8 + 1
    BY <2>1 DEF Clocked, BytesOf
  <2>4. Returns(c, (count + 7) \div 8 + 1, 1)  BY <1>8 DEF DAP_SWJ_Sequence
  <2> QED  BY <1>1, <2>2, <2>3, <2>4
<1>9. CASE DAP_SWD_Sequence(c) \/ DAP_JTAG_Sequence(c)
  BY <1>9 DEF DAP_SWD_Sequence, DAP_JTAG_Sequence
<1>10. CASE DAP_JTAG_Configure(c)
  <2>1. Laid(c) = <<1 + c.arg, 1>>  BY <1>10 DEF Laid, DAP_JTAG_Configure
  <2>3. c.op = "JTAG_Configure"  BY <1>10 DEF DAP_JTAG_Configure
  <2>4. c.arg \in Counts  BY <2>3, Arguments
  <2>2. 1 + c.arg = c.arg + 1  BY <2>4, Elements
  <2> QED  BY <1>1, <1>10, <2>1, <2>2 DEF DAP_JTAG_Configure
<1>11. CASE DAP_TransferConfigure(c) \/ DAP_WriteAbort(c)
  <2>1. Laid(c) = <<5, 1>>  BY <1>11 DEF Laid, DAP_TransferConfigure, DAP_WriteAbort
  <2> QED  BY <1>1, <1>11, <2>1 DEF DAP_TransferConfigure, DAP_WriteAbort
<1>12. CASE DAP_Transfer(c)
  <2>1. CASE Moves(TRUE, TRUE) /\ UNCHANGED <<excused, seqVars>>
    <3>1. Moves(0 = 0, 0 = 0)  BY <2>1, (0 = 0) = TRUE, Zenon
    <3> QED  BY <2>1, <3>1, MovesExact DEF Exact
  <2> QED  BY <1>12, <2>1 DEF DAP_Transfer
<1>13. CASE DAP_TransferBlock(c)
  <2>1. Laid(c) = <<IF c.op = "BlockRead" THEN 4 ELSE 4 + 4 * c.arg, 3>>
    BY <1>13 DEF Laid, DAP_TransferBlock
  <2> QED  BY <1>1, <1>13, <2>1 DEF DAP_TransferBlock
<1>14. CASE Invalid(c)
  BY <1>14 DEF Invalid
<1> QED
  BY <1>2, <1>3, <1>4, <1>5, <1>6, <1>7, <1>8, <1>9, <1>10, <1>11, <1>12, <1>13, <1>14
     DEF DAP_ProcessCommand

(* What a handler does to the port.                                        *)
LEMMA HandlersPort ==
  ASSUME TypeOK, NEW c \in Command, DAP_ProcessCommand(c)
  PROVE  /\ debug_port' \in {"disabled", "SWD"}
         /\ nreset' \in {"low", "released"}
         /\ sclk' \in Nat \ {0} /\ asked' \in Nat
         /\ \/ UNCHANGED <<sclk, asked>>
            \/ /\ c.arg \in Clocks \ {0} /\ asked' = c.arg
               /\ c.arg >= Source \/ Divisible(c.arg) => sclk' <= c.arg
<1>1. CASE DAP_SWJ_Clock(c)
  <2>1. c.arg \in Clocks /\ c.arg \in Nat
    BY <1>1, Arguments, CommandAssumption DEF DAP_SWJ_Clock
  <2>2. CASE c.arg = 0
    BY <1>1, <2>2 DEF DAP_SWJ_Clock, TypeOK
  <2>3. CASE c.arg # 0
    <3>1. dap_swd_spi_set_clock(c.arg) /\ asked' = c.arg
      BY <1>1, <2>3 DEF DAP_SWJ_Clock
    <3> QED  BY <1>1, <2>1, <2>3, <3>1, ClockType DEF DAP_SWJ_Clock, TypeOK
  <2> QED  BY <2>2, <2>3
<1>2. CASE DAP_SWJ_Pins(c)
  BY <1>2, Arguments DEF DAP_SWJ_Pins, TypeOK
<1>3. CASE DAP_Connect(c) \/ DAP_Disconnect(c) \/ DAP_ResetTarget(c)
  BY <1>3 DEF DAP_Connect, DAP_Disconnect, DAP_ResetTarget, TypeOK
<1>4. CASE UNCHANGED portVars
  BY <1>4 DEF portVars, TypeOK
<1>5. CASE DAP_Info(c) \/ DAP_HostStatus(c) \/ DAP_Delay(c) \/ DAP_SWJ_Sequence(c)
             \/ DAP_SWD_Configure(c)
  BY <1>4, <1>5
     DEF DAP_Info, DAP_HostStatus, DAP_Delay, DAP_SWJ_Sequence, DAP_SWD_Configure
<1>6. CASE DAP_SWD_Sequence(c) \/ DAP_JTAG_Sequence(c) \/ DAP_JTAG_Configure(c)
             \/ DAP_JTAG_IDCode(c) \/ DAP_TransferConfigure(c)
  BY <1>4, <1>6 DEF DAP_SWD_Sequence, DAP_JTAG_Sequence, StartSequence, portVars,
                    DAP_JTAG_Configure, DAP_JTAG_IDCode, DAP_TransferConfigure
<1>7. CASE DAP_Transfer(c) \/ DAP_TransferBlock(c) \/ DAP_WriteAbort(c) \/ Invalid(c)
  BY <1>4, <1>7
     DEF DAP_Transfer, portVars, DAP_TransferBlock, DAP_WriteAbort, Invalid
<1> QED
  BY <1>1, <1>2, <1>3, <1>5, <1>6, <1>7 DEF DAP_ProcessCommand

LEMMA InitHolds == Init => TypeOK /\ Walk /\ Aligned /\ NeverFaster
<1> SUFFICES ASSUME Init PROVE TypeOK /\ Walk /\ Aligned /\ NeverFaster  OBVIOUS
<1>1. TypeOK
  <2>1. 0 \in 0 .. MaxCommands /\ 0 \in 0 .. MaxItems  BY Sizes
  <2>2. astray \in BOOLEAN /\ garbled \in BOOLEAN /\ excused \in BOOLEAN  BY DEF Init
  <2>3. cnt \in 0 .. MaxCommands /\ sequence_count \in 0 .. MaxItems  BY <2>1 DEF Init
  <2>4. sclk \in Nat \ {0}  BY Sizes DEF Init
  <2> QED  BY <2>2, <2>3, <2>4 DEF Init, TypeOK
<1>2. Walk  BY DEF Init, Walk, Sequencing
<1>3. Aligned  BY DEF Init, Aligned
<1>4. NeverFaster  BY DEF Init, NeverFaster
<1> QED  BY <1>1, <1>2, <1>3, <1>4

(* Every step keeps the types, the pointers with their counts, and the     *)
(* commands where the host put them.                                       *)
LEMMA NextHolds ==
  TypeOK /\ Walk /\ Aligned /\ [Next]_vars => TypeOK' /\ Walk' /\ Aligned'
<1> SUFFICES ASSUME TypeOK, Walk, Aligned, [Next]_vars PROVE TypeOK' /\ Walk' /\ Aligned'
  OBVIOUS
<1> USE CommandAssumption
<1>1. ASSUME NEW exact \in BOOLEAN, NEW complete \in BOOLEAN, Moves(exact, complete), cnt > 0
      PROVE  /\ pc' = "next" /\ cnt' \in 0 .. MaxCommands
             /\ astray' \in BOOLEAN /\ garbled' \in BOOLEAN
             /\ ~ Sequencing'
  BY <1>1 DEF Moves, TypeOK, Sequencing
<1>2. CASE DAP_ExecuteCommand
  <2>1. PICK c \in Command : DAP_ProcessCommand(c)  BY <1>2 DEF DAP_ExecuteCommand
  <2>2. /\ debug_port' \in {"disabled", "SWD"} /\ nreset' \in {"low", "released"}
        /\ sclk' \in Nat \ {0} /\ asked' \in Nat
    BY <2>1, HandlersPort
  <2>3. cnt > 0  BY <1>2 DEF DAP_ExecuteCommand
  <2>4. CASE Exact
    <3>1. cnt' \in 0 .. MaxCommands /\ ~ Sequencing'
      BY <2>3, <2>4 DEF Exact, TypeOK, Sequencing
    <3> QED  BY <2>2, <2>4, <3>1 DEF Exact, TypeOK, Walk, Aligned, seqVars
  <2>5. CASE StartSequence(c) /\ c.op \in {"SWD_Sequence", "JTAG_Sequence"}
    <3>1. c.arg \in 0 .. MaxItems  BY <2>5, Arguments
    <3> QED  BY <2>2, <2>3, <2>5, <3>1 DEF StartSequence, TypeOK, Walk, Aligned, Sequencing
  <2>6. CASE /\ \E exact, complete \in BOOLEAN : Moves(exact, complete)
             /\ excused' = TRUE /\ UNCHANGED seqVars
    BY <1>1, <2>2, <2>3, <2>6 DEF TypeOK, Walk, Aligned, seqVars
  <2> QED  BY <2>1, <2>4, <2>5, <2>6, HandlersExact
<1>3. CASE SequenceItem
  <2>1. PICK bits \in Bits, din \in BOOLEAN :
          LET count == Clocked(bits, 64)
              reads == pc = "SWD_Sequence" /\ din
          IN /\ request' = request + (IF reads THEN 1 ELSE 1 + count)
             /\ request_count' = request_count + (IF reads THEN 1 ELSE count + 1)
             /\ response' = response + (IF reads THEN count ELSE 0)
             /\ response_count' = response_count + (IF reads THEN count ELSE 0)
    BY <1>3 DEF SequenceItem
  <2>2. Clocked(bits, 64) \in Nat
    <3>1. (IF bits = 0 THEN 64 ELSE bits) \in Nat  OBVIOUS
    <3> QED  BY <3>1, BytesNat DEF Clocked
  <2>3. /\ request' \in Nat /\ response' \in Nat
        /\ request' = request_count' /\ response' = response_count'
    BY <2>1, <2>2 DEF TypeOK, Walk
  <2>4. sequence_count' \in 0 .. MaxItems  BY <1>3 DEF SequenceItem, TypeOK
  <2> QED  BY <1>3, <2>3, <2>4 DEF SequenceItem, TypeOK, Walk, Aligned, portVars, Sequencing
<1>4. CASE SequenceEnd
  <2>1. cnt > 0 /\ Moves(TRUE, TRUE)
    BY <1>4 DEF SequenceEnd, Walk, Sequencing
  <2>2. astray' = astray /\ garbled' = garbled  BY <2>1 DEF Moves, TypeOK
  <2> QED  BY <1>1, <1>4, <2>1, <2>2 DEF SequenceEnd, TypeOK, Walk, Aligned, portVars
<1>5. CASE Finish
  BY <1>5 DEF Finish, TypeOK, Walk, Aligned, portVars, seqVars, Sequencing
<1>6. CASE Respond
  BY <1>6 DEF Respond, TypeOK, Walk, Aligned, portVars, seqVars, Sequencing
<1>7. ASSUME NEW n \in 0 .. MaxCommands, Packet(n) PROVE TypeOK' /\ Walk' /\ Aligned'
  BY <1>7 DEF Packet, TypeOK, Walk, Aligned, portVars, seqVars, Sequencing
<1>8. CASE UNCHANGED vars
  BY <1>8 DEF vars, TypeOK, Walk, Aligned, portVars, seqVars, Sequencing
<1> QED  BY <1>2, <1>3, <1>4, <1>5, <1>6, <1>7, <1>8 DEF Next, Engine

(* Every variable keeps to its range; no count of commands or sequences    *)
(* runs below zero.                                                        *)
THEOREM TypeCorrect == Spec => []TypeOK
BY InitHolds, NextHolds, PTL DEF Spec

(* Every command of a packet is looked for where the host put it, unless   *)
(* one before it was unknown or a transfer list failed.                    *)
THEOREM CommandsAligned == Spec => []Aligned
BY InitHolds, NextHolds, PTL DEF Spec

----------------------------------------------------------------------------
(* A host that asks only for clocks the divider makes, or for the fastest, *)
(* never has its target clocked faster than it asked.                      *)
THEOREM ClockNeverFaster ==
  ASSUME \A hz \in Clocks : hz = 0 \/ hz >= Source \/ Divisible(hz)
  PROVE  Spec => []NeverFaster
<1>1. TypeOK /\ NeverFaster /\ [Next]_vars => NeverFaster'
  <2> SUFFICES ASSUME TypeOK, NeverFaster, [Next]_vars PROVE NeverFaster'  OBVIOUS
  <2>1. CASE UNCHANGED <<sclk, asked>>  BY <2>1 DEF NeverFaster
  <2>2. CASE DAP_ExecuteCommand
    <3>1. PICK c \in Command : DAP_ProcessCommand(c)  BY <2>2 DEF DAP_ExecuteCommand
    <3>2. \/ UNCHANGED <<sclk, asked>>
          \/ /\ c.arg \in Clocks \ {0} /\ asked' = c.arg
             /\ c.arg >= Source \/ Divisible(c.arg) => sclk' <= c.arg
      BY <3>1, HandlersPort
    <3> QED  BY <2>1, <3>2 DEF NeverFaster
  <2>3. CASE SequenceItem \/ SequenceEnd \/ Finish \/ Respond
    BY <2>1, <2>3 DEF SequenceItem, SequenceEnd, Finish, Respond, portVars
  <2>4. ASSUME NEW n \in 0 .. MaxCommands, Packet(n) PROVE NeverFaster'
    BY <2>1, <2>4 DEF Packet, portVars
  <2>5. CASE UNCHANGED vars  BY <2>1, <2>5 DEF vars, portVars
  <2> QED  BY <2>2, <2>3, <2>4, <2>5 DEF Next, Engine
<1> QED  BY <1>1, InitHolds, NextHolds, PTL DEF Spec
=============================================================================
