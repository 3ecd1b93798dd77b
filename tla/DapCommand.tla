----------------------------- MODULE DapCommand -----------------------------
(***************************************************************************)
(* The command processor of the probe (arm/DAP.c): a packet of one command *)
(* or of a list of them, carried out one after the other on the port, and  *)
(* what the commands leave behind: the debug port, the reset line of the   *)
(* target and the clock of the wire.                                       *)
(*                                                                         *)
(* A handler reports how many bytes it took from the packet and how many   *)
(* it put into the response; the next command is looked for behind them.   *)
(* The reports are compared with the CMSIS-DAP layout of each command,     *)
(* which is what the host writes and how it reads the response.  The data  *)
(* of the transfer commands is the matter of module SwdTransfer.  What a   *)
(* packet holds is chosen when the processor gets to it.                   *)
(***************************************************************************)
EXTENDS Naturals

CONSTANTS
  MaxCommands,   \* bound: commands of a packet
  MaxItems,      \* bound: sequences of a sequence command
  Bits,          \* bit counts of the sequences of the host
  Counts,        \* accesses of the blocks of the host
  Clocks,        \* clocks the host asks for, in units of 100 kHz
  Source,        \* clock of the SPI (80 MHz in the code)
  DefaultClock   \* SWCLK after dap_swd_spi_init (10 MHz in the code)

ASSUME CommandAssumption ==
  /\ MaxCommands \in Nat /\ MaxItems \in Nat
  /\ Bits \subseteq 0 .. 255 /\ Counts \subseteq Nat
  /\ Clocks \subseteq Nat
  /\ Source \in Nat \ {0} /\ DefaultClock \in Nat \ {0}

Plain == {"Info", "HostStatus", "Disconnect", "Delay", "ResetTarget", "Transfer",
          "SWD_Configure", "JTAG_IDCODE", "TransferConfigure", "WriteABORT"}

(* `arg' is what the argument selects, for a sequence command the number   *)
(* of its sequences, for a command this processor does not know the number *)
(* of bytes that follow it.                                                *)
Command ==
  [op : Plain, arg : {0}]
    \cup [op : {"Connect"}, arg : {"default", "SWD", "JTAG"}]
    \cup [op : {"SWJ_Pins"}, arg : {"assert", "release", "others"}]
    \cup [op : {"SWJ_Clock"}, arg : Clocks]
    \cup [op : {"SWJ_Sequence"}, arg : Bits]
    \cup [op : {"SWD_Sequence", "JTAG_Sequence"}, arg : 0 .. MaxItems]
    \cup [op : {"BlockRead", "BlockWrite", "JTAG_Configure"}, arg : Counts]
    \cup [op : {"unknown", "Vendor"}, arg : Counts]

VARIABLES
  debug_port,      \* DAP_Data.debug_port
  nreset,          \* the nRESET pin: pulled low or left to the pull-up
  sclk,            \* SWCLK, as the divider of the SPI makes it
  asked,           \* history: the clock of the last DAP_SWJ_Clock answered OK
  pc,              \* idle, at the next command, in a sequence command, done
  cnt,             \* commands of the packet still to come
  astray,          \* `request' is not where the host put the next command
  garbled,         \* `response' is not where the host looks for the next answer
  excused,         \* history: a command of the packet was unknown, or failed
  sequence_count,  \* sequences of the command still to come
  request,         \* bytes of the sequence command read
  request_count,
  response,        \* bytes of its answer written
  response_count

portVars == <<debug_port, nreset, sclk, asked>>
seqVars  == <<sequence_count, request, request_count, response, response_count>>
vars     == <<portVars, pc, cnt, astray, garbled, excused, seqVars>>

TypeOK ==
  /\ debug_port \in {"disabled", "SWD"}
  /\ nreset \in {"low", "released"}
  /\ sclk \in Nat \ {0} /\ asked \in Nat
  /\ pc \in {"idle", "next", "SWD_Sequence", "JTAG_Sequence", "done"}
  /\ cnt \in 0 .. MaxCommands
  /\ astray \in BOOLEAN /\ garbled \in BOOLEAN /\ excused \in BOOLEAN
  /\ sequence_count \in 0 .. MaxItems
  /\ request \in Nat /\ request_count \in Nat
  /\ response \in Nat /\ response_count \in Nat

(* DAP_Setup, then dap_swd_spi_init.                                       *)
Init ==
  /\ debug_port = "disabled" /\ nreset = "released"
  /\ sclk = DefaultClock /\ asked = 0
  /\ pc = "idle" /\ cnt = 0
  /\ astray = FALSE /\ garbled = FALSE /\ excused = FALSE
  /\ sequence_count = 0
  /\ request = 0 /\ request_count = 0 /\ response = 0 /\ response_count = 0

(* Definitions named <definition>_<what> are mutated forms: see DapLink.   *)

----------------------------------------------------------------------------
(* The two sides of the packet.                                            *)

BytesOf(bits) == (bits + 7) \div 8
Clocked(bits, most) == BytesOf(IF bits = 0 THEN most ELSE bits)

(* CMSIS-DAP: the bytes behind the command byte, in the packet and in the  *)
(* answer; data whose length the answer itself gives is not counted.       *)
Laid(c) ==
  CASE c.op \in {"Info", "Connect", "SWD_Configure", "JTAG_IDCODE"} -> <<1, 1>>
    [] c.op \in {"HostStatus", "Delay"}          -> <<2, 1>>
    [] c.op = "Disconnect"                       -> <<0, 1>>
    [] c.op = "ResetTarget"                      -> <<0, 2>>
    [] c.op = "SWJ_Pins"                         -> <<6, 1>>
    [] c.op = "SWJ_Clock"                        -> <<4, 1>>
    [] c.op = "SWJ_Sequence"                     -> <<1 + Clocked(c.arg, 256), 1>>
    [] c.op \in {"TransferConfigure", "WriteABORT"} -> <<5, 1>>
    [] c.op = "BlockRead"                        -> <<4, 3>>
    [] c.op = "BlockWrite"                       -> <<4 + 4 * c.arg, 3>>
    [] c.op = "JTAG_Configure"                   -> <<1 + c.arg, 1>>
    [] c.op \in {"unknown", "Vendor"}            -> <<c.arg, 0>>

(* A handler returns: the next command and its answer are looked for       *)
(* `taken' bytes on in the packet and `put' bytes on in the response.      *)
Moves(takenRight, putRight) ==
  /\ pc' = "next"
  /\ cnt' = cnt - 1
  /\ astray' = (astray \/ ~ takenRight)
  /\ garbled' = (garbled \/ ~ putRight)

Returns(c, taken, put) ==
  /\ Moves(taken = Laid(c)[1], put = Laid(c)[2])
  /\ UNCHANGED <<excused, seqVars>>

----------------------------------------------------------------------------
(* The handlers.                                                           *)

DAP_Info(c) ==
  /\ c.op = "Info"
  /\ Returns(c, 1, 1)
  /\ UNCHANGED portVars

DAP_HostStatus(c) ==
  /\ c.op = "HostStatus"
  /\ Returns(c, 2, 1)
  /\ UNCHANGED portVars

(* A port the probe does not have is refused; the port in use stays.       *)
DAP_Connect(c) ==
  /\ c.op = "Connect"
  /\ IF c.arg \in {"default", "SWD"}
       THEN debug_port' = "SWD" /\ nreset' = "released"
       ELSE UNCHANGED <<debug_port, nreset>>
  /\ Returns(c, 1, 1)
  /\ UNCHANGED <<sclk, asked>>

(* The reset line is left as it is.                                        *)
DAP_Disconnect(c) ==
  /\ c.op = "Disconnect"
  /\ debug_port' = "disabled"
  /\ Returns(c, 0, 1)
  /\ UNCHANGED <<nreset, sclk, asked>>

DAP_Delay(c) ==
  /\ c.op = "Delay"
  /\ Returns(c, 2, 1)
  /\ UNCHANGED portVars

(* RESET_TARGET pulls the line low and releases it.                        *)
DAP_ResetTarget(c) ==
  /\ c.op = "ResetTarget"
  /\ nreset' = "released"
  /\ Returns(c, 0, 2)
  /\ UNCHANGED <<debug_port, sclk, asked>>

(* SWCLK and SWDIO belong to the SPI; writing their GPIO has no effect.    *)
DAP_SWJ_Pins(c) ==
  /\ c.op = "SWJ_Pins"
  /\ nreset' = CASE c.arg = "assert"  -> "low"
                 [] c.arg = "release" -> "released"
                 [] c.arg = "others"  -> nreset
  /\ Returns(c, 6, 1)
  /\ UNCHANGED <<debug_port, sclk, asked>>

(* The divider of the SPI: a clock it cannot make exactly, with an even    *)
(* quotient of at most 510, is refused and the divider stays.              *)
Divisible(hz) ==
  Source % hz = 0 /\ (Source \div hz) % 2 = 0 /\ Source \div hz <= 510

spi_master_timing_init(hz) ==
  sclk' = IF hz >= Source THEN Source
          ELSE IF Divisible(hz)
            THEN LET sclk_div == (Source \div hz) \div 2 - 1
                 IN Source \div (2 * (sclk_div + 1))
            ELSE sclk

(* The refusal goes unnoticed.                                             *)
dap_swd_spi_set_clock_forgotten(hz) == UNCHANGED sclk
dap_swd_spi_set_clock(hz) ==
  spi_master_timing_init(IF hz = 0 \/ hz > Source THEN Source ELSE hz)

DAP_SWJ_Clock(c) ==
  /\ c.op = "SWJ_Clock"
  /\ IF c.arg = 0
       THEN UNCHANGED <<sclk, asked>>
       ELSE dap_swd_spi_set_clock(c.arg) /\ asked' = c.arg
  /\ Returns(c, 4, 1)
  /\ UNCHANGED <<debug_port, nreset>>

DAP_SWJ_Sequence(c) ==
  /\ c.op = "SWJ_Sequence"
  /\ LET count == IF c.arg = 0 THEN 256 ELSE c.arg
     IN Returns(c, (count + 7) \div 8 + 1, 1)
  /\ UNCHANGED portVars

DAP_SWD_Configure(c) ==
  /\ c.op = "SWD_Configure"
  /\ Returns(c, 1, 1)
  /\ UNCHANGED portVars

(* The sequence commands walk the packet and count what they return apart. *)
StartSequence(c) ==
  /\ pc' = c.op
  /\ sequence_count' = c.arg
  /\ request' = 1 /\ request_count' = 1
  /\ response' = 1 /\ response_count' = 1
  /\ UNCHANGED <<portVars, cnt, astray, garbled, excused>>

DAP_SWD_Sequence(c)  == c.op = "SWD_Sequence" /\ StartSequence(c)
DAP_JTAG_Sequence(c) == c.op = "JTAG_Sequence" /\ StartSequence(c)

SequenceItem_infoUncounted ==
  /\ pc \in {"SWD_Sequence", "JTAG_Sequence"} /\ sequence_count > 0
  /\ \E bits \in Bits, din \in BOOLEAN :
       LET count == Clocked(bits, 64)
           reads == pc = "SWD_Sequence" /\ din
       IN
        /\ request' = request + (IF reads THEN 1 ELSE 1 + count)
        /\ request_count' = request_count + (IF reads THEN 0 ELSE count + 1)
        /\ response' = response + (IF reads THEN count ELSE 0)
        /\ response_count' = response_count + (IF reads THEN count ELSE 0)
  /\ sequence_count' = sequence_count - 1
  /\ UNCHANGED <<portVars, pc, cnt, astray, garbled, excused>>
SequenceItem ==
  /\ pc \in {"SWD_Sequence", "JTAG_Sequence"} /\ sequence_count > 0
  /\ \E bits \in Bits, din \in BOOLEAN :
       LET count == Clocked(bits, 64)
           reads == pc = "SWD_Sequence" /\ din
       IN
        /\ request' = request + (IF reads THEN 1 ELSE 1 + count)
        /\ request_count' = request_count + (IF reads THEN 1 ELSE count + 1)
        /\ response' = response + (IF reads THEN count ELSE 0)
        /\ response_count' = response_count + (IF reads THEN count ELSE 0)
  /\ sequence_count' = sequence_count - 1
  /\ UNCHANGED <<portVars, pc, cnt, astray, garbled, excused>>

SequenceEnd ==
  /\ pc \in {"SWD_Sequence", "JTAG_Sequence"} /\ sequence_count = 0
  /\ Moves(request_count = request, response_count = response)
  /\ request' = 0 /\ request_count' = 0 /\ response' = 0 /\ response_count' = 0
  /\ UNCHANGED <<portVars, excused, sequence_count>>

DAP_JTAG_Configure(c) ==
  /\ c.op = "JTAG_Configure"
  /\ Returns(c, c.arg + 1, 1)
  /\ UNCHANGED portVars

DAP_JTAG_IDCode(c) ==
  /\ c.op = "JTAG_IDCODE"
  /\ Returns(c, 1, 1)
  /\ UNCHANGED portVars

DAP_TransferConfigure(c) ==
  /\ c.op = "TransferConfigure"
  /\ Returns(c, 5, 1)
  /\ UNCHANGED portVars

(* A list that is carried out, or passed over without a port, reports its  *)
(* own length; one that fails may report more (module SwdTransfer) and     *)
(* counts a read whose data is lost.                                       *)
DAP_Transfer(c) ==
  /\ c.op = "Transfer"
  /\ \/ Moves(TRUE, TRUE) /\ UNCHANGED excused
     \/ /\ debug_port = "SWD"
        /\ \E exact, complete \in BOOLEAN : Moves(exact, complete)
        /\ excused' = TRUE
  /\ UNCHANGED <<portVars, seqVars>>

(* The wrapper takes the length from the count, whatever was carried out.  *)
DAP_TransferBlock(c) ==
  /\ c.op \in {"BlockRead", "BlockWrite"}
  /\ Returns(c, IF c.op = "BlockRead" THEN 4 ELSE 4 + 4 * c.arg, 3)
  /\ UNCHANGED portVars

DAP_WriteAbort(c) ==
  /\ c.op = "WriteABORT"
  /\ Returns(c, 5, 1)
  /\ UNCHANGED portVars

(* Unknown commands, and those of the vendor, are taken for a single byte. *)
Invalid(c) ==
  /\ c.op \in {"unknown", "Vendor"}
  /\ Moves(c.arg = 0, TRUE)
  /\ excused' = TRUE
  /\ UNCHANGED <<portVars, seqVars>>

----------------------------------------------------------------------------
DAP_ProcessCommand(c) ==
  \/ DAP_Info(c) \/ DAP_HostStatus(c) \/ DAP_Connect(c) \/ DAP_Disconnect(c)
  \/ DAP_Delay(c) \/ DAP_ResetTarget(c)
  \/ DAP_SWJ_Pins(c) \/ DAP_SWJ_Clock(c) \/ DAP_SWJ_Sequence(c)
  \/ DAP_SWD_Configure(c) \/ DAP_SWD_Sequence(c)
  \/ DAP_JTAG_Sequence(c) \/ DAP_JTAG_Configure(c) \/ DAP_JTAG_IDCode(c)
  \/ DAP_TransferConfigure(c) \/ DAP_Transfer(c) \/ DAP_TransferBlock(c)
  \/ DAP_WriteAbort(c)
  \/ Invalid(c)

(* The host writes a packet: one command, or a counted list of them.       *)
Packet(n) ==
  /\ pc = "idle"
  /\ pc' = "next"
  /\ cnt' = n
  /\ UNCHANGED <<portVars, astray, garbled, excused, seqVars>>

(* The loop over the list.                                                 *)
DAP_ExecuteCommand_countsLate ==
  /\ pc = "next"
  /\ \E c \in Command : DAP_ProcessCommand(c)
DAP_ExecuteCommand ==
  /\ pc = "next" /\ cnt > 0
  /\ \E c \in Command : DAP_ProcessCommand(c)

Finish ==
  /\ pc = "next" /\ cnt = 0
  /\ pc' = "done"
  /\ UNCHANGED <<portVars, cnt, astray, garbled, excused, seqVars>>

Respond ==
  /\ pc = "done"
  /\ pc' = "idle"
  /\ astray' = FALSE /\ garbled' = FALSE /\ excused' = FALSE
  /\ UNCHANGED <<portVars, cnt, seqVars>>

Engine == DAP_ExecuteCommand \/ SequenceItem \/ SequenceEnd \/ Finish \/ Respond
Next   == Engine \/ \E n \in 0 .. MaxCommands : Packet(n)
Spec   == Init /\ [][Next]_vars

----------------------------------------------------------------------------
(* Properties.                                                             *)

(* Every command of a packet is looked for where the host put it, and its  *)
(* answer is where the host looks for it, as long as the list holds no     *)
(* command the processor does not know and no transfer list that failed.   *)
Aligned == astray \/ garbled => excused

(* The wire is never clocked faster than the host asked, once a clock was  *)
(* accepted: DAP_SWJ_Clock sets the frequency the host asked for.          *)
NeverFaster == asked # 0 => sclk <= asked
=============================================================================
