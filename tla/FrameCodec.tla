----------------------------- MODULE FrameCodec -----------------------------
(***************************************************************************)
(* The command frame of ExLink as frame_parser.c encodes and decodes it:   *)
(* CRC-16/CCITT-FALSE, exlink_frame_build and the byte automaton           *)
(* exlink_parser_feed.                                                     *)
(*                                                                         *)
(*   MAGIC0 MAGIC1 OP LEN_LO LEN_HI PAYLOAD... CRC_LO CRC_HI               *)
(*                                                                         *)
(* A CRC register is the set of the positions of its one-bits, so that xor *)
(* is the symmetric difference.                                            *)
(***************************************************************************)
EXTENDS Naturals, Sequences, FiniteSetsExt

CONSTANT EXLINK_MAX_PAYLOAD    \* largest payload, in bytes

ASSUME MaxPayloadAssumption == EXLINK_MAX_PAYLOAD \in 0 .. 65535

Byte == 0 .. 255

EXLINK_MAGIC0         == 76
EXLINK_MAGIC1         == 75
EXLINK_HEADER_LEN     == 5
EXLINK_CRC_LEN        == 2
EXLINK_FRAME_OVERHEAD == EXLINK_HEADER_LEN + EXLINK_CRC_LEN
EXLINK_MAX_FRAME      == EXLINK_FRAME_OVERHEAD + EXLINK_MAX_PAYLOAD

(* Definitions named <definition>_<what> are mutated forms: see DapLink.   *)

----------------------------------------------------------------------------
(* CRC-16/CCITT-FALSE.                                                     *)

(* What bit k of a register is worth. *)
Weight == [k \in 0 .. 15 |->
             <<1, 2, 4, 8, 16, 32, 64, 128, 256, 512, 1024, 2048, 4096, 8192, 16384,
               32768>>[k + 1]]

Bits(n) == {k \in 0 .. 15 : (n \div Weight[k]) % 2 = 1}

EXLINK_CRC16_POLY == {0, 5, 12}
EXLINK_CRC16_INIT == 0 .. 15

Register == SUBSET (0 .. 15)
(* a xor b, as a function of a and then of b. *)
Xor == [a \in Register |-> [b \in Register |-> (a \ b) \cup (b \ a)]]

(* One bit: shift, and subtract the polynomial when a one falls out.       *)
CrcBit == [crc \in Register |->
             LET shifted == {k + 1 : k \in crc \ {15}}
             IN  IF 15 \in crc THEN Xor[shifted][EXLINK_CRC16_POLY] ELSE shifted]

(* One byte, entering at the high end: eight bits. *)
exlink_crc16_update(crc, byte) ==
  CrcBit[CrcBit[CrcBit[CrcBit[CrcBit[CrcBit[CrcBit[CrcBit[
    Xor[crc][{k + 8 : k \in Bits(byte) \cap (0 .. 7)}]]]]]]]]]

(* A whole buffer. *)
exlink_crc16(buf) ==
  LET after[i \in 0 .. Len(buf)] == IF i = 0 THEN EXLINK_CRC16_INIT
                                    ELSE exlink_crc16_update(after[i - 1], buf[i])
  IN  after[Len(buf)]

(* The number in a register, and the bytes of a 16-bit number. *)
Value ==
  [crc \in Register |->
     LET top[k \in 0 .. 16] == IF k = 0 THEN 0
                               ELSE 2 * top[k - 1] + (IF 16 - k \in crc THEN 1 ELSE 0)
     IN  top[16]]
LowByte(n)  == n % 256
HighByte(n) == (n \div 256) % 256

----------------------------------------------------------------------------
(* Building.                                                               *)

exlink_frame_build_highFirst(op, payload, out_cap) ==
  LET body == <<EXLINK_MAGIC0, EXLINK_MAGIC1, op, LowByte(Len(payload)),
                HighByte(Len(payload))>> \o payload
      crc  == Value[exlink_crc16(body)]
  IN  IF Len(payload) > EXLINK_MAX_PAYLOAD
           \/ EXLINK_FRAME_OVERHEAD + Len(payload) > out_cap
        THEN <<>>
        ELSE body \o <<HighByte(crc), LowByte(crc)>>

(* The frame of a payload, or nothing when it is too long or does not fit. *)
exlink_frame_build(op, payload, out_cap) ==
  LET body == <<EXLINK_MAGIC0, EXLINK_MAGIC1, op, LowByte(Len(payload)),
                HighByte(Len(payload))>> \o payload
      crc  == Value[exlink_crc16(body)]
  IN  IF Len(payload) > EXLINK_MAX_PAYLOAD
           \/ EXLINK_FRAME_OVERHEAD + Len(payload) > out_cap
        THEN <<>>
        ELSE body \o <<LowByte(crc), HighByte(crc)>>

----------------------------------------------------------------------------
(* Parsing.  The payload received so far is a sequence; its length is the  *)
(* parser's idx.                                                           *)

States == {"MAGIC0", "MAGIC1", "OP", "LEN_LO", "LEN_HI", "PAYLOAD", "CRC_LO", "CRC_HI"}

Word   == 0 .. 65535
Bytes  == Seq(Byte)
Parser == [state : States, op : Byte, len : Word, payload : Bytes,
           crc_calc : Register, crc_rx : Word]

(* The payload of parser p never outgrows its buffer, and while it is      *)
(* being received there is room for the byte to come: idx stays below len, *)
(* and len was checked.                                                    *)
PayloadFits(p) ==
  /\ Len(p.payload) <= EXLINK_MAX_PAYLOAD
  /\ p.state = "PAYLOAD" => Len(p.payload) < p.len /\ p.len <= EXLINK_MAX_PAYLOAD

exlink_parser_init ==
  [state |-> "MAGIC0", op |-> 0, len |-> 0, payload |-> <<>>,
   crc_calc |-> EXLINK_CRC16_INIT, crc_rx |-> 0]

(* What the LEN_HI and CRC_HI branches decide on. *)
FullLen(p, byte)  == p.len + 256 * byte
LenFits_allowsOne(p, byte) == FullLen(p, byte) <= EXLINK_MAX_PAYLOAD + 1
LenFits(p, byte)  == FullLen(p, byte) <= EXLINK_MAX_PAYLOAD
CrcFits_unchecked(p, byte) == TRUE
CrcFits(p, byte)  == Bits(p.crc_rx + 256 * byte) = p.crc_calc

(* The value exlink_parser_feed returns. *)
FeedResult(p, byte) ==
  CASE p.state = "LEN_HI" /\ ~ LenFits(p, byte) -> "BAD_LEN"
    [] p.state = "CRC_HI" -> IF CrcFits(p, byte) THEN "OK" ELSE "BAD_CRC"
    [] OTHER -> "NONE"

FeedMagic1_forgetsMagic0(p, byte) ==
  IF byte = EXLINK_MAGIC1
    THEN [p EXCEPT !.state = "OP", !.crc_calc = exlink_crc16_update(p.crc_calc, byte)]
    ELSE [p EXCEPT !.state = "MAGIC0"]

(* A second MAGIC0 may be the one that starts the frame. *)
FeedMagic1(p, byte) ==
  IF byte = EXLINK_MAGIC1
    THEN [p EXCEPT !.state = "OP", !.crc_calc = exlink_crc16_update(p.crc_calc, byte)]
    ELSE IF byte = EXLINK_MAGIC0
      THEN [p EXCEPT !.crc_calc = exlink_crc16_update(EXLINK_CRC16_INIT, byte)]
      ELSE [p EXCEPT !.state = "MAGIC0"]

FeedLenHi_noReset(p, byte) ==
  [p EXCEPT !.len = FullLen(p, byte),
            !.payload = <<>>,
            !.crc_calc = exlink_crc16_update(p.crc_calc, byte),
            !.state = CASE FullLen(p, byte) = 0 -> "CRC_LO"
                        [] FullLen(p, byte) > 0 /\ LenFits(p, byte) -> "PAYLOAD"
                        [] OTHER -> "LEN_HI"]

(* An impossible length starts the parser afresh; an empty payload is skipped. *)
FeedLenHi(p, byte) ==
  IF LenFits(p, byte)
    THEN [p EXCEPT !.len = FullLen(p, byte),
                   !.payload = <<>>,
                   !.crc_calc = exlink_crc16_update(p.crc_calc, byte),
                   !.state = IF FullLen(p, byte) = 0 THEN "CRC_LO" ELSE "PAYLOAD"]
    ELSE exlink_parser_init

FeedPayload_oneTooMany(p, byte) ==
  [p EXCEPT !.payload = Append(p.payload, byte),
            !.crc_calc = exlink_crc16_update(p.crc_calc, byte),
            !.state = IF Len(p.payload) >= p.len THEN "CRC_LO" ELSE "PAYLOAD"]

FeedPayload(p, byte) ==
  [p EXCEPT !.payload = Append(p.payload, byte),
            !.crc_calc = exlink_crc16_update(p.crc_calc, byte),
            !.state = IF Len(p.payload) + 1 >= p.len THEN "CRC_LO" ELSE "PAYLOAD"]

FeedCrcHi_resetsAll(p, byte) == exlink_parser_init

(* After a frame the parser hunts for the next magic and leaves op, len    *)
(* and payload for the caller to read.                                     *)
FeedCrcHi(p, byte) ==
  [p EXCEPT !.state = "MAGIC0",
            !.crc_rx = p.crc_rx + 256 * byte,
            !.crc_calc = EXLINK_CRC16_INIT]

(* The parser after one byte. *)
exlink_parser_feed(p, byte) ==
  LET covered == exlink_crc16_update(p.crc_calc, byte)
  IN  CASE p.state = "MAGIC0" ->
             IF byte = EXLINK_MAGIC0
               THEN [p EXCEPT !.state = "MAGIC1",
                              !.crc_calc = exlink_crc16_update(EXLINK_CRC16_INIT, byte)]
               ELSE p
        [] p.state = "MAGIC1"  -> FeedMagic1(p, byte)
        [] p.state = "OP"      -> [p EXCEPT !.state = "LEN_LO", !.op = byte,
                                            !.crc_calc = covered]
        [] p.state = "LEN_LO"  -> [p EXCEPT !.state = "LEN_HI", !.len = byte,
                                            !.crc_calc = covered]
        [] p.state = "LEN_HI"  -> FeedLenHi(p, byte)
        [] p.state = "PAYLOAD" -> FeedPayload(p, byte)
        [] p.state = "CRC_LO"  -> [p EXCEPT !.state = "CRC_HI", !.crc_rx = byte]
        [] p.state = "CRC_HI"  -> FeedCrcHi(p, byte)

(* The parser after each prefix of a byte string, as a function from the   *)
(* number of bytes fed.                                                    *)
FeedAll(p, bytes) ==
  LET after[i \in 0 .. Len(bytes)] == IF i = 0 THEN p
                                      ELSE exlink_parser_feed(after[i - 1], bytes[i])
  IN  after
============================================================================
