---------------------------- MODULE FrameGrammar ----------------------------
(***************************************************************************)
(* What a command frame is, said of whole byte strings: which strings are  *)
(* frames, which may become one, and which bytes of a frame under way a    *)
(* parser of FrameCodec stands for.                                        *)
(***************************************************************************)
EXTENDS FrameCodec

Announced(s) == s[4] + 256 * s[5]

TooLong(s)  == Len(s) = EXLINK_HEADER_LEN /\ Announced(s) > EXLINK_MAX_PAYLOAD
Complete(s) == /\ Len(s) >= EXLINK_HEADER_LEN
               /\ Len(s) = EXLINK_FRAME_OVERHEAD + Announced(s)

Body(s)   == SubSeq(s, 1, Len(s) - EXLINK_CRC_LEN)
Intact(s) == Bits(s[Len(s) - 1] + 256 * s[Len(s)]) = exlink_crc16(Body(s))

MayBegin(s) == /\ Len(s) >= 1 => s[1] = EXLINK_MAGIC0
               /\ Len(s) >= 2 => s[2] = EXLINK_MAGIC1

(* A byte string the parser decides on at its last byte and not before: a  *)
(* frame whose length fits, or a header that announces too much.           *)
Decided(r) ==
  /\ r \in Bytes
  /\ Len(r) >= EXLINK_HEADER_LEN
  /\ MayBegin(r)
  /\ TooLong(r) \/ (Complete(r) /\ Announced(r) <= EXLINK_MAX_PAYLOAD)

(* The longest end of s that may begin a frame; the empty one always may.  *)
LongestBeginning(s) ==
  LET from == {i \in 1 .. Len(s) + 1 : MayBegin(SubSeq(s, i, Len(s)))}
  IN  SubSeq(s, Min(from), Len(s))

----------------------------------------------------------------------------
(* The bytes of the frame under way that parser p has taken, read back     *)
(* from its fields.                                                        *)
Header(p) == <<EXLINK_MAGIC0, EXLINK_MAGIC1, p.op, LowByte(p.len), HighByte(p.len)>>

Pending(p) ==
  CASE p.state = "MAGIC0" -> <<>>
    [] p.state = "MAGIC1" -> <<EXLINK_MAGIC0>>
    [] p.state = "OP"     -> <<EXLINK_MAGIC0, EXLINK_MAGIC1>>
    [] p.state = "LEN_LO" -> <<EXLINK_MAGIC0, EXLINK_MAGIC1, p.op>>
    [] p.state = "LEN_HI" -> <<EXLINK_MAGIC0, EXLINK_MAGIC1, p.op, p.len>>
    [] p.state \in {"PAYLOAD", "CRC_LO"} -> Header(p) \o p.payload
    [] p.state = "CRC_HI" -> Append(Header(p) \o p.payload, p.crc_rx)
=============================================================================
