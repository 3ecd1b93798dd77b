--------------------------- MODULE MCFrameParser ----------------------------
(***************************************************************************)
(* FrameParser with the check value CRC-16/CCITT-FALSE is published with:  *)
(* the checksum of the digits 1 to 9 is 0x29B1.                            *)
(***************************************************************************)
EXTENDS FrameParser

ASSUME CrcCheckValue == Value[exlink_crc16([i \in 1 .. 9 |-> 48 + i])] = 10673
============================================================================
