---------------------------- MODULE FrameParser -----------------------------
(***************************************************************************)
(* The frame parser of ExLink at work: exlink_parser_feed called with one  *)
(* byte after the other.  The bytes come from a small alphabet, to which   *)
(* the right checksum is added so that intact frames occur.                *)
(***************************************************************************)
EXTENDS FrameGrammar

CONSTANT Alphabet    \* bytes the stream is made of

ASSUME AlphabetAssumption == Alphabet \subseteq Byte

VARIABLES
  parser,    \* the parser
  byte,      \* the byte fed last
  result     \* what exlink_parser_feed returned for it

vars == <<parser, byte, result>>

TypeOK ==
  /\ parser \in Parser
  /\ byte \in Byte
  /\ result \in {"NONE", "OK", "BAD_CRC", "BAD_LEN"}
  /\ PayloadFits(parser)

Init ==
  /\ parser = exlink_parser_init
  /\ byte = 0
  /\ result = "NONE"

(* What may come next: where the checksum is due, the right one too.       *)
Stream ==
  CASE parser.state = "CRC_LO" -> Alphabet \cup {LowByte(Value[parser.crc_calc])}
    [] parser.state = "CRC_HI" -> Alphabet \cup {HighByte(Value[parser.crc_calc])}
    [] OTHER -> Alphabet

Feed(b) ==
  /\ byte' = b
  /\ result' = FeedResult(parser, b)
  /\ parser' = exlink_parser_feed(parser, b)

Next == \E b \in Stream : Feed(b)

Spec == Init /\ [][Next]_vars

----------------------------------------------------------------------------
Scanner == INSTANCE FrameScanner WITH
             pending <- Pending(parser),
             verdict <- result,
             frame   <- IF result = "OK"
                          THEN <<parser.op, parser.len, parser.payload>> ELSE <<>>

(* The automaton implements the scanner: same verdict on the same byte,    *)
(* same operation, length and payload to read after it.  Of a string that  *)
(* is not yet judged it keeps the longest end that may begin a frame; one  *)
(* judged BAD_CRC or BAD_LEN is dropped whole, a frame that began inside   *)
(* it included (frame_parser.c:134, :161).                                 *)
ScannerImplemented == Scanner!Spec

(* What exlink_frame_build makes, the parser takes: from a hunting parser, *)
(* a stray MAGIC0 just heard included, the last byte of a built frame, and *)
(* no earlier one, gives OK with what was built.  (What older frames left  *)
(* in the fields plays no part, as ScannerImplemented shows.)              *)
Hunting == parser \in {exlink_parser_init,
                       exlink_parser_feed(exlink_parser_init, EXLINK_MAGIC0)}
Payloads == UNION {[1 .. n -> Alphabet] : n \in 0 .. EXLINK_MAX_PAYLOAD}
RoundTrip ==
  Hunting => \A op \in Alphabet, payload \in Payloads :
    LET built == exlink_frame_build(op, payload, EXLINK_MAX_FRAME)
        n     == Len(built)
        after == FeedAll(parser, built)
        got   == [i \in 1 .. n |-> FeedResult(after[i - 1], built[i])]
    IN  /\ n = EXLINK_FRAME_OVERHEAD + Len(payload)
        /\ \A i \in 1 .. n : got[i] = IF i = n THEN "OK" ELSE "NONE"
        /\ after[n].op = op /\ after[n].len = n - EXLINK_FRAME_OVERHEAD
        /\ after[n].payload = payload

(* A parser that lost its place, in the middle of a frame whose end never  *)
(* comes, is back hunting after a frame's worth of zero bytes at the       *)
(* latest: it cannot swallow more than one frame.                          *)
Flushable ==
  \E i \in 0 .. EXLINK_MAX_FRAME :
    FeedAll(parser, [j \in 1 .. EXLINK_MAX_FRAME |-> 0])[i].state = "MAGIC0"
============================================================================
