---------------------------- MODULE FrameScanner ----------------------------
(***************************************************************************)
(* What recognising command frames in a byte stream means, without an      *)
(* automaton: keep the bytes that may still be the beginning of a frame,   *)
(* judge them as soon as they are a whole frame or announce an impossible  *)
(* length, and start afresh after a judgement.  The checksum is computed   *)
(* over the whole frame at once.                                           *)
(***************************************************************************)
EXTENDS FrameGrammar

VARIABLES
  byte,       \* the byte heard last
  pending,    \* the bytes that may still begin a frame
  verdict,    \* what the last byte decided: NONE, OK, BAD_CRC or BAD_LEN
  frame       \* after OK: operation, length and payload

vars == <<byte, pending, verdict, frame>>

Init ==
  /\ byte = 0
  /\ pending = <<>>
  /\ verdict = "NONE"
  /\ frame = <<>>

Reject(s) ==
  /\ TooLong(s)
  /\ pending' = <<>>
  /\ verdict' = "BAD_LEN"
  /\ frame' = <<>>

Judge(s) ==
  /\ Complete(s)
  /\ pending' = <<>>
  /\ verdict' = IF Intact(s) THEN "OK" ELSE "BAD_CRC"
  /\ frame' = IF Intact(s)
                THEN <<s[3], Announced(s), SubSeq(Body(s), 6, Len(Body(s)))>>
                ELSE <<>>

Collect(s) ==
  /\ ~ TooLong(s)
  /\ ~ Complete(s)
  /\ pending' = LongestBeginning(s)
  /\ verdict' = "NONE"
  /\ frame' = <<>>

Hear(b) ==
  /\ byte' = b
  /\ LET s == Append(pending, b) IN Reject(s) \/ Judge(s) \/ Collect(s)

Next == \E b \in Byte : Hear(b)

Spec == Init /\ [][Next]_vars
============================================================================
