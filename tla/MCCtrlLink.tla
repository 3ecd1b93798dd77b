----------------------------- MODULE MCCtrlLink -----------------------------
(***************************************************************************)
(* Requests for CtrlLink.                                                  *)
(***************************************************************************)
EXTENDS CtrlLink

Frame(op, payload) == exlink_frame_build(op, payload, EXLINK_MAX_FRAME)
Corrupt(frame)     == [frame EXCEPT ![Len(frame)] = (frame[Len(frame)] + 1) % 256]

NoName == <<>>

(* A ping, whose answer is whole packets, and the three kinds of error: a  *)
(* bad checksum, an operation not implemented, an impossible length; and   *)
(* the largest frame.                                                      *)
OneByOne == <<Frame(1, <<>>), Corrupt(Frame(2, <<7>>)), Frame(16, <<>>),
              <<76, 75, 2, 255, 255>>, Frame(2, <<1, 2, 3, 4, 76>>)>>

(* Echoes that only differ in their payload.                               *)
BackToBack == <<Frame(2, <<76>>), Frame(2, <<1>>), Frame(2, <<2>>)>>

(* The proofs are about these hosts: one that waits cannot overrun the     *)
(* ring, and one that does not writes requests no other frame can be       *)
(* pieced together from.                                                   *)
ASSUME ProvenHost ==
  /\ FramedHost
  /\ Window = 1 => WithinRing
  /\ Window > 1 => NoPiecedFrame
============================================================================
