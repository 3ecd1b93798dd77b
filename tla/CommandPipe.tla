---------------------------- MODULE CommandPipe ----------------------------
(***************************************************************************)
(* What the CMSIS-DAP v2 channel promises its host, with the ring, the     *)
(* semaphore, the endpoints and the busy flag left out.                    *)
(*                                                                         *)
(* CMSIS-DAP bulk packets carry no sequence number: a host pairs the n-th  *)
(* response it reads with the n-th command it wrote.  The channel is       *)
(* therefore a first-in first-out server: commands arrive numbered 1, 2,   *)
(* 3..., wait in arrival order, are answered one at a time, and at most    *)
(* one answer is on the wire.  It may refuse a command when it is full and *)
(* abandon an answer the host does not fetch, but it never reorders,       *)
(* repeats or invents one.                                                 *)
(***************************************************************************)
EXTENDS Naturals, Sequences

CONSTANT Capacity    \* commands the channel is built to hold, at least one

VARIABLES
  next,        \* number of the next command to arrive
  queue,       \* accepted commands without an answer, oldest first
  line,        \* the answer on the wire: <<>> or <<command>>
  delivered    \* the answers the host has read, in reading order

vars == <<next, queue, line, delivered>>

Init ==
  /\ next = 1
  /\ queue = <<>>
  /\ line = <<>>
  /\ delivered = <<>>

(* A command arrives and is kept. *)
Accept ==
  /\ Len(queue) < Capacity
  /\ queue' = Append(queue, next)
  /\ next' = next + 1
  /\ UNCHANGED <<line, delivered>>

(* A command arrives and is thrown away: only when every place, or every   *)
(* place but the one of the command being answered, is taken.              *)
Refuse ==
  /\ Len(queue) >= Capacity - 1
  /\ next' = next + 1
  /\ UNCHANGED <<queue, line, delivered>>

(* The oldest waiting command is answered. *)
Answer ==
  /\ queue # <<>>
  /\ line = <<>>
  /\ line' = <<Head(queue)>>
  /\ queue' = Tail(queue)
  /\ UNCHANGED <<next, delivered>>

(* The answer to the oldest waiting command is given up. *)
Abandon ==
  /\ queue # <<>>
  /\ queue' = Tail(queue)
  /\ UNCHANGED <<next, line, delivered>>

(* The host reads the answer on the wire. *)
Deliver ==
  /\ line # <<>>
  /\ delivered' = Append(delivered, Head(line))
  /\ line' = <<>>
  /\ UNCHANGED <<next, queue>>

Next == Accept \/ Refuse \/ Answer \/ Abandon \/ Deliver

Spec == Init /\ [][Next]_vars
============================================================================
