----------------------------- MODULE MCDapLink -----------------------------
(***************************************************************************)
(* DapLink seen as the server CommandPipe describes.                       *)
(***************************************************************************)
EXTENDS DapLink

(* The commands waiting for an answer, oldest first. *)
Waiting == [i \in 1 .. Count - Held |->
              s_req[(s_req_tail + Held + i - 1) % DAP_REQ_SLOTS]]

(* The answer on the wire. *)
Line == IF OnWire = 1 THEN <<s_dap_in_buf>> ELSE <<>>

(* The command that arrives next: the one on EP2 OUT or not yet written.   *)
Arriving == IF Arrived = 1 THEN s_dap_out_buf ELSE sent + 1

Pipe == INSTANCE CommandPipe WITH
          Capacity <- DAP_PACKET_COUNT, next <- Arriving, queue <- Waiting,
          line <- Line, delivered <- rcvd

(* The channel implements the in-order server: submission is Accept or     *)
(* Refuse, usbd_ep_start_write is Answer, a first wait that gives up is    *)
(* Abandon, the host's read is Deliver and every other step stutters.      *)
PipeImplemented == Pipe!Spec
============================================================================
