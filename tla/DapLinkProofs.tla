--------------------------- MODULE DapLinkProofs ---------------------------
(***************************************************************************)
(* What holds of DapLink for every ring size, packet size, window,         *)
(* semaphore limit and bound.                                              *)
(*                                                                         *)
(* The first part is about the counts: ring, semaphore, flags, lengths.    *)
(* The second is about order: the responses come in the order of their     *)
(* commands, they pair with them when nothing is lost, and the channel     *)
(* implements CommandPipe.  All three follow from one lemma, EveryStep:    *)
(* while no session is torn down, a step of the channel moves at most one  *)
(* command, from the host to EP2 OUT, to the ring, to EP2 IN and to the    *)
(* host, or loses it.                                                      *)
(***************************************************************************)
EXTENDS MCDapLink, SequenceTheorems, TLAPS

(* Advancing a ring index wraps exactly at the last slot. *)
LEMMA SuccValue ==
  ASSUME NEW i \in Index
  PROVE  /\ Succ(i) \in Index
         /\ Succ(i) = IF i = DAP_PACKET_COUNT THEN 0 ELSE i + 1
BY ConstantsAssumption DEF Succ, Index, DAP_REQ_SLOTS, ConstantsAssumption

(* The tuples of unchanged variables the actions name. *)
USE DEF ringVars, sendVars, epVars, hostVars

(* The three disjuncts of a submission keep the ring well formed. *)
LEMMA SubmitType ==
  ASSUME TypeOK, NEW cmd \in Cmd, dap_engine_submit(cmd)
  PROVE  /\ s_req' \in [Index -> Cmd]
         /\ s_req_head' \in Index
         /\ s_req_dropped' \in Nat
         /\ s_dap_sem' \in 0 .. RT_SEM_VALUE_MAX
<1> USE ConstantsAssumption DEF TypeOK, ConstantsAssumption
<1>1. CASE RingFull
  BY <1>1 DEF dap_engine_submit
<1>2. CASE ~ RingFull
  <2>1. /\ s_req' = [s_req EXCEPT ![s_req_head] = cmd]
        /\ s_req_head' = Succ(s_req_head)
        /\ SemRelease
        /\ UNCHANGED s_req_dropped
    BY <1>2 DEF dap_engine_submit
  <2>2. Succ(s_req_head) \in Index
    BY SuccValue
  <2>3. s_dap_sem' \in 0 .. RT_SEM_VALUE_MAX
    BY <2>1 DEF SemRelease
  <2> QED
    BY <2>1, <2>2, <2>3
<1> QED
  BY <1>1, <1>2

LEMMA SessionEndType ==
  ASSUME TypeOK, SessionEnds
  PROVE  /\ ends' \in 0 .. MaxSessionEnds
         /\ mishap' \in SUBSET {"torn", "late"}
<1>1. ends' \in 0 .. MaxSessionEnds
  BY ConstantsAssumption DEF SessionEnds, TypeOK, ConstantsAssumption
<1>2. mishap' \in SUBSET {"torn", "late"}
  BY DEF SessionEnds, TypeOK
<1> QED
  BY <1>1, <1>2

(***************************************************************************)
(* Every variable keeps to its range.                                      *)
(***************************************************************************)
LEMMA TypeInit == Init => TypeOK
<1> SUFFICES ASSUME Init PROVE TypeOK
  OBVIOUS
<1>1. None \in Cmd /\ 0 \in Index /\ 0 \in 0 .. EXLINK_BULK_MPS
      /\ 0 \in 0 .. RT_SEM_VALUE_MAX /\ 0 \in 0 .. Window
      /\ 0 \in 0 .. MaxSessionEnds /\ 0 \in Cmd
  BY ConstantsAssumption
     DEF Index, Cmd, None, DAP_REQ_SLOTS, ConstantsAssumption
<1>2. s_req \in [Index -> Cmd] /\ s_resp \in [cmd : Cmd, len : 0 .. EXLINK_BULK_MPS]
  BY <1>1 DEF Init
<1>3. mishap \in SUBSET {"torn", "late"} /\ rcvd \in Seq(Cmd)
  BY DEF Init
<1> QED
  BY <1>1, <1>2, <1>3 DEF Init, TypeOK

LEMMA TypeStep == TypeOK /\ [Next]_vars => TypeOK'
<1> SUFFICES ASSUME TypeOK, [Next]_vars
             PROVE  TypeOK'
  OBVIOUS
<1> USE ConstantsAssumption DEF TypeOK, ConstantsAssumption
<1>1. CASE engine_take
  BY <1>1 DEF engine_take
<1>2. CASE engine_check
  BY <1>2 DEF engine_check
<1>3. CASE engine_execute
  BY <1>3 DEF engine_execute
<1>4. CASE send_stage
  BY <1>4 DEF send_stage
<1>5. CASE send_start
  BY <1>5 DEF send_start
<1>6. CASE send_done
  BY <1>6 DEF send_done
<1>7. CASE send_timeout
  BY <1>7 DEF send_timeout
<1>8. CASE engine_release
  BY <1>8, SuccValue DEF engine_release
<1>9. CASE dap_out_cb
  BY <1>9, SubmitType DEF dap_out_cb
<1>10. CASE dap_in_cb
  <2>1. in_ep' \in {"primed", "idle"} /\ s_tx_busy' \in BOOLEAN
    BY <1>10 DEF dap_in_cb
  <2>2. in_len' \in 0 .. EXLINK_BULK_MPS
    BY <1>10 DEF dap_in_cb
  <2> QED
    BY <1>10, <2>1, <2>2 DEF dap_in_cb
<1>11. CASE BusReset
  <2>1. ends' \in 0 .. MaxSessionEnds /\ mishap' \in SUBSET {"torn", "late"}
    BY <1>11, SessionEndType DEF BusReset
  <2>2. /\ s_tx_busy' = FALSE /\ outstanding' = 0 /\ in_open' = FALSE
        /\ in_ep' = "off" /\ out_ep' = "off" /\ bus' = "default"
        /\ UNCHANGED <<ringVars, s_req_tail, pc, sendVars, s_dap_in_buf,
                        s_dap_out_buf, in_len, sent, rcvd>>
    BY <1>11 DEF BusReset, usb_if_dap_on_reset
  <2>3. in_open' \in BOOLEAN /\ s_tx_busy' \in BOOLEAN
    BY <2>2, Zenon
  <2>4. outstanding' \in 0 .. Window
    BY <2>2
  <2>5. /\ in_ep' \in {"off", "idle", "primed", "done"}
        /\ out_ep' \in {"off", "idle", "primed", "done"}
        /\ bus' \in {"down", "default", "configured"}
    BY <2>2
  <2> QED
    BY <2>1, <2>2, <2>3, <2>4, <2>5
<1>12. CASE BusDisconnect
  <2>1. ends' \in 0 .. MaxSessionEnds /\ mishap' \in SUBSET {"torn", "late"}
    BY <1>12, SessionEndType DEF BusDisconnect
  <2>2. /\ s_tx_busy' = FALSE /\ outstanding' = 0 /\ in_open' = FALSE
        /\ bus' = "down" /\ UNCHANGED <<in_ep, out_ep>>
        /\ UNCHANGED <<ringVars, s_req_tail, pc, sendVars, s_dap_in_buf,
                        s_dap_out_buf, in_len, sent, rcvd>>
    BY <1>12 DEF BusDisconnect, usb_if_dap_on_reset
  <2>3. in_open' \in BOOLEAN /\ s_tx_busy' \in BOOLEAN
    BY <2>2, Zenon
  <2>4. outstanding' \in 0 .. Window
    BY <2>2
  <2>5. /\ in_ep' \in {"off", "idle", "primed", "done"}
        /\ out_ep' \in {"off", "idle", "primed", "done"}
        /\ bus' \in {"down", "default", "configured"}
    BY <2>2
  <2> QED
    BY <2>1, <2>2, <2>3, <2>4, <2>5
<1>13. CASE usb_if_dap_on_configured
  BY <1>13 DEF usb_if_dap_on_configured
<1>14. CASE host_out
  BY <1>14 DEF host_out, Cmd
<1>15. CASE host_out_empty
  BY <1>15 DEF host_out_empty, Cmd, None
<1>16. CASE host_in
  <2>1. rcvd' \in Seq(Cmd)
    BY <1>16 DEF host_in
  <2>2. outstanding' \in 0 .. Window
    BY <1>16 DEF host_in
  <2> QED
    BY <1>16, <2>1, <2>2 DEF host_in
<1>17. CASE UNCHANGED vars
  BY <1>17 DEF vars
<1> QED
  BY <1>1, <1>2, <1>3, <1>4, <1>5, <1>6, <1>7, <1>8, <1>9, <1>10, <1>11,
     <1>12, <1>13, <1>14, <1>15, <1>16, <1>17
     DEF Next, Engine, Isr, Bus, Host

THEOREM TypeCorrect == Spec => []TypeOK
BY TypeInit, TypeStep, PTL DEF Spec

----------------------------------------------------------------------------
(* The engine thread is never asleep with a command in the ring: a take    *)
(* leads to the loop, which leaves only on an empty ring, and every        *)
(* submission that fills a slot leaves the semaphore positive, at its      *)
(* ceiling included.                                                       *)
LEMMA WakeupSubmit ==
  ASSUME TypeOK, NoLostWakeup, NEW cmd, dap_engine_submit(cmd), UNCHANGED <<pc, s_req_tail>>
  PROVE  NoLostWakeup'
<1> USE DEF TypeOK, NoLostWakeup
<1>1. CASE UNCHANGED <<s_req, s_req_head, s_dap_sem>>
  BY <1>1
<1>2. CASE SemRelease
  BY <1>2, ConstantsAssumption DEF SemRelease, ConstantsAssumption
<1> QED
  BY <1>1, <1>2 DEF dap_engine_submit

LEMMA WakeupStep == TypeOK /\ NoLostWakeup /\ [Next]_vars => NoLostWakeup'
<1> SUFFICES ASSUME TypeOK, NoLostWakeup, [Next]_vars
             PROVE  NoLostWakeup'
  OBVIOUS
<1>1. CASE engine_take
  BY <1>1 DEF engine_take, NoLostWakeup
<1>2. CASE engine_check
  BY <1>2 DEF engine_check, NoLostWakeup
<1>3. CASE engine_execute \/ send_stage \/ send_start \/ send_done \/ send_timeout
  BY <1>3 DEF engine_execute, send_stage, send_start, send_done, send_timeout,
              NoLostWakeup
<1>4. CASE engine_release
  BY <1>4 DEF engine_release, NoLostWakeup
<1>5. CASE dap_out_cb
  <2>1. CASE s_dap_out_buf # None
    BY <1>5, <2>1, WakeupSubmit DEF dap_out_cb
  <2>2. CASE s_dap_out_buf = None
    BY <1>5, <2>2 DEF dap_out_cb, NoLostWakeup
  <2> QED
    BY <2>1, <2>2
<1>6. CASE dap_in_cb \/ Bus \/ Host \/ UNCHANGED vars
  BY <1>6 DEF dap_in_cb, Bus, BusReset, BusDisconnect, usb_if_dap_on_configured,
              Host, host_out, host_out_empty, host_in, vars, NoLostWakeup
<1> QED
  BY <1>1, <1>2, <1>3, <1>4, <1>5, <1>6 DEF Next, Engine, Isr

THEOREM WakeupNeverLost == Spec => []NoLostWakeup
<1>1. Init => NoLostWakeup
  BY DEF Init, NoLostWakeup
<1> QED
  BY <1>1, TypeCorrect, WakeupStep, PTL DEF Spec

----------------------------------------------------------------------------
(* The busy flag never outlives what will lower it, resets included.       *)
LEMMA BusyStep == NoOrphanBusy /\ [Next]_vars => NoOrphanBusy'
<1> SUFFICES ASSUME NoOrphanBusy, [Next]_vars
             PROVE  NoOrphanBusy'
  OBVIOUS
<1> USE DEF NoOrphanBusy
<1>1. CASE engine_take \/ engine_check \/ engine_execute \/ engine_release
  BY <1>1 DEF engine_take, engine_check, engine_execute, engine_release
<1>2. CASE send_stage
  BY <1>2 DEF send_stage
<1>3. CASE send_start
  BY <1>3 DEF send_start
<1>4. CASE send_done \/ send_timeout
  BY <1>4 DEF send_done, send_timeout
<1>5. CASE dap_in_cb
  BY <1>5 DEF dap_in_cb
<1>6. CASE dap_out_cb
  BY <1>6 DEF dap_out_cb
<1>7. CASE Bus
  BY <1>7 DEF Bus, BusReset, BusDisconnect, usb_if_dap_on_configured, usb_if_dap_on_reset
<1>8. CASE Host \/ UNCHANGED vars
  BY <1>8 DEF Host, host_out, host_out_empty, host_in, vars
<1> QED
  BY <1>1, <1>2, <1>3, <1>4, <1>5, <1>6, <1>7, <1>8 DEF Next, Engine, Isr

THEOREM BusyNeverOrphaned == Spec => []NoOrphanBusy
<1>1. Init => NoOrphanBusy
  BY DEF Init, NoOrphanBusy
<1> QED
  BY <1>1, BusyStep, PTL DEF Spec

(* While configured the device always has a read posted on EP2 OUT, or its *)
(* completion pending.                                                     *)
THEOREM AlwaysListening == Spec => []OutListening
<1>1. Init => OutListening
  BY DEF Init, OutListening
<1>2. OutListening /\ [Next]_vars => OutListening'
  <2> SUFFICES ASSUME OutListening, [Next]_vars
               PROVE  OutListening'
    OBVIOUS
  <2> USE DEF OutListening
  <2>1. CASE Engine
    BY <2>1 DEF Engine, engine_take, engine_check, engine_execute, send_stage,
                send_start, send_done, send_timeout, engine_release
  <2>2. CASE Isr
    BY <2>2 DEF Isr, dap_out_cb, dap_in_cb
  <2>3. CASE Bus
    BY <2>3 DEF Bus, BusReset, BusDisconnect, usb_if_dap_on_configured
  <2>4. CASE Host \/ UNCHANGED vars
    BY <2>4 DEF Host, host_out, host_out_empty, host_in, vars
  <2> QED
    BY <2>1, <2>2, <2>3, <2>4 DEF Next
<1> QED
  BY <1>1, <1>2, PTL DEF Spec

----------------------------------------------------------------------------
(* The slot being executed is never overwritten: a submission writes the   *)
(* head, the head is not the tail while the engine works, and a submission *)
(* that would make them meet is refused.                                   *)
LEMMA SlotStep == TypeOK /\ SlotInUse /\ [Next]_vars => SlotInUse'
<1> SUFFICES ASSUME TypeOK, SlotInUse, [Next]_vars
             PROVE  SlotInUse'
  OBVIOUS
<1> USE DEF SlotInUse, InUse
<1>1. CASE engine_check
  BY <1>1 DEF engine_check
<1>2. CASE engine_take \/ engine_release
  BY <1>2 DEF engine_take, engine_release
<1>3. CASE engine_execute \/ send_stage \/ send_start \/ send_done \/ send_timeout
  BY <1>3 DEF engine_execute, send_stage, send_start, send_done, send_timeout
<1>4. CASE dap_out_cb
  BY <1>4 DEF dap_out_cb, dap_engine_submit, RingFull
<1>5. CASE dap_in_cb \/ Bus \/ Host \/ UNCHANGED vars
  BY <1>5 DEF dap_in_cb, Bus, BusReset, BusDisconnect, usb_if_dap_on_configured,
              Host, host_out, host_out_empty, host_in, vars
<1> QED
  BY <1>1, <1>2, <1>3, <1>4, <1>5 DEF Next, Engine, Isr

LEMMA SlotInvariant == Spec => []SlotInUse
<1>1. Init => SlotInUse
  BY DEF Init, SlotInUse, InUse
<1> QED
  BY <1>1, TypeCorrect, SlotStep, PTL DEF Spec

THEOREM SlotNeverOverwritten == Spec => SlotHeld
<1>1. TypeOK /\ SlotInUse /\ [Next]_vars
        => [InUse => s_req'[s_req_tail] = s_req[s_req_tail]]_vars
  <2> SUFFICES ASSUME TypeOK, SlotInUse, [Next]_vars, InUse
               PROVE  s_req'[s_req_tail] = s_req[s_req_tail]
    OBVIOUS
  <2>1. CASE dap_out_cb
    BY <2>1 DEF dap_out_cb, dap_engine_submit, TypeOK, SlotInUse
  <2>2. CASE Engine
    BY <2>2 DEF Engine, engine_take, engine_check, engine_execute, send_stage,
                send_start, send_done, send_timeout, engine_release
  <2>3. CASE dap_in_cb \/ Bus \/ Host \/ UNCHANGED vars
    BY <2>3 DEF dap_in_cb, Bus, BusReset, BusDisconnect, usb_if_dap_on_configured,
                Host, host_out, host_out_empty, host_in, vars
  <2> QED
    BY <2>1, <2>2, <2>3 DEF Next, Isr
<1> QED
  BY <1>1, TypeCorrect, SlotInvariant, PTL DEF Spec, SlotHeld

----------------------------------------------------------------------------
(* A session that ends without tearing anything down leaves the device     *)
(* idle until the next one is configured.                                  *)
LEMMA IdleStep == TypeOK /\ IdleOffBus /\ [Next]_vars => IdleOffBus'
<1> SUFFICES ASSUME TypeOK, IdleOffBus, [Next]_vars, "torn" \notin mishap', bus' # "configured"
             PROVE  /\ pc' \in {"take", "check"}
                    /\ s_req_head' = s_req_tail'
                    /\ in_ep' \in {"off", "idle"}
                    /\ out_ep' # "done"
  BY DEF IdleOffBus
<1>1. CASE BusReset \/ BusDisconnect
  <2>1. "torn" \notin mishap /\ (bus = "configured" => Quiet)
    BY <1>1 DEF BusReset, BusDisconnect, SessionEnds
  <2>2. CASE bus = "configured"
    <3>1. in_ep' \in {"off", in_ep} /\ out_ep' \in {"off", out_ep}
      BY <1>1 DEF BusReset, BusDisconnect
    <3> QED
      BY <1>1, <2>1, <2>2, <3>1 DEF BusReset, BusDisconnect, Quiet, TypeOK
  <2>3. CASE bus # "configured"
    BY <1>1, <2>1, <2>3 DEF BusReset, BusDisconnect, IdleOffBus
  <2> QED
    BY <2>2, <2>3
<1>2. CASE engine_take \/ engine_check
  BY <1>2 DEF engine_take, engine_check, IdleOffBus
<1>3. CASE engine_execute \/ send_stage \/ send_start \/ send_done \/ engine_release
  BY <1>3 DEF engine_execute, send_stage, send_start, send_done, engine_release, IdleOffBus
<1>4. CASE send_timeout
  BY <1>4 DEF send_timeout, IdleOffBus
<1>5. CASE Isr
  BY <1>5 DEF Isr, dap_out_cb, dap_in_cb, IdleOffBus
<1>6. CASE usb_if_dap_on_configured
  BY <1>6 DEF usb_if_dap_on_configured
<1>7. CASE Host
  BY <1>7 DEF Host, host_out, host_out_empty, host_in
<1>8. CASE UNCHANGED vars
  BY <1>8 DEF vars, IdleOffBus
<1> QED
  BY <1>1, <1>2, <1>3, <1>4, <1>5, <1>6, <1>7, <1>8 DEF Next, Engine, Bus

(* While no session was torn down, the busy flag covers a transfer from    *)
(* its start to the completion of its last packet, so a response is staged *)
(* and started only on a free endpoint.                                    *)
LEMMA CoversStep == TypeOK /\ IdleOffBus /\ BusyCovers /\ [Next]_vars => BusyCovers'
<1> SUFFICES ASSUME TypeOK, IdleOffBus, BusyCovers, [Next]_vars, "torn" \notin mishap'
             PROVE  /\ in_ep' \in {"primed", "done"} => s_tx_busy'
                    /\ pc' = "start" => s_tx_busy' /\ in_ep' \notin {"primed", "done"}
  BY DEF BusyCovers
<1>1. CASE BusReset \/ BusDisconnect
  <2>1. "torn" \notin mishap /\ (bus = "configured" => Quiet)
    BY <1>1 DEF BusReset, BusDisconnect, SessionEnds
  <2>2. pc \in {"take", "check"} /\ in_ep \notin {"primed", "done"}
    BY <2>1 DEF IdleOffBus, Quiet
  <2> QED
    BY <1>1, <2>2 DEF BusReset, BusDisconnect
<1>2. CASE usb_if_dap_on_configured
  BY <1>2 DEF usb_if_dap_on_configured, IdleOffBus
<1>3. CASE engine_take \/ engine_check \/ engine_execute \/ engine_release
  BY <1>3 DEF engine_take, engine_check, engine_execute, engine_release, BusyCovers
<1>4. CASE send_stage
  BY <1>4 DEF send_stage, BusyCovers
<1>5. CASE send_start
  BY <1>5 DEF send_start, BusyCovers
<1>6. CASE send_done \/ send_timeout
  BY <1>6 DEF send_done, send_timeout, BusyCovers
<1>7. CASE dap_in_cb
  BY <1>7 DEF dap_in_cb, BusyCovers
<1>8. CASE dap_out_cb \/ Host \/ UNCHANGED vars
  BY <1>8 DEF dap_out_cb, Host, host_out, host_out_empty, host_in, vars, BusyCovers
<1> QED
  BY <1>1, <1>2, <1>3, <1>4, <1>5, <1>6, <1>7, <1>8 DEF Next, Engine, Isr, Bus

(* A transfer is open only while its empty packet is due.                  *)
LEMMA FullPacket == NeedsEmptyPacket(EXLINK_BULK_MPS)
BY ConstantsAssumption DEF NeedsEmptyPacket, ConstantsAssumption

LEMMA OpenStep ==
  TypeOK /\ IdleOffBus /\ BusyCovers /\ OpenTransfer /\ [Next]_vars => OpenTransfer'
<1> SUFFICES ASSUME TypeOK, IdleOffBus, BusyCovers, OpenTransfer, [Next]_vars,
                    "torn" \notin mishap', in_open'
             PROVE  \/ in_ep' = "done" /\ in_len' = EXLINK_BULK_MPS
                    \/ in_ep' = "primed" /\ in_len' = 0
  BY DEF OpenTransfer
<1>1. CASE dap_in_cb
  <2>1. in_len = EXLINK_BULK_MPS
    BY <1>1 DEF dap_in_cb, OpenTransfer
  <2> QED
    BY <1>1, <2>1, FullPacket DEF dap_in_cb
<1>2. CASE host_in
  BY <1>2 DEF host_in
<1>3. CASE send_start
  BY <1>3 DEF send_start, BusyCovers, OpenTransfer
<1>4. CASE engine_take \/ engine_check \/ engine_execute \/ send_stage \/ send_done
           \/ send_timeout \/ engine_release
  BY <1>4 DEF engine_take, engine_check, engine_execute, send_stage, send_done,
              send_timeout, engine_release, OpenTransfer
<1>5. CASE BusReset \/ BusDisconnect
  BY <1>5 DEF BusReset, BusDisconnect
<1>6. CASE usb_if_dap_on_configured
  BY <1>6 DEF usb_if_dap_on_configured, IdleOffBus, OpenTransfer
<1>7. CASE dap_out_cb \/ host_out \/ host_out_empty \/ UNCHANGED vars
  BY <1>7 DEF dap_out_cb, host_out, host_out_empty, vars, OpenTransfer
<1> QED
  BY <1>1, <1>2, <1>3, <1>4, <1>5, <1>6, <1>7 DEF Next, Engine, Isr, Bus, Host

THEOREM InductiveHolds == Spec => []Inductive
<1>1. Init => SlotInUse /\ IdleOffBus /\ BusyCovers /\ OpenTransfer
  BY DEF Init, SlotInUse, InUse, IdleOffBus, BusyCovers, OpenTransfer
<1> QED
  BY <1>1, TypeCorrect, SlotStep, IdleStep, CoversStep, OpenStep, PTL DEF Spec, Inductive

(* The IN buffer is never rewritten under the controller.                  *)
THEOREM BufferNeverRewritten == Spec => BufferHeld
<1>1. TypeOK /\ BusyCovers /\ [Next]_vars
        => [("torn" \notin mishap /\ in_ep = "primed" /\ in_len > 0)
              => s_dap_in_buf' = s_dap_in_buf]_vars
  <2> SUFFICES ASSUME BusyCovers, [Next]_vars, "torn" \notin mishap, in_ep = "primed"
               PROVE  s_dap_in_buf' = s_dap_in_buf
    OBVIOUS
  <2>1. CASE send_stage
    BY <2>1 DEF send_stage, BusyCovers
  <2>2. CASE engine_take \/ engine_check \/ engine_execute \/ send_start \/ send_done
             \/ send_timeout \/ engine_release
    BY <2>2 DEF engine_take, engine_check, engine_execute, send_start, send_done,
                send_timeout, engine_release
  <2>3. CASE Isr \/ Bus \/ Host \/ UNCHANGED vars
    BY <2>3 DEF Isr, dap_out_cb, dap_in_cb, Bus, BusReset, BusDisconnect,
                usb_if_dap_on_configured, Host, host_out, host_out_empty, host_in, vars
  <2> QED
    BY <2>1, <2>2, <2>3 DEF Next, Engine
<1>2. Inductive => BusyCovers
  BY DEF Inductive
<1> QED
  BY <1>1, <1>2, TypeCorrect, InductiveHolds, PTL DEF Spec, BufferHeld

(* No response starts while the transfer before it is still open.          *)
THEOREM ResponsesFramed == Spec => []Framed
<1>1. TypeOK /\ Inductive => Framed
  BY DEF TypeOK, Inductive, OpenTransfer, Framed
<1> QED
  BY <1>1, TypeCorrect, InductiveHolds, PTL

----------------------------------------------------------------------------
(* The ring counted: its head and tail differ by the number of slots in    *)
(* use, and the spare slot keeps full and empty apart.                     *)
LEMMA CountRange ==
  ASSUME TypeOK
  PROVE  /\ Count \in 0 .. DAP_PACKET_COUNT
         /\ Count = 0 <=> s_req_head = s_req_tail
         /\ Count = DAP_PACKET_COUNT <=> RingFull
<1>1. s_req_head \in Index /\ s_req_tail \in Index
  BY DEF TypeOK
<1>2. Succ(s_req_head) = IF s_req_head = DAP_PACKET_COUNT THEN 0 ELSE s_req_head + 1
  BY <1>1, SuccValue
<1> QED
  BY <1>1, <1>2, ConstantsAssumption
     DEF Count, RingFull, Index, DAP_REQ_SLOTS, ConstantsAssumption

LEMMA CountSubmit ==
  ASSUME TypeOK, ~ RingFull, s_req_head' = Succ(s_req_head), UNCHANGED s_req_tail
  PROVE  Count' = Count + 1
<1>1. s_req_head \in Index /\ s_req_tail \in Index
  BY DEF TypeOK
<1>2. Succ(s_req_head) = IF s_req_head = DAP_PACKET_COUNT THEN 0 ELSE s_req_head + 1
  BY <1>1, SuccValue
<1> QED
  BY <1>1, <1>2, ConstantsAssumption
     DEF Count, RingFull, Index, DAP_REQ_SLOTS, ConstantsAssumption

LEMMA CountRelease ==
  ASSUME TypeOK, s_req_head # s_req_tail, s_req_tail' = Succ(s_req_tail),
         UNCHANGED s_req_head
  PROVE  Count' = Count - 1
<1>1. s_req_head \in Index /\ s_req_tail \in Index
  BY DEF TypeOK
<1>2. Succ(s_req_tail) = IF s_req_tail = DAP_PACKET_COUNT THEN 0 ELSE s_req_tail + 1
  BY <1>1, SuccValue
<1> QED
  BY <1>1, <1>2, ConstantsAssumption
     DEF Count, Index, DAP_REQ_SLOTS, ConstantsAssumption

(* What the device has in hand, the sum Credited bounds.                   *)
InHand == Arrived + (Count - Held) + OnWire

LEMMA InHandRange ==
  ASSUME TypeOK, SlotInUse
  PROVE  /\ Arrived \in {0, 1} /\ Held \in {0, 1} /\ OnWire \in {0, 1}
         /\ Count \in Nat /\ Count - Held \in Nat /\ outstanding \in Nat
<1>1. Count \in Nat /\ (s_req_head # s_req_tail => Count > 0)
  BY CountRange, ConstantsAssumption DEF ConstantsAssumption
<1>2. Held = 1 => s_req_head # s_req_tail
  BY DEF Held, SlotInUse, InUse
<1>3. Arrived \in {0, 1} /\ Held \in {0, 1} /\ OnWire \in {0, 1}
  BY DEF Arrived, Held, OnWire
<1>4. outstanding \in Nat
  BY ConstantsAssumption DEF TypeOK, ConstantsAssumption
<1> QED
  BY <1>1, <1>2, <1>3, <1>4

(* Every step keeps what is in hand within what the host waits for.        *)
LEMMA CreditStep ==
  TypeOK /\ SlotInUse /\ IdleOffBus /\ BusyCovers /\ Credited /\ [Next]_vars
    => Credited'
<1> SUFFICES ASSUME TypeOK, SlotInUse, IdleOffBus, BusyCovers, Credited,
                    [Next]_vars, "torn" \notin mishap'
             PROVE  InHand' <= outstanding'
  BY DEF Credited, InHand
<1>0. /\ Count \in Nat /\ Held \in {0, 1} /\ Arrived \in {0, 1} /\ OnWire \in {0, 1}
      /\ outstanding \in Nat
  BY InHandRange
<1>1. CASE engine_take \/ engine_check \/ engine_execute \/ send_stage \/ send_done
           \/ UNCHANGED vars
  <2>1. UNCHANGED <<Count, Held, Arrived, OnWire, outstanding, mishap>>
    BY <1>1 DEF engine_take, engine_check, engine_execute, send_stage, send_done,
                vars, Count, Held, OnWire, Arrived
  <2> QED
    BY <1>0, <2>1 DEF InHand, Credited
<1>2. CASE send_start
  <2>1. OnWire = 0 /\ (OnWire' = 0 \/ OnWire' = 1) /\ UNCHANGED <<Arrived, outstanding, mishap>>
    BY <1>2 DEF send_start, BusyCovers, OnWire, Arrived
  <2>2. Held = 0 /\ Held' = 1 /\ UNCHANGED Count
    BY <1>2 DEF send_start, Held, Count
  <2> QED
    BY <1>0, <2>1, <2>2 DEF InHand, Credited
<1>3. CASE send_timeout
  <2>1. Held' = 1 /\ UNCHANGED <<Count, Arrived, OnWire, outstanding>>
    BY <1>3 DEF send_timeout, Held, Count, Arrived, OnWire
  <2>2. "torn" \notin mishap
    BY <1>3 DEF send_timeout
  <2> QED
    BY <1>0, <2>1, <2>2 DEF InHand, Credited
<1>4. CASE engine_release
  <2>1. Count' = Count - 1
    BY <1>4, CountRelease DEF engine_release, SlotInUse, InUse
  <2>2. Held = 1 /\ Held' = 0 /\ UNCHANGED <<Arrived, OnWire, outstanding, mishap>>
    BY <1>4 DEF engine_release, Held, Arrived, OnWire
  <2> QED
    BY <1>0, <2>1, <2>2 DEF InHand, Credited
<1>5. CASE dap_out_cb
  <2>1. Arrived' = 0 /\ UNCHANGED <<Held, OnWire, outstanding, mishap>>
    BY <1>5 DEF dap_out_cb, Arrived, Held, OnWire
  <2>2. CASE s_dap_out_buf # None /\ ~ RingFull
    <3>1. Count' = Count + 1 /\ Arrived = 1
      BY <1>5, <2>2, CountSubmit DEF dap_out_cb, dap_engine_submit, Arrived
    <3> QED
      BY <1>0, <2>1, <3>1 DEF InHand, Credited
  <2>3. CASE s_dap_out_buf = None \/ RingFull
    <3>1. Count' = Count
      BY <1>5, <2>3 DEF dap_out_cb, dap_engine_submit, Count
    <3> QED
      BY <1>0, <2>1, <3>1 DEF InHand, Credited
  <2> QED
    BY <2>2, <2>3
<1>6. CASE dap_in_cb
  <2>1. OnWire' = 0 /\ UNCHANGED <<Count, Held, Arrived, outstanding, mishap>>
    BY <1>6 DEF dap_in_cb, OnWire, Count, Held, Arrived
  <2> QED
    BY <1>0, <2>1 DEF InHand, Credited
<1>7. CASE BusReset \/ BusDisconnect
  <2>1. "torn" \notin mishap /\ (bus = "configured" => Quiet)
    BY <1>7 DEF BusReset, BusDisconnect, SessionEnds
  <2>2. /\ pc \in {"take", "check"} /\ s_req_head = s_req_tail
        /\ in_ep \notin {"primed", "done"} /\ out_ep # "done"
    BY <2>1 DEF IdleOffBus, Quiet
  <2>3. Count' = 0 /\ Held' = 0 /\ Arrived' = 0 /\ OnWire' = 0 /\ outstanding' = 0
    <3>1. Count' = 0
      BY <1>7, <2>2, CountRange DEF BusReset, BusDisconnect, Count
    <3>2. Held' = 0 /\ Arrived' = 0 /\ OnWire' = 0 /\ outstanding' = 0
      BY <1>7, <2>2 DEF BusReset, BusDisconnect, Held, Arrived, OnWire
    <3> QED
      BY <3>1, <3>2
  <2> QED
    BY <2>3 DEF InHand
<1>8. CASE usb_if_dap_on_configured
  <2>1. /\ OnWire' = 0 /\ Arrived' = 0
        /\ UNCHANGED <<Count, Held, outstanding, mishap>>
    BY <1>8 DEF usb_if_dap_on_configured, OnWire, Arrived, Count, Held
  <2> QED
    BY <1>0, <2>1 DEF InHand, Credited
<1>9. CASE host_out
  <2>1. Arrived = 0 /\ (Arrived' = 0 \/ Arrived' = 1) /\ outstanding' = outstanding + 1
    BY <1>9 DEF host_out, Arrived
  <2>2. UNCHANGED <<Count, Held, OnWire, mishap>>
    BY <1>9 DEF host_out, Count, Held, OnWire
  <2> QED
    BY <1>0, <2>1, <2>2 DEF InHand, Credited
<1>10. CASE host_out_empty
  <2>1. Arrived' = 0 /\ UNCHANGED <<Count, Held, OnWire, outstanding, mishap>>
    BY <1>10 DEF host_out_empty, Arrived, Count, Held, OnWire
  <2> QED
    BY <1>0, <2>1 DEF InHand, Credited
<1>11. CASE host_in
  <2>1. OnWire' = 0 /\ UNCHANGED <<Count, Held, Arrived, mishap>>
    BY <1>11 DEF host_in, OnWire, Count, Held, Arrived
  <2>2. \/ OnWire = 1 /\ outstanding' = (IF outstanding > 0 THEN outstanding - 1 ELSE 0)
        \/ OnWire = 0 /\ outstanding' = outstanding
    BY <1>11 DEF host_in, OnWire
  <2>3. Count - Held \in Nat
    BY InHandRange
  <2> QED
    BY <1>0, <2>1, <2>2, <2>3 DEF InHand, Credited
<1> QED
  BY <1>1, <1>2, <1>3, <1>4, <1>5, <1>6, <1>7, <1>8, <1>9, <1>10, <1>11
     DEF Next, Engine, Isr, Bus, Host

THEOREM CreditHolds == Spec => []Credited
<1>1. Init => Credited
  <2> SUFFICES ASSUME Init PROVE InHand <= outstanding
    BY DEF Credited, InHand
  <2>1. Count = 0 /\ Held = 0 /\ Arrived = 0 /\ OnWire = 0 /\ outstanding = 0
    BY DEF Init, Count, Held, Arrived, OnWire
  <2> QED
    BY <2>1 DEF InHand
<1>2. Inductive => SlotInUse /\ IdleOffBus /\ BusyCovers
  BY DEF Inductive
<1> QED
  BY <1>1, <1>2, TypeCorrect, InductiveHolds, CreditStep, PTL DEF Spec

(* A host that keeps fewer commands outstanding than the ring holds never  *)
(* overruns it: the slot the engine may still hold is the one command of   *)
(* difference.  With Window = DAP_PACKET_COUNT it does not hold.           *)
LEMMA NoDropStep ==
  ASSUME Window < DAP_PACKET_COUNT
  PROVE  TypeOK /\ SlotInUse /\ Credited /\ NoOverrun /\ [Next]_vars => NoOverrun'
<1> SUFFICES ASSUME TypeOK, SlotInUse, Credited, NoOverrun, [Next]_vars,
                    "torn" \notin mishap'
             PROVE  s_req_dropped' = 0
  BY DEF NoOverrun
<1>1. CASE dap_out_cb
  <2>1. "torn" \notin mishap /\ s_req_dropped = 0
    BY <1>1 DEF dap_out_cb, NoOverrun
  <2>2. CASE s_dap_out_buf = None
    BY <1>1, <2>1, <2>2 DEF dap_out_cb
  <2>3. CASE s_dap_out_buf # None
    <3>1. Arrived = 1
      BY <1>1, <2>3 DEF dap_out_cb, Arrived
    <3>2. Arrived + (Count - Held) + OnWire <= outstanding
      BY <2>1 DEF Credited
    <3>3. outstanding <= Window
      BY ConstantsAssumption DEF TypeOK, ConstantsAssumption
    <3>4. Count < DAP_PACKET_COUNT
      BY <3>1, <3>2, <3>3, InHandRange, ConstantsAssumption DEF ConstantsAssumption
    <3>5. ~ RingFull
      BY <3>4, CountRange, ConstantsAssumption DEF ConstantsAssumption
    <3> QED
      BY <1>1, <2>1, <2>3, <3>5 DEF dap_out_cb, dap_engine_submit
  <2> QED
    BY <2>2, <2>3
<1>2. CASE Engine
  BY <1>2 DEF Engine, engine_take, engine_check, engine_execute, send_stage, send_start,
              send_done, send_timeout, engine_release, NoOverrun
<1>3. CASE Bus
  BY <1>3 DEF Bus, BusReset, BusDisconnect, SessionEnds, usb_if_dap_on_configured,
              NoOverrun
<1>4. CASE dap_in_cb \/ Host \/ UNCHANGED vars
  BY <1>4 DEF dap_in_cb, Host, host_out, host_out_empty, host_in, vars, NoOverrun
<1> QED
  BY <1>1, <1>2, <1>3, <1>4 DEF Next, Isr

THEOREM RingNeverOverruns ==
  ASSUME Window < DAP_PACKET_COUNT
  PROVE  Spec => []NoOverrun
<1>1. Init => NoOverrun
  BY DEF Init, NoOverrun
<1>2. TypeOK /\ SlotInUse /\ Credited /\ NoOverrun /\ [Next]_vars => NoOverrun'
  BY NoDropStep
<1> QED
  BY <1>1, <1>2, TypeCorrect, SlotInvariant, CreditHolds, PTL DEF Spec

(* A host that keeps to the advertised window loses a command only while   *)
(* the engine holds the slot of a response that has already left EP2 IN.   *)
THEOREM DropsNeedHandover ==
  ASSUME Window <= DAP_PACKET_COUNT
  PROVE  Spec => DropsOnlyAtHandover
<1>1. TypeOK /\ SlotInUse /\ Credited /\ [Next]_vars
        => [(s_req_dropped' # s_req_dropped /\ "torn" \notin mishap)
              => /\ pc \in {"sent", "release"}
                 /\ ~ (in_ep = "primed" /\ in_len > 0)]_vars
  <2> SUFFICES ASSUME TypeOK, SlotInUse, Credited, [Next]_vars,
                      s_req_dropped' # s_req_dropped, "torn" \notin mishap
               PROVE  /\ pc \in {"sent", "release"}
                      /\ ~ (in_ep = "primed" /\ in_len > 0)
    OBVIOUS
  <2>1. dap_out_cb /\ s_dap_out_buf # None /\ RingFull
    <3>1. CASE dap_out_cb
      BY <3>1 DEF dap_out_cb, dap_engine_submit
    <3>2. CASE Engine
      BY <3>2 DEF Engine, engine_take, engine_check, engine_execute, send_stage,
                  send_start, send_done, send_timeout, engine_release
    <3>3. CASE dap_in_cb \/ Bus \/ Host \/ UNCHANGED vars
      BY <3>3 DEF dap_in_cb, Bus, BusReset, BusDisconnect, usb_if_dap_on_configured,
                  Host, host_out, host_out_empty, host_in, vars
    <3> QED
      BY <3>1, <3>2, <3>3 DEF Next, Isr
  <2>2. Arrived = 1 /\ Count = DAP_PACKET_COUNT
    BY <2>1, CountRange DEF dap_out_cb, Arrived
  <2>3. Arrived + (Count - Held) + OnWire <= outstanding
    BY DEF Credited
  <2>4. outstanding <= Window
    BY ConstantsAssumption DEF TypeOK, ConstantsAssumption
  <2>5. Held = 1 /\ OnWire = 0
    BY <2>2, <2>3, <2>4, InHandRange, ConstantsAssumption DEF ConstantsAssumption
  <2> QED
    BY <2>5 DEF Held, OnWire
<1>2. Inductive => SlotInUse
  BY DEF Inductive
<1> QED
  BY <1>1, <1>2, TypeCorrect, InductiveHolds, CreditHolds, PTL
     DEF Spec, DropsOnlyAtHandover

----------------------------------------------------------------------------
(* Order.                                                                  *)

(* The commands in the ring that have no response yet, oldest first.       *)
N    == Count - Held
W(k) == s_req[(s_req_tail + Held + k - 1) % DAP_REQ_SLOTS]

(* The response the engine builds is that of the slot it works on.         *)
Staged ==
  /\ pc \in {"wait", "start"} => s_resp.cmd = s_req[s_req_tail] /\ s_resp.len > 0
  /\ pc = "start" => s_dap_in_buf = s_resp.cmd

(* A configured device has its IN endpoint open.                           *)
InOpened == bus = "configured" => in_ep # "off"

Base == TypeOK /\ SlotInUse /\ IdleOffBus /\ BusyCovers /\ Staged /\ InOpened

LEMMA StagedStep == TypeOK /\ SlotInUse /\ Staged /\ [Next]_vars => Staged'
<1> SUFFICES ASSUME TypeOK, SlotInUse, Staged, [Next]_vars
             PROVE  Staged'
  OBVIOUS
<1> USE DEF Staged
<1>1. CASE engine_take \/ engine_check \/ send_done \/ send_timeout \/ engine_release
  BY <1>1 DEF engine_take, engine_check, send_done, send_timeout, engine_release
<1>2. CASE engine_execute
  <2>1. PICK len \in 1 .. EXLINK_BULK_MPS : s_resp' = [cmd |-> s_req[s_req_tail], len |-> len]
    BY <1>2 DEF engine_execute
  <2> QED BY <1>2, <2>1 DEF engine_execute
<1>3. CASE send_stage
  BY <1>3 DEF send_stage
<1>4. CASE send_start
  BY <1>4 DEF send_start
<1>5. CASE dap_out_cb
  <2>1. UNCHANGED <<pc, s_resp, s_req_tail, s_dap_in_buf>>
    BY <1>5 DEF dap_out_cb
  <2>2. pc \in {"wait", "start"} => s_req'[s_req_tail] = s_req[s_req_tail]
    BY <1>5 DEF dap_out_cb, dap_engine_submit, TypeOK, SlotInUse, InUse
  <2> QED BY <2>1, <2>2
<1>6. CASE dap_in_cb \/ Bus \/ Host \/ UNCHANGED vars
  BY <1>6 DEF dap_in_cb, Bus, BusReset, BusDisconnect, usb_if_dap_on_configured,
              Host, host_out, host_out_empty, host_in, vars
<1> QED BY <1>1, <1>2, <1>3, <1>4, <1>5, <1>6 DEF Next, Engine, Isr

LEMMA InOpenedStep == InOpened /\ [Next]_vars => InOpened'
<1> SUFFICES ASSUME InOpened, [Next]_vars
             PROVE  InOpened'
  OBVIOUS
<1> USE DEF InOpened
<1>1. CASE Engine
  BY <1>1 DEF Engine, engine_take, engine_check, engine_execute, send_stage, send_start,
              send_done, send_timeout, engine_release
<1>2. CASE Isr
  BY <1>2 DEF Isr, dap_out_cb, dap_in_cb
<1>3. CASE Bus \/ Host \/ UNCHANGED vars
  BY <1>3 DEF Bus, BusReset, BusDisconnect, usb_if_dap_on_configured,
              Host, host_out, host_out_empty, host_in, vars
<1> QED BY <1>1, <1>2, <1>3 DEF Next

LEMMA BaseHolds == Spec => []Base
<1>1. Init => Staged /\ InOpened
  BY DEF Init, Staged, InOpened
<1>2. Spec => [](Staged /\ InOpened)
  BY <1>1, StagedStep, InOpenedStep, TypeCorrect, SlotInvariant, PTL DEF Spec
<1>3. TypeOK /\ Inductive /\ Staged /\ InOpened => Base
  BY DEF Inductive, Base
<1> QED BY <1>2, <1>3, TypeCorrect, InductiveHolds, PTL

----------------------------------------------------------------------------
(* The queue in the ring.                                                  *)

(* A place in the ring wraps at most once.                                 *)
LEMMA Wrap ==
  ASSUME NEW x \in Nat, x < DAP_REQ_SLOTS + DAP_REQ_SLOTS
  PROVE  x % DAP_REQ_SLOTS = IF x < DAP_REQ_SLOTS THEN x ELSE x - DAP_REQ_SLOTS
BY ConstantsAssumption DEF DAP_REQ_SLOTS, ConstantsAssumption

LEMMA QueueRange ==
  ASSUME TypeOK, SlotInUse
  PROVE  /\ N \in Nat /\ N <= DAP_PACKET_COUNT /\ Count = N + Held /\ Held \in {0, 1}
         /\ Count \in Nat /\ s_req_tail \in Nat /\ s_req_head \in Nat
         /\ s_req_tail <= DAP_PACKET_COUNT /\ s_req_head <= DAP_PACKET_COUNT
         /\ DAP_PACKET_COUNT \in Nat /\ DAP_REQ_SLOTS = DAP_PACKET_COUNT + 1
<1>1. Count \in 0 .. DAP_PACKET_COUNT /\ Count - Held \in Nat /\ Held \in {0, 1}
  BY CountRange, InHandRange
<1> QED BY <1>1, ConstantsAssumption
        DEF N, TypeOK, Index, DAP_REQ_SLOTS, ConstantsAssumption

(* The queue stays when ring and engine place stay.                        *)
QueueSame == N' = N /\ \A k \in 1 .. N : W(k)' = W(k)

LEMMA QueueStill ==
  ASSUME UNCHANGED <<s_req, s_req_head, s_req_tail, Held>>
  PROVE  QueueSame
BY DEF QueueSame, N, W, Count

(* A submission adds to its end.                                           *)
LEMMA QueueGrows ==
  ASSUME TypeOK, SlotInUse, ~ RingFull, NEW cmd \in Cmd,
         s_req' = [s_req EXCEPT ![s_req_head] = cmd],
         s_req_head' = Succ(s_req_head), UNCHANGED <<s_req_tail, Held>>
  PROVE  /\ N' = N + 1
         /\ \A k \in 1 .. N + 1 : W(k)' = IF k = N + 1 THEN cmd ELSE W(k)
<1> USE QueueRange
<1>1. Count' = Count + 1 /\ N' = N + 1 /\ Count < DAP_PACKET_COUNT
  BY CountSubmit, CountRange DEF N
<1>2. s_req \in [Index -> Cmd] /\ s_req_head \in Index
  BY DEF TypeOK
<1>h. s_req_head = IF s_req_tail + Count < DAP_REQ_SLOTS THEN s_req_tail + Count
                   ELSE s_req_tail + Count - DAP_REQ_SLOTS
  BY DEF Count
<1>3. ASSUME NEW k \in 1 .. N PROVE W(k)' = W(k)
  <2> DEFINE x == s_req_tail + Held + k - 1
  <2>1. x \in Nat /\ x < DAP_REQ_SLOTS + DAP_REQ_SLOTS
    OBVIOUS
  <2>2. x % DAP_REQ_SLOTS = IF x < DAP_REQ_SLOTS THEN x ELSE x - DAP_REQ_SLOTS
    BY <2>1, Wrap
  <2>3. x % DAP_REQ_SLOTS # s_req_head /\ x % DAP_REQ_SLOTS \in Index
    BY <2>2, <1>h, <1>1 DEF Index
  <2>4. W(k) = s_req[x % DAP_REQ_SLOTS] /\ W(k)' = s_req'[x % DAP_REQ_SLOTS]
    BY DEF W
  <2> HIDE DEF x
  <2> QED BY <2>3, <2>4, <1>2
<1>4. ASSUME NEW k, k = N + 1 PROVE W(k)' = cmd
  <2> DEFINE x == s_req_tail + Held + k - 1
  <2>1. x = s_req_tail + Count /\ x \in Nat /\ x < DAP_REQ_SLOTS + DAP_REQ_SLOTS
    BY <1>4
  <2>2. x % DAP_REQ_SLOTS = s_req_head
    BY <2>1, <1>h, Wrap
  <2>3. W(k)' = s_req'[x % DAP_REQ_SLOTS]
    BY DEF W
  <2> HIDE DEF x
  <2> QED BY <2>2, <2>3, <1>2
<1> QED BY <1>1, <1>3, <1>4

(* Its first leaves when the engine has done with it but for the slot.     *)
QueueShifts ==
  /\ N > 0 /\ N' = N - 1
  /\ \A k \in 1 .. N' : W(k)' = W(k + 1)

LEMMA QueueLeaves ==
  ASSUME TypeOK, SlotInUse, InUse, Held = 0, Held' = 1,
         UNCHANGED <<s_req, s_req_head, s_req_tail>>
  PROVE  QueueShifts /\ W(1) = s_req[s_req_tail]
<1> USE QueueRange
<1>1. Count' = Count /\ N' = N - 1 /\ N > 0
  BY CountRange DEF Count, N, SlotInUse
<1>2. ASSUME NEW k \in 1 .. N' PROVE W(k)' = W(k + 1)
  <2>1. s_req_tail + 1 + k - 1 = s_req_tail + 0 + (k + 1) - 1
    BY <1>1
  <2> QED BY <2>1 DEF W
<1>3. W(1) = s_req[s_req_tail]
  <2>1. s_req_tail + Held + 1 - 1 = s_req_tail
    OBVIOUS
  <2>2. s_req_tail % DAP_REQ_SLOTS = s_req_tail
    <3>1. /\ s_req_tail \in Nat /\ s_req_tail < DAP_REQ_SLOTS
          /\ s_req_tail < DAP_REQ_SLOTS + DAP_REQ_SLOTS
      OBVIOUS
    <3>2. s_req_tail % DAP_REQ_SLOTS =
            IF s_req_tail < DAP_REQ_SLOTS THEN s_req_tail ELSE s_req_tail - DAP_REQ_SLOTS
      BY <3>1, Wrap
    <3> QED BY <3>1, <3>2
  <2> QED BY <2>1, <2>2 DEF W
<1> QED BY <1>1, <1>2, <1>3 DEF QueueShifts

(* Giving the slot back leaves the queue as it is.                         *)
LEMMA QueueReleased ==
  ASSUME TypeOK, SlotInUse, InUse, Held = 1, Held' = 0,
         UNCHANGED <<s_req, s_req_head>>, s_req_tail' = Succ(s_req_tail)
  PROVE  QueueSame
<1> USE QueueRange
<1>1. Count' = Count - 1 /\ N' = N
  BY CountRelease DEF N, SlotInUse
<1>2. s_req_tail' = IF s_req_tail = DAP_PACKET_COUNT THEN 0 ELSE s_req_tail + 1
  BY SuccValue DEF TypeOK
<1>3. ASSUME NEW k \in 1 .. N PROVE W(k)' = W(k)
  <2> DEFINE x == s_req_tail + 1 + k - 1
             y == s_req_tail' + 0 + k - 1
  <2>1. x \in Nat /\ x < DAP_REQ_SLOTS + DAP_REQ_SLOTS
    OBVIOUS
  <2>2. y \in Nat /\ y < DAP_REQ_SLOTS + DAP_REQ_SLOTS
    BY <1>2
  <2>3. y = x \/ (y = x - DAP_REQ_SLOTS /\ x >= DAP_REQ_SLOTS /\ y < DAP_REQ_SLOTS)
    BY <1>2
  <2>4. x % DAP_REQ_SLOTS = y % DAP_REQ_SLOTS
    <3> HIDE DEF x, y
    <3>1. /\ x % DAP_REQ_SLOTS = IF x < DAP_REQ_SLOTS THEN x ELSE x - DAP_REQ_SLOTS
          /\ y % DAP_REQ_SLOTS = IF y < DAP_REQ_SLOTS THEN y ELSE y - DAP_REQ_SLOTS
      BY <2>1, <2>2, Wrap
    <3>2. CASE y = x
      BY <3>2
    <3>3. CASE y = x - DAP_REQ_SLOTS /\ x >= DAP_REQ_SLOTS /\ y < DAP_REQ_SLOTS
      <4>1. x % DAP_REQ_SLOTS = x - DAP_REQ_SLOTS
        BY <2>1, <3>1, <3>3
      <4>2. y % DAP_REQ_SLOTS = y
        BY <3>1, <3>3
      <4> QED BY <3>3, <4>1, <4>2
    <3> QED BY <2>3, <3>2, <3>3
  <2>5. W(k) = s_req[x % DAP_REQ_SLOTS] /\ W(k)' = s_req[y % DAP_REQ_SLOTS]
    BY DEF W
  <2> QED BY <2>4, <2>5
<1> QED BY <1>1, <1>3 DEF QueueSame

----------------------------------------------------------------------------
(* What a step can do to the commands in the channel.                      *)

LineSame  == OnWire' = OnWire /\ (OnWire = 1 => s_dap_in_buf' = s_dap_in_buf)
InboxSame == Arrived' = Arrived /\ (Arrived = 1 => s_dap_out_buf' = s_dap_out_buf)

Idles ==
  QueueSame /\ LineSame /\ InboxSame /\ UNCHANGED <<rcvd, sent, s_req_dropped>>

Writes ==
  /\ Arrived = 0 /\ Arrived' = 1
  /\ sent' = sent + 1 /\ s_dap_out_buf' = sent + 1
  /\ QueueSame /\ LineSame /\ UNCHANGED <<rcvd, s_req_dropped>>

Accepts ==
  /\ Arrived = 1 /\ Arrived' = 0
  /\ N < DAP_PACKET_COUNT /\ N' = N + 1
  /\ \A k \in 1 .. N + 1 : W(k)' = IF k = N + 1 THEN s_dap_out_buf ELSE W(k)
  /\ LineSame /\ UNCHANGED <<rcvd, sent, s_req_dropped>>

Refuses ==
  /\ Arrived = 1 /\ Arrived' = 0
  /\ N >= DAP_PACKET_COUNT - 1 /\ s_req_dropped' = s_req_dropped + 1
  /\ QueueSame /\ LineSame /\ UNCHANGED <<rcvd, sent>>

Answers ==
  /\ QueueShifts
  /\ OnWire = 0 /\ OnWire' = 1 /\ s_dap_in_buf' = W(1)
  /\ InboxSame /\ UNCHANGED <<rcvd, sent, s_req_dropped>>

Abandons ==
  /\ QueueShifts /\ mishap' # {}
  /\ LineSame /\ InboxSame /\ UNCHANGED <<rcvd, sent, s_req_dropped>>

Delivers ==
  /\ OnWire = 1 /\ OnWire' = 0 /\ rcvd' = Append(rcvd, s_dap_in_buf)
  /\ QueueSame /\ InboxSame /\ UNCHANGED <<sent, s_req_dropped>>

Moves == Idles \/ Writes \/ Accepts \/ Refuses \/ Answers \/ Abandons \/ Delivers

(* While no session is torn down a step moves or loses one command at most.*)
LEMMA EveryStep ==
  ASSUME Base, [Next]_vars, "torn" \notin mishap'
  PROVE  Moves /\ mishap \subseteq mishap'
<1> USE DEF Base
<1>q. ASSUME UNCHANGED <<s_req, s_req_head, s_req_tail>>, Held' = Held PROVE QueueSame
  BY <1>q, QueueStill
<1>1. CASE engine_take \/ engine_check \/ engine_execute \/ send_stage \/ send_done
           \/ UNCHANGED vars
  <2>1. /\ UNCHANGED <<s_req, s_req_head, s_req_tail, Held, OnWire, Arrived, rcvd, sent,
                       s_req_dropped, mishap, s_dap_out_buf>>
    BY <1>1 DEF engine_take, engine_check, engine_execute, send_stage, send_done, vars,
                Held, OnWire, Arrived
  <2>2. OnWire = 1 => s_dap_in_buf' = s_dap_in_buf
    BY <1>1 DEF engine_take, engine_check, engine_execute, send_stage, send_done, vars,
                OnWire, BusyCovers
  <2> QED BY <2>1, <2>2, <1>q DEF Moves, Idles, LineSame, InboxSame
<1>2. CASE send_start
  <2>1. /\ pc = "start" /\ UNCHANGED <<s_req, s_req_head, s_req_tail, rcvd, sent, bus,
             s_req_dropped, mishap, s_dap_out_buf, s_dap_in_buf, Arrived>>
        /\ Held = 0 /\ Held' = 1
    BY <1>2 DEF send_start, Held, Arrived
  <2>2. bus = "configured" /\ in_ep # "off" /\ OnWire = 0
    BY <2>1 DEF IdleOffBus, InOpened, BusyCovers, OnWire
  <2>3. OnWire' = 1
    BY <1>2, <2>1, <2>2, ConstantsAssumption
       DEF send_start, OnWire, Staged, TypeOK, ConstantsAssumption
  <2>4. s_dap_in_buf = s_req[s_req_tail]
    BY <2>1 DEF Staged
  <2>5. QueueShifts /\ W(1) = s_req[s_req_tail]
    BY <2>1, QueueLeaves DEF InUse
  <2> QED BY <2>1, <2>2, <2>3, <2>4, <2>5 DEF Moves, Answers, InboxSame
<1>3. CASE send_timeout
  <2>1. /\ UNCHANGED <<s_req, s_req_head, s_req_tail, rcvd, sent, s_req_dropped,
                       s_dap_out_buf, s_dap_in_buf, Arrived, OnWire>>
        /\ mishap' = mishap \cup {"late"} /\ Held' = 1
    BY <1>3 DEF send_timeout, Held, Arrived, OnWire
  <2>2. CASE pc = "wait"
    <3>1. Held = 0 /\ InUse
      BY <2>2 DEF Held, InUse
    <3>2. QueueShifts
      BY <2>1, <3>1, QueueLeaves
    <3> QED BY <2>1, <3>2 DEF Moves, Abandons, LineSame, InboxSame
  <2>3. CASE pc = "sent"
    <3>1. Held = 1
      BY <2>3 DEF Held
    <3> QED BY <2>1, <3>1, <1>q DEF Moves, Idles, LineSame, InboxSame
  <2> QED BY <1>3, <2>2, <2>3 DEF send_timeout
<1>4. CASE engine_release
  <2>1. /\ UNCHANGED <<s_req, s_req_head, rcvd, sent, s_req_dropped, mishap,
                       s_dap_out_buf, s_dap_in_buf, Arrived, OnWire>>
        /\ s_req_tail' = Succ(s_req_tail) /\ Held = 1 /\ Held' = 0 /\ InUse
    BY <1>4 DEF engine_release, Held, Arrived, OnWire, InUse
  <2>2. QueueSame
    BY <2>1, QueueReleased
  <2> QED BY <2>1, <2>2 DEF Moves, Idles, LineSame, InboxSame
<1>5. CASE dap_out_cb
  <2>1. /\ out_ep = "done" /\ Arrived' = 0
        /\ UNCHANGED <<s_req_tail, Held, rcvd, sent, mishap, s_dap_in_buf, OnWire>>
    BY <1>5 DEF dap_out_cb, Arrived, Held, OnWire
  <2>2. CASE s_dap_out_buf = None
    <3>1. Arrived = 0 /\ UNCHANGED <<s_req, s_req_head, s_req_dropped>>
      BY <1>5, <2>2 DEF dap_out_cb, Arrived
    <3> QED BY <2>1, <3>1, <1>q DEF Moves, Idles, LineSame, InboxSame
  <2>3. CASE s_dap_out_buf # None /\ RingFull
    <3>1. Arrived = 1 /\ UNCHANGED <<s_req, s_req_head>> /\ s_req_dropped' = s_req_dropped + 1
      BY <1>5, <2>1, <2>3 DEF dap_out_cb, dap_engine_submit, Arrived
    <3>2. N >= DAP_PACKET_COUNT - 1
      BY <2>3, CountRange, QueueRange
    <3> QED BY <2>1, <3>1, <3>2, <1>q DEF Moves, Refuses, LineSame
  <2>4. CASE s_dap_out_buf # None /\ ~ RingFull
    <3>1. /\ Arrived = 1 /\ s_dap_out_buf \in Cmd
          /\ s_req' = [s_req EXCEPT ![s_req_head] = s_dap_out_buf]
          /\ s_req_head' = Succ(s_req_head) /\ UNCHANGED s_req_dropped
      BY <1>5, <2>1, <2>4 DEF dap_out_cb, dap_engine_submit, Arrived, TypeOK
    <3>2. N < DAP_PACKET_COUNT
      BY <2>4, CountRange, QueueRange
    <3>3. /\ N' = N + 1
          /\ \A k \in 1 .. N + 1 : W(k)' = IF k = N + 1 THEN s_dap_out_buf ELSE W(k)
      BY <2>1, <2>4, <3>1, QueueGrows
    <3> QED BY <2>1, <3>1, <3>2, <3>3 DEF Moves, Accepts, LineSame
  <2> QED BY <2>2, <2>3, <2>4
<1>6. CASE dap_in_cb
  <2>1. /\ UNCHANGED <<s_req, s_req_head, s_req_tail, Held, Arrived, rcvd, sent, s_req_dropped,
                       mishap, s_dap_out_buf>>
        /\ OnWire = 0 /\ OnWire' = 0
    BY <1>6 DEF dap_in_cb, Held, OnWire, Arrived
  <2> QED BY <2>1, <1>q DEF Moves, Idles, LineSame, InboxSame
<1>7. CASE BusReset \/ BusDisconnect
  <2>1. "torn" \notin mishap /\ (bus = "configured" => Quiet) /\ UNCHANGED mishap
    BY <1>7 DEF BusReset, BusDisconnect, SessionEnds
  <2>2. in_ep \notin {"primed", "done"} /\ out_ep # "done"
    BY <2>1 DEF IdleOffBus, Quiet
  <2>3. /\ UNCHANGED <<s_req, s_req_head, s_req_tail, Held, rcvd, sent, s_req_dropped>>
        /\ OnWire = 0 /\ OnWire' = 0 /\ Arrived = 0 /\ Arrived' = 0
    BY <1>7, <2>2 DEF BusReset, BusDisconnect, Held, OnWire, Arrived
  <2> QED BY <2>1, <2>3, <1>q DEF Moves, Idles, LineSame, InboxSame
<1>8. CASE usb_if_dap_on_configured
  <2>1. /\ UNCHANGED <<s_req, s_req_head, s_req_tail, Held, rcvd, sent, s_req_dropped, mishap>>
        /\ bus = "default" /\ OnWire' = 0 /\ Arrived' = 0
    BY <1>8 DEF usb_if_dap_on_configured, Held, OnWire, Arrived
  <2>2. OnWire = 0 /\ Arrived = 0
    BY <2>1 DEF IdleOffBus, OnWire, Arrived
  <2> QED BY <2>1, <2>2, <1>q DEF Moves, Idles, LineSame, InboxSame
<1>9. CASE host_out
  <2>1. /\ UNCHANGED <<s_req, s_req_head, s_req_tail, Held, rcvd, s_req_dropped, mishap,
                       s_dap_in_buf, OnWire>>
        /\ sent' = sent + 1 /\ s_dap_out_buf' = sent + 1
        /\ out_ep = "primed" /\ out_ep' = "done"
    BY <1>9 DEF host_out, Held, OnWire
  <2>2. Arrived = 0 /\ Arrived' = 1
    BY <2>1 DEF Arrived, None, TypeOK, Cmd
  <2> QED BY <2>1, <2>2, <1>q DEF Moves, Writes, LineSame
<1>10. CASE host_out_empty
  <2>1. /\ UNCHANGED <<s_req, s_req_head, s_req_tail, Held, rcvd, sent, s_req_dropped, mishap,
                       s_dap_in_buf, OnWire>>
        /\ Arrived = 0 /\ Arrived' = 0
    BY <1>10 DEF host_out_empty, Held, OnWire, Arrived
  <2> QED BY <2>1, <1>q DEF Moves, Idles, LineSame, InboxSame
<1>11. CASE host_in
  <2>1. /\ UNCHANGED <<s_req, s_req_head, s_req_tail, Held, Arrived, sent, s_req_dropped,
                       mishap, s_dap_in_buf, s_dap_out_buf>>
        /\ in_ep = "primed" /\ OnWire' = 0
    BY <1>11 DEF host_in, Held, OnWire, Arrived
  <2>2. IF OnWire = 1 THEN rcvd' = Append(rcvd, s_dap_in_buf) ELSE UNCHANGED rcvd
    BY <1>11, <2>1 DEF host_in, OnWire
  <2>3. OnWire = 1 \/ OnWire = 0
    BY DEF OnWire
  <2> QED BY <2>1, <2>2, <2>3, <1>q DEF Moves, Idles, Delivers, LineSame, InboxSame
<1> QED BY <1>1, <1>2, <1>3, <1>4, <1>5, <1>6, <1>7, <1>8, <1>9, <1>10, <1>11
        DEF Next, Engine, Isr, Bus, Host

----------------------------------------------------------------------------
(* The commands read, on EP2 IN, in the ring and on EP2 OUT come in this   *)
(* order, none twice, and none is one the host has not written.            *)
Ordered ==
  "torn" \notin mishap =>
    /\ \A a \in 1 .. Len(rcvd) :
         /\ rcvd[a] <= sent
         /\ \A b \in 1 .. Len(rcvd) : a < b => rcvd[a] < rcvd[b]
         /\ OnWire = 1 => rcvd[a] < s_dap_in_buf
         /\ \A k \in 1 .. N : rcvd[a] < W(k)
         /\ Arrived = 1 => rcvd[a] < s_dap_out_buf
    /\ OnWire = 1 =>
         /\ s_dap_in_buf <= sent
         /\ \A k \in 1 .. N : s_dap_in_buf < W(k)
         /\ Arrived = 1 => s_dap_in_buf < s_dap_out_buf
    /\ \A k \in 1 .. N :
         /\ W(k) <= sent
         /\ \A l \in 1 .. N : k < l => W(k) < W(l)
         /\ Arrived = 1 => W(k) < s_dap_out_buf
    /\ Arrived = 1 => s_dap_out_buf <= sent

(* With nothing lost they are 1, 2, 3... without a gap.                    *)
Numbered ==
  mishap = {} /\ s_req_dropped = 0 =>
    /\ \A a \in 1 .. Len(rcvd) : rcvd[a] = a
    /\ OnWire = 1 => s_dap_in_buf = Len(rcvd) + 1
    /\ \A k \in 1 .. N : W(k) = Len(rcvd) + OnWire + k
    /\ Arrived = 1 => s_dap_out_buf = Len(rcvd) + OnWire + N + 1
    /\ sent = Len(rcvd) + OnWire + N + Arrived

(* Numbers, lengths and elements of what is compared.                      *)
LEMMA Values ==
  ASSUME TypeOK, SlotInUse
  PROVE  /\ N \in Nat /\ sent \in Nat /\ s_dap_in_buf \in Nat /\ s_dap_out_buf \in Nat
         /\ s_req_dropped \in Nat
         /\ OnWire \in {0, 1} /\ Arrived \in {0, 1}
         /\ Len(rcvd) \in Nat /\ \A a \in 1 .. Len(rcvd) : rcvd[a] \in Nat
         /\ \A k \in 1 .. N : W(k) \in Cmd /\ W(k) \in Nat
<1>1. ASSUME NEW k \in 1 .. N PROVE W(k) \in Cmd
  <2> DEFINE x == s_req_tail + Held + k - 1
  <2>1. x \in Nat /\ x < DAP_REQ_SLOTS + DAP_REQ_SLOTS /\ DAP_REQ_SLOTS \in Nat \ {0}
    BY QueueRange
  <2>2. x % DAP_REQ_SLOTS \in Index
    <3> HIDE DEF x
    <3> QED BY <2>1, Wrap DEF Index
  <2>3. W(k) = s_req[x % DAP_REQ_SLOTS]
    BY DEF W
  <2> QED BY <2>2, <2>3 DEF TypeOK
<1>2. \A n \in Cmd : n \in Nat
  BY DEF Cmd
<1>3. rcvd \in Seq(Cmd) /\ Len(rcvd) \in Nat /\ \A a \in 1 .. Len(rcvd) : rcvd[a] \in Cmd
  BY DEF TypeOK
<1> QED BY <1>1, <1>2, <1>3, QueueRange, InHandRange DEF TypeOK

(* A response read goes to the end.                                        *)
LEMMA Reading ==
  ASSUME TypeOK, NEW m, rcvd' = Append(rcvd, m)
  PROVE  /\ Len(rcvd') = Len(rcvd) + 1 /\ Len(rcvd) \in Nat
         /\ \A a \in 1 .. Len(rcvd) + 1 : rcvd'[a] = IF a = Len(rcvd) + 1 THEN m ELSE rcvd[a]
BY DEF TypeOK

LEMMA OrderedStep ==
  ASSUME Base, Base', Ordered, [Next]_vars
  PROVE  Ordered'
<1> SUFFICES ASSUME "torn" \notin mishap'
             PROVE  Ordered'
  BY DEF Ordered
<1>0. Moves /\ "torn" \notin mishap
  BY EveryStep
<1> USE DEF Ordered
<1> USE Values
<1>b. TypeOK /\ SlotInUse
  BY DEF Base
<1>1. CASE Idles
  BY <1>0, <1>1, <1>b DEF Idles, QueueSame, LineSame, InboxSame
<1>2. CASE Writes
  BY <1>0, <1>2, <1>b DEF Writes, QueueSame, LineSame
<1>3. CASE Accepts
  <2>1. /\ Arrived' = 0 /\ Arrived = 1 /\ UNCHANGED <<rcvd, sent, OnWire>>
        /\ OnWire = 1 => s_dap_in_buf' = s_dap_in_buf
    BY <1>3 DEF Accepts, LineSame
  <2>2. \A k \in 1 .. N' : \/ k \in 1 .. N /\ W(k)' = W(k)
                           \/ k = N + 1 /\ W(k)' = s_dap_out_buf
    BY <1>3, <1>b DEF Accepts
  <2>3. \A k \in 1 .. N' : W(k)' <= sent
    BY <1>0, <2>1, <2>2
  <2>4. \A k, l \in 1 .. N' : k < l => W(k)' < W(l)'
    BY <1>0, <2>1, <2>2, <1>b
  <2>5. \A k \in 1 .. N' : \A a \in 1 .. Len(rcvd) : rcvd[a] < W(k)'
    BY <1>0, <2>1, <2>2
  <2>6. OnWire = 1 => \A k \in 1 .. N' : s_dap_in_buf < W(k)'
    BY <1>0, <2>1, <2>2
  <2> QED BY <1>0, <2>1, <2>3, <2>4, <2>5, <2>6
<1>4. CASE Refuses
  BY <1>0, <1>4, <1>b DEF Refuses, QueueSame, LineSame
<1>5. CASE Answers
  <2>1. /\ OnWire = 0 /\ OnWire' = 1 /\ s_dap_in_buf' = W(1) /\ UNCHANGED <<rcvd, sent>>
        /\ Arrived' = Arrived /\ (Arrived = 1 => s_dap_out_buf' = s_dap_out_buf)
    BY <1>5 DEF Answers, InboxSame
  <2>2. /\ 1 \in 1 .. N
        /\ \A k \in 1 .. N' : k + 1 \in 1 .. N /\ W(k)' = W(k + 1) /\ 1 < k + 1
    BY <1>5, <1>b DEF Answers, QueueShifts
  <2>3. \A k \in 1 .. N' : W(k)' <= sent /\ W(1) < W(k)'
    BY <1>0, <2>2
  <2>4. \A k, l \in 1 .. N' : k < l => W(k)' < W(l)'
    <3>1. \A k, l \in 1 .. N' : k < l => k + 1 < l + 1
      BY <1>b
    <3> QED BY <1>0, <2>2, <3>1
  <2>5. \A k \in 1 .. N' : /\ \A a \in 1 .. Len(rcvd) : rcvd[a] < W(k)'
                           /\ Arrived = 1 => W(k)' < s_dap_out_buf
    BY <1>0, <2>2
  <2>6. /\ W(1) <= sent /\ (Arrived = 1 => W(1) < s_dap_out_buf)
        /\ \A a \in 1 .. Len(rcvd) : rcvd[a] < W(1)
    BY <1>0, <2>2
  <2> QED BY <1>0, <2>1, <2>3, <2>4, <2>5, <2>6
<1>6. CASE Abandons
  BY <1>0, <1>6, <1>b DEF Abandons, QueueShifts, LineSame, InboxSame
<1>7. CASE Delivers
  BY <1>0, <1>7, <1>b, Reading DEF Delivers, QueueSame, InboxSame
<1> QED BY <1>0, <1>1, <1>2, <1>3, <1>4, <1>5, <1>6, <1>7 DEF Moves

LEMMA NumberedStep ==
  ASSUME Base, Base', Numbered, [Next]_vars
  PROVE  Numbered'
<1> SUFFICES ASSUME mishap' = {}, s_req_dropped' = 0
             PROVE  Numbered'
  BY DEF Numbered
<1>0. Moves /\ mishap = {}
  BY EveryStep
<1> USE DEF Numbered
<1> USE Values
<1>b. TypeOK /\ SlotInUse
  BY DEF Base
<1>1. CASE Idles
  BY <1>0, <1>1, <1>b DEF Idles, QueueSame, LineSame, InboxSame
<1>2. CASE Writes
  BY <1>0, <1>2, <1>b DEF Writes, QueueSame, LineSame
<1>3. CASE Accepts
  <2>1. /\ Arrived' = 0 /\ Arrived = 1 /\ UNCHANGED <<rcvd, sent, OnWire, s_req_dropped>>
        /\ OnWire = 1 => s_dap_in_buf' = s_dap_in_buf
        /\ N' = N + 1
    BY <1>3 DEF Accepts, LineSame
  <2>2. \A k \in 1 .. N' : \/ k \in 1 .. N /\ W(k)' = W(k)
                           \/ k = N + 1 /\ W(k)' = s_dap_out_buf
    BY <1>3, <1>b DEF Accepts
  <2>0. s_req_dropped = 0 /\ N \in Nat /\ Len(rcvd) \in Nat /\ OnWire \in Nat
    BY <2>1, <1>b
  <2>n. /\ \A k \in 1 .. N : W(k) = Len(rcvd) + OnWire + k
        /\ s_dap_out_buf = Len(rcvd) + OnWire + N + 1
        /\ sent = Len(rcvd) + OnWire + N + 1
    BY <1>0, <2>0, <2>1
  <2> HIDE DEF Numbered
  <2>3. \A k \in 1 .. N' : W(k)' = Len(rcvd) + OnWire + k
    BY <2>0, <2>2, <2>n
  <2>4. sent = Len(rcvd) + OnWire + N' + 0
    BY <2>0, <2>1, <2>n
  <2> USE DEF Numbered
  <2> QED BY <1>0, <2>1, <2>3, <2>4
<1>4. CASE Refuses
  BY <1>4, <1>b DEF Refuses
<1>5. CASE Answers
  BY <1>0, <1>5, <1>b DEF Answers, QueueShifts, InboxSame
<1>6. CASE Abandons
  BY <1>6 DEF Abandons
<1>7. CASE Delivers
  BY <1>0, <1>7, <1>b, Reading DEF Delivers, QueueSame, InboxSame
<1> QED BY <1>0, <1>1, <1>2, <1>3, <1>4, <1>5, <1>6, <1>7 DEF Moves

LEMMA OrderInit == Init => Ordered /\ Numbered
<1> SUFFICES ASSUME Init PROVE Ordered /\ Numbered
  OBVIOUS
<1>1. /\ N = 0 /\ OnWire = 0 /\ Arrived = 0 /\ rcvd = <<>> /\ Len(rcvd) = 0 /\ sent = 0
  <2>1. Count = 0 /\ Held = 0
    BY DEF Init, Count, Held
  <2>2. OnWire = 0 /\ Arrived = 0 /\ rcvd = <<>> /\ sent = 0
    BY DEF Init, OnWire, Arrived
  <2> QED BY <2>1, <2>2 DEF N
<1> QED BY <1>1 DEF Ordered, Numbered

LEMMA OrderHolds == Spec => [](Ordered /\ Numbered)
<1>1. Base /\ Base' /\ Ordered /\ Numbered /\ [Next]_vars => Ordered' /\ Numbered'
  BY OrderedStep, NumberedStep
<1> QED BY <1>1, OrderInit, BaseHolds, PTL DEF Spec

(* Responses reach the host in the order of their commands and at most     *)
(* once, whatever was dropped or timed out: for every size and window.     *)
THEOREM ResponsesInOrder == Spec => []InOrder
<1>1. Ordered => InOrder
  BY DEF Ordered, InOrder
<1> QED BY <1>1, OrderHolds, PTL

(* With no mishap and no drop the n-th response answers the n-th command.  *)
THEOREM ResponsesPaired == Spec => []Paired
<1>1. Numbered => Paired
  BY DEF Numbered, Paired
<1> QED BY <1>1, OrderHolds, PTL

----------------------------------------------------------------------------
(* The channel is the server CommandPipe.                                  *)

LEMMA WaitingIs ==
  ASSUME TypeOK, SlotInUse
  PROVE  /\ Waiting = [k \in 1 .. N |-> W(k)]
         /\ Waiting \in Seq(Cmd) /\ Len(Waiting) = N
<1>1. Waiting = [k \in 1 .. N |-> W(k)]
  BY DEF Waiting, N, W
<1>2. N \in Nat /\ \A k \in 1 .. N : W(k) \in Cmd
  BY Values
<1> QED BY <1>1, <1>2, SeqDef, LenProperties

(* The sequence of the next state, from its length and its elements.       *)
LEMMA WaitingNext ==
  ASSUME NEW n \in Nat, NEW q \in Seq(Cmd), Len(q) = n,
         N' = n, \A k \in 1 .. n : W(k)' = q[k]
  PROVE  Waiting' = q
<1>1. Waiting' = [k \in 1 .. N' |-> W(k)']
  BY DEF Waiting, N, W
<1>2. q = [k \in 1 .. n |-> q[k]]
  BY LenProperties
<1>3. [k \in 1 .. n |-> W(k)'] = [k \in 1 .. n |-> q[k]]
  OBVIOUS
<1> QED BY <1>1, <1>2, <1>3

(* A packet on EP2 OUT holds the command written last.                     *)
Fresh == "torn" \notin mishap /\ Arrived = 1 => s_dap_out_buf = sent

LEMMA FreshHolds == Spec => []Fresh
<1>1. Init => Fresh
  BY DEF Init, Fresh, Arrived
<1>2. ASSUME Base, Fresh, [Next]_vars PROVE Fresh'
  <2> SUFFICES ASSUME "torn" \notin mishap'
               PROVE  Arrived' = 1 => s_dap_out_buf' = sent'
    BY DEF Fresh
  <2>1. Moves /\ "torn" \notin mishap
    BY <1>2, EveryStep
  <2>2. Arrived = 1 => s_dap_out_buf = sent
    BY <1>2, <2>1 DEF Fresh
  <2> QED BY <2>1, <2>2
          DEF Moves, Idles, Writes, Accepts, Refuses, Answers, Abandons, Delivers, InboxSame
<1> QED BY <1>1, <1>2, BaseHolds, PTL DEF Spec

(* What a move does to the three parts of the pipe besides the queue.      *)
LEMMA PipeStep ==
  ASSUME Base, Fresh, [Next]_vars, "torn" \notin mishap'
  PROVE  [Pipe!Next]_(Pipe!vars)
<1>0. Moves /\ "torn" \notin mishap /\ TypeOK /\ SlotInUse
  BY EveryStep DEF Base
<1>w. Waiting = [k \in 1 .. N |-> W(k)] /\ Waiting \in Seq(Cmd) /\ Len(Waiting) = N /\ N \in Nat
  BY <1>0, WaitingIs, Values
<1>v. /\ sent \in Nat /\ OnWire \in {0, 1} /\ Arrived \in {0, 1} /\ s_dap_out_buf \in Cmd
      /\ Arrived = 1 => s_dap_out_buf = sent
  BY <1>0, Values DEF Fresh, TypeOK
<1>l. LineSame => Line' = Line
  BY DEF LineSame, Line
<1>a. InboxSame /\ sent' = sent => Arriving' = Arriving
  BY DEF InboxSame, Arriving
<1>q. QueueSame => Waiting' = Waiting
  <2> SUFFICES ASSUME QueueSame PROVE Waiting' = Waiting
    OBVIOUS
  <2>1. N' = N /\ \A k \in 1 .. N : W(k)' = Waiting[k]
    BY <1>w DEF QueueSame
  <2> QED BY <2>1, <1>w, WaitingNext
<1>s. QueueShifts => Waiting # <<>> /\ Waiting' = Tail(Waiting) /\ Head(Waiting) = W(1)
  <2> SUFFICES ASSUME QueueShifts
               PROVE  Waiting # <<>> /\ Waiting' = Tail(Waiting) /\ Head(Waiting) = W(1)
    OBVIOUS
  <2>1. N > 0 /\ N' = N - 1 /\ N - 1 \in Nat /\ Waiting # <<>>
    BY <1>w DEF QueueShifts
  <2>2. /\ Tail(Waiting) \in Seq(Cmd) /\ Len(Tail(Waiting)) = N - 1
        /\ \A k \in 1 .. N - 1 : Tail(Waiting)[k] = Waiting[k + 1]
        /\ Head(Waiting) = Waiting[1]
    BY <1>w, <2>1, HeadTailProperties
  <2>3. \A k \in 1 .. N - 1 : W(k)' = Tail(Waiting)[k]
    BY <1>w, <2>1, <2>2 DEF QueueShifts
  <2>4. Head(Waiting) = W(1)
    BY <1>w, <2>1, <2>2
  <2> QED BY <2>1, <2>2, <2>3, <2>4, WaitingNext
<1>1. CASE Idles
  <2>1. UNCHANGED <<Arriving, Waiting, Line, rcvd>>
    BY <1>1, <1>l, <1>a, <1>q DEF Idles
  <2> QED BY <2>1 DEF Pipe!vars
<1>2. CASE Writes
  <2>1. Arriving' = Arriving
    BY <1>2, <1>v DEF Writes, Arriving
  <2>2. UNCHANGED <<Arriving, Waiting, Line, rcvd>>
    BY <1>2, <2>1, <1>l, <1>q DEF Writes
  <2> QED BY <2>2 DEF Pipe!vars
<1>3. CASE Accepts
  <2>1. Arriving = s_dap_out_buf /\ Arriving \in Cmd /\ Arriving' = Arriving + 1
    BY <1>3, <1>v DEF Accepts, Arriving
  <2>2. /\ Append(Waiting, Arriving) \in Seq(Cmd) /\ Len(Append(Waiting, Arriving)) = N + 1
        /\ \A k \in 1 .. N + 1 :
             Append(Waiting, Arriving)[k] = IF k = N + 1 THEN Arriving ELSE Waiting[k]
    BY <1>w, <2>1
  <2>3. \A k \in 1 .. N + 1 : W(k)' = Append(Waiting, Arriving)[k]
    BY <1>3, <1>w, <2>1, <2>2 DEF Accepts
  <2>4. Waiting' = Append(Waiting, Arriving)
    <3>1. N' = N + 1 /\ N + 1 \in Nat
      BY <1>3, <1>w DEF Accepts
    <3> QED BY <2>2, <2>3, <3>1, WaitingNext
  <2>5. Len(Waiting) < DAP_PACKET_COUNT /\ UNCHANGED <<Line, rcvd>>
    BY <1>3, <1>l, <1>w DEF Accepts
  <2>6. Pipe!Accept
    BY <2>1, <2>4, <2>5 DEF Pipe!Accept
  <2> QED BY <2>6 DEF Pipe!Next
<1>4. CASE Refuses
  <2>1. Arriving' = Arriving + 1
    BY <1>4, <1>v DEF Refuses, Arriving
  <2>2. Len(Waiting) >= DAP_PACKET_COUNT - 1 /\ UNCHANGED <<Waiting, Line, rcvd>>
    BY <1>4, <1>l, <1>q, <1>w DEF Refuses
  <2>3. Pipe!Refuse
    BY <2>1, <2>2 DEF Pipe!Refuse
  <2> QED BY <2>3 DEF Pipe!Next
<1>5. CASE Answers
  <2>1. Line = <<>> /\ Line' = <<W(1)>>
    BY <1>5 DEF Answers, Line
  <2>2. UNCHANGED <<Arriving, rcvd>>
    BY <1>5, <1>a DEF Answers
  <2>3. Pipe!Answer
    BY <1>5, <2>1, <2>2, <1>s DEF Answers, Pipe!Answer
  <2> QED BY <2>3 DEF Pipe!Next
<1>6. CASE Abandons
  <2>1. UNCHANGED <<Arriving, Line, rcvd>>
    BY <1>6, <1>a, <1>l DEF Abandons
  <2>2. Pipe!Abandon
    BY <1>6, <2>1, <1>s DEF Abandons, Pipe!Abandon
  <2> QED BY <2>2 DEF Pipe!Next
<1>7. CASE Delivers
  <2>1. Line = <<s_dap_in_buf>> /\ Line' = <<>> /\ rcvd' = Append(rcvd, Head(Line))
    BY <1>7 DEF Delivers, Line
  <2>2. UNCHANGED <<Arriving, Waiting>>
    BY <1>7, <1>a, <1>q DEF Delivers
  <2>3. Pipe!Deliver
    BY <2>1, <2>2 DEF Pipe!Deliver
  <2> QED BY <2>3 DEF Pipe!Next
<1> QED BY <1>0, <1>1, <1>2, <1>3, <1>4, <1>5, <1>6, <1>7 DEF Moves

LEMMA PipeInit == Init => Pipe!Init
<1> SUFFICES ASSUME Init PROVE Pipe!Init
  OBVIOUS
<1>1. Arriving = 1 /\ Line = <<>> /\ rcvd = <<>>
  BY DEF Init, Arriving, Line, Arrived, OnWire
<1>2. Waiting = <<>>
  <2>0. Count = 0 /\ Held = 0
    BY DEF Init, Count, Held
  <2>1. Count - Held = 0
    BY <2>0
  <2>2. Waiting = [k \in 1 .. 0 |-> s_req[(s_req_tail + Held + k - 1) % DAP_REQ_SLOTS]]
    BY <2>1 DEF Waiting
  <2> QED BY <2>2
<1> QED BY <1>1, <1>2 DEF Pipe!Init

(* While no session is torn down, and for every ring size and window, the  *)
(* channel is the in-order server CommandPipe: it refuses a command only   *)
(* when at most one place is free, gives up only the oldest one, and never *)
(* reorders, repeats or invents a response.                                *)
THEOREM ImplementsPipe == Spec /\ []("torn" \notin mishap) => PipeImplemented
<1>1. Base /\ Fresh /\ [Next]_vars /\ ("torn" \notin mishap)' => [Pipe!Next]_(Pipe!vars)
  BY PipeStep
<1> QED BY <1>1, PipeInit, BaseHolds, FreshHolds, PTL DEF Spec, PipeImplemented, Pipe!Spec
=============================================================================
