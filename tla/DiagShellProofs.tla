--------------------------- MODULE DiagShellProofs ---------------------------
(***************************************************************************)
(* Proofs about the diagnostic shell, for every number of retries and      *)
(* polls: the types hold whatever the host does, and while it keeps still  *)
(* during a command, the cached SELECT never misleads an access.           *)
(***************************************************************************)
EXTENDS DiagShell, TLAPS

(* Between commands the shell stands at the connect sequence; only an      *)
(* access port register has a bank to select, only its reads a value to    *)
(* collect.                                                                *)
Shape ==
  /\ cmd = "none" => op = "connect"
  /\ stage = "select" => op \in APRegs
  /\ stage = "rdbuff" => op \in APReads

LEMMA ShapeKept == Shape /\ [Next]_vars => Shape'
<1> SUFFICES ASSUME Shape, [Next]_vars PROVE Shape'  OBVIOUS
<1> USE DEF Shape
<1>1. ASSUME NEW o, GoTo(o), cmd # "none" PROVE Shape'
  BY <1>1 DEF GoTo
<1>2. ASSUME End PROVE Shape'
  BY <1>2 DEF End
<1>3. CASE Connect  BY <1>1, <1>2, <1>3 DEF Connect
<1>4. CASE swd_xfer_retry  BY <1>4 DEF swd_xfer_retry
<1>5. CASE Fail  BY <1>2, <1>5 DEF Fail
<1>6. CASE Advance  BY <1>1, <1>6 DEF Advance, Succeeds, Accessing
<1>7. CASE Identified  BY <1>2, <1>7 DEF Identified
<1>8. CASE PoweredUp  BY <1>1, <1>8 DEF PoweredUp, Succeeds, Accessing
<1>9. CASE NotPowered  BY <1>2, <1>9 DEF NotPowered
<1>10. CASE swd_select_ap  BY <1>10 DEF swd_select_ap
<1>11. CASE ap_read  BY <1>11 DEF ap_read
<1>12. CASE Collect  BY <1>2, <1>12 DEF Collect
<1>13. ASSUME NEW c \in Commands, Run(c) PROVE Shape'
  BY <1>13 DEF Run, Commands
<1>14. CASE TargetGone  BY <1>14 DEF TargetGone, shellVars
<1>15. CASE Host  BY <1>15 DEF Host, shellVars
<1>16. CASE UNCHANGED vars  BY <1>16 DEF vars, shellVars
<1> QED
  BY <1>3, <1>4, <1>5, <1>6, <1>7, <1>8, <1>9, <1>10, <1>11, <1>12, <1>13, <1>14, <1>15, <1>16
     DEF Next, Shell

(* What an access does to the target has the types of the target, whether  *)
(* it is acknowledged or not.                                              *)
LEMMA TransferType ==
  ASSUME TypeOK, Shape, NEW ack, SWD_Transfer(ack)
  PROVE  /\ link' \in {"lost", "reset", "up"}
         /\ sel' \in Banks /\ sticky' \in BOOLEAN
         /\ posted' \in Posted
<1>1. CASE ack \in {"OK", "PARITY"}
  <2>1. Perform  BY <1>1 DEF SWD_Transfer
  <2>2. PICK spoilt \in BOOLEAN :
          /\ sticky' = IF Access = "ABORT" THEN spoilt ELSE sticky \/ spoilt
          /\ sel' = IF Access = "SELECT" /\ ~ spoilt
                      THEN (IF stage = "select" THEN Bank[op] ELSE 0) ELSE sel
    BY <2>1 DEF Perform
  <2>3. sel' \in Banks  BY <2>2 DEF Shape, TypeOK, Banks, Bank, APRegs, APReads
  <2>4. Access \in APReads => Access = op  BY DEF Access, APReads
  <2>5. posted' \in Posted
    BY <2>1, <2>4 DEF Perform, TypeOK, Posted, Offset, APReads
  <2>6. sticky' \in BOOLEAN
    <3>1. CASE Access = "ABORT"  BY <2>2, <3>1
    <3>2. CASE Access # "ABORT"  BY <2>2, <3>2 DEF TypeOK
    <3> QED  BY <3>1, <3>2
  <2> QED  BY <2>1, <2>3, <2>5, <2>6 DEF Perform
<1>2. CASE ack \notin {"OK", "PARITY"}
  BY <1>2 DEF SWD_Transfer, targetVars, TypeOK
<1> QED  BY <1>1, <1>2

(* The three ways a step of a command leaves the shell.                    *)
LEMMA GoToType ==
  ASSUME TypeOK, NEW o \in Step, GoTo(o)
  PROVE  /\ cmd' \in Commands \cup {"none"} /\ op' \in Step
         /\ stage' \in {"select", "access", "rdbuff"}
         /\ tries' \in 1 .. Retries /\ polls' \in 1 .. Polls
BY ShellAssumption DEF TypeOK, GoTo

LEMMA EndType ==
  ASSUME End
  PROVE  /\ cmd' \in Commands \cup {"none"} /\ op' \in Step
         /\ stage' \in {"select", "access", "rdbuff"}
         /\ tries' \in 1 .. Retries /\ polls' \in 1 .. Polls
BY ShellAssumption DEF End, Step

LEMMA InitTypes == Init => TypeOK /\ Shape
BY ShellAssumption DEF Init, TypeOK, Shape, Step, Banks, Posted

(* Every action keeps the types.                                           *)
LEMMA NextKeepsTypes == TypeOK /\ Shape /\ [Next]_vars => TypeOK'
<1> SUFFICES ASSUME TypeOK, Shape, [Next]_vars PROVE TypeOK'  OBVIOUS
<1> USE ShellAssumption
<1>1. CASE Connect
  <2>1. CASE cmd = "swd_raw"
    BY <1>1, <2>1, EndType DEF Connect, TypeOK
  <2>2. CASE cmd # "swd_raw"
    <3>1. GoTo("IDCODE")  BY <1>1, <2>2 DEF Connect
    <3>2. "IDCODE" \in Step  BY DEF Step
    <3> QED  BY <1>1, <2>2, <3>1, <3>2, GoToType DEF Connect, TypeOK
  <2> QED  BY <2>1, <2>2
<1>2. CASE swd_xfer_retry
  <2>1. PICK ack \in Answers : Again(ack) /\ SWD_Transfer(ack)  BY <1>2 DEF swd_xfer_retry
  <2>2. tries' \in 1 .. Retries  BY <1>2, <2>1 DEF swd_xfer_retry, Again, Spent, TypeOK
  <2> QED  BY <1>2, <2>1, <2>2, TransferType DEF swd_xfer_retry, TypeOK
<1>3. CASE Fail
  <2>1. PICK ack \in Answers : SWD_Transfer(ack)  BY <1>3 DEF Fail
  <2>2. s_sel_cache' \in Banks \cup {Unknown}  BY <1>3 DEF Fail, TypeOK, Banks
  <2>3. End  BY <1>3 DEF Fail
  <2> QED  BY <2>1, <2>2, <2>3, TransferType, EndType DEF TypeOK
<1>4. CASE Advance
  <2>1. PICK ack \in Answers : SWD_Transfer(ack)  BY <1>4 DEF Advance, Succeeds
  <2>2. s_sel_cache' \in Banks \cup {Unknown}  BY <1>4 DEF Advance, TypeOK, Banks
  <2>3. Follows[op] \in Step  BY <1>4 DEF Advance, Follows, Step, APRegs, APReads
  <2>4. GoTo(Follows[op])  BY <1>4 DEF Advance
  <2> QED  BY <2>1, <2>2, <2>3, <2>4, TransferType, GoToType DEF TypeOK
<1>5. CASE Identified
  BY <1>5, TransferType, EndType DEF Identified, Succeeds, TypeOK
<1>6. CASE PoweredUp
  <2>1. PICK ack \in Answers : SWD_Transfer(ack)  BY <1>6 DEF PoweredUp, Succeeds
  <2>2. PICK o \in Step : GoTo(o)  BY <1>6 DEF PoweredUp, Step, APRegs, APReads
  <2> QED  BY <1>6, <2>1, <2>2, TransferType, GoToType DEF PoweredUp, TypeOK
<1>7. CASE NotPowered
  <2>1. PICK ack \in Answers : SWD_Transfer(ack)  BY <1>7 DEF NotPowered, Succeeds
  <2>2. CASE polls > 1
    <3>1. polls' \in 1 .. Polls /\ tries' \in 1 .. Retries
      BY <1>7, <2>2 DEF NotPowered, TypeOK
    <3> QED  BY <1>7, <2>1, <2>2, <3>1, TransferType DEF NotPowered, TypeOK
  <2>3. CASE ~ (polls > 1)
    BY <1>7, <2>1, <2>3, TransferType, EndType DEF NotPowered, TypeOK
  <2> QED  BY <2>2, <2>3
<1>8. CASE swd_select_ap
  <2>1. PICK ack \in Answers : SWD_Transfer(ack)  BY <1>8 DEF swd_select_ap, Succeeds
  <2>2. s_sel_cache' \in Banks \cup {Unknown}
    BY <1>8 DEF swd_select_ap, Shape, Banks, Bank, APRegs, APReads
  <2>3. tries' \in 1 .. Retries  BY <1>8 DEF swd_select_ap
  <2> QED  BY <1>8, <2>1, <2>2, <2>3, TransferType DEF swd_select_ap, TypeOK
<1>9. CASE ap_read
  <2>1. tries' \in 1 .. Retries  BY <1>9 DEF ap_read
  <2> QED  BY <1>9, <2>1, TransferType DEF ap_read, Succeeds, TypeOK
<1>10. CASE Collect
  BY <1>10, TransferType, EndType DEF Collect, Succeeds, TypeOK
<1>11. ASSUME NEW c \in Commands, Run(c) PROVE TypeOK'
  BY <1>11 DEF Run, targetVars, TypeOK
<1>12. CASE TargetGone
  BY <1>12 DEF TargetGone, shellVars, TypeOK
<1>13. CASE Host
  BY <1>13 DEF Host, shellVars, TypeOK
<1>14. CASE UNCHANGED vars
  BY <1>14 DEF vars, shellVars, targetVars, TypeOK
<1> QED
  BY <1>1, <1>2, <1>3, <1>4, <1>5, <1>6, <1>7, <1>8, <1>9, <1>10, <1>11, <1>12, <1>13, <1>14
     DEF Next, Shell

(* Every variable keeps to its range: no retry or poll count runs out of   *)
(* it, and the cached SELECT names a bank or is unknown.                   *)
THEOREM TypeCorrect == Spec => []TypeOK
BY InitTypes, NextKeepsTypes, ShapeKept, PTL DEF Spec

----------------------------------------------------------------------------
(* The cache.  From the write of CTRL/STAT on, a target that carries out   *)
(* what it is sent has the cached bank selected; a spoilt SELECT leaves    *)
(* the cache wrong but the target refusing.  Before an access goes out the *)
(* cache names its bank.                                                   *)
Tracked == APRegs \cup {"CTRLwr", "CTRLrd"}

Coherent ==
  /\ op \in Tracked /\ Listening => sel = s_sel_cache
  /\ op \in APRegs /\ stage # "select" => s_sel_cache = Bank[op]
  /\ stage = "rdbuff" /\ Listening => posted = Named(op)
  /\ cmd = "none" => op = "connect"

(* An access that follows the connect sequence leaves the target listening *)
(* only if it was listening and none of the access was spoilt.             *)
LEMMA TransferListens ==
  ASSUME TypeOK, Shape, op \in Tracked, NEW ack \in Answers, SWD_Transfer(ack), Listening'
  PROVE  /\ Listening
         /\ stage # "select" => sel' = sel
         /\ stage = "select" /\ Good(ack) => sel' = Bank[op]
         /\ stage = "select" /\ ~ Good(ack) => sel' = sel
         /\ stage = "access" /\ op \in APReads /\ Good(ack) => posted' = Named(op) \/ sel # Bank[op]
         /\ stage = "rdbuff" => posted' = posted
<1>1. CASE ack \in {"OK", "PARITY"}
  <2>1. Perform /\ Good(ack)  BY <1>1 DEF SWD_Transfer, Good
  <2>2. Access \notin {"IDCODE", "ABORT"}
    BY DEF Access, Tracked, APRegs, APReads
  <2>3. link = "up"  BY <1>1, <2>2, <2>1 DEF Answers, TypeOK
  <2>4. PICK spoilt \in BOOLEAN :
          /\ sticky' = IF Access = "ABORT" THEN spoilt ELSE sticky \/ spoilt
          /\ sel' = IF Access = "SELECT" /\ ~ spoilt
                      THEN (IF stage = "select" THEN Bank[op] ELSE 0) ELSE sel
    BY <2>1 DEF Perform
  <2>5. ~ sticky /\ ~ spoilt  BY <2>2, <2>4 DEF Listening
  <2>6. Access = "SELECT" <=> stage = "select"
    BY DEF Access, Tracked, APRegs, APReads
  <2>7. stage = "access" => Access = op  BY DEF Access
  <2>8. stage = "rdbuff" => Access = "RDBUFF"  BY DEF Access
  <2>9. posted' = IF Access \in APReads THEN <<sel, Offset[op]>> ELSE posted
    BY <2>1 DEF Perform
  <2>10. stage = "access" /\ op \in APReads => posted' = Named(op) \/ sel # Bank[op]
    BY <2>7, <2>9 DEF Named
  <2>11. stage = "rdbuff" => posted' = posted  BY <2>8, <2>9 DEF APReads
  <2> QED  BY <2>1, <2>3, <2>4, <2>5, <2>6, <2>10, <2>11 DEF Listening
<1>2. CASE ack \notin {"OK", "PARITY"}
  BY <1>2 DEF SWD_Transfer, targetVars, Listening, Good
<1> QED  BY <1>1, <1>2

LEMMA CoherentInit == Init => Coherent
BY DEF Init, Coherent, Tracked, APRegs, APReads

(* With the host still, every action keeps the cache coherent.             *)
LEMMA CoherentKept ==
  ~ HostMayPreempt /\ TypeOK /\ Shape /\ Coherent /\ [Next]_vars => Coherent'
<1> SUFFICES ASSUME ~ HostMayPreempt, TypeOK, Shape, Coherent, [Next]_vars PROVE Coherent'  OBVIOUS
<1>1. ASSUME End PROVE Coherent'
  BY <1>1 DEF End, Coherent, Tracked, APRegs, APReads
<1>2. CASE Connect
  <2>1. CASE cmd = "swd_raw"  BY <1>1, <1>2, <2>1 DEF Connect
  <2>2. CASE cmd # "swd_raw"
    BY <1>2, <2>2 DEF Connect, GoTo, Coherent, Tracked, APRegs, APReads
  <2> QED  BY <2>1, <2>2
<1>3. CASE swd_xfer_retry
  <2>1. UNCHANGED targetVars
    BY <1>3 DEF swd_xfer_retry, Again, SWD_Transfer
  <2> QED  BY <1>3, <2>1 DEF swd_xfer_retry, targetVars, Coherent, Listening
<1>4. CASE Fail  BY <1>1, <1>4 DEF Fail
<1>5. CASE Advance
  <2>1. PICK ack \in Answers : Good(ack) /\ SWD_Transfer(ack)
    BY <1>5 DEF Advance, Succeeds
  <2>2. CASE op \in Tracked
    <3>1. op # "SELECT" /\ s_sel_cache' = s_sel_cache
      BY <1>5, <2>2 DEF Advance, Tracked, APRegs, APReads
    <3>2. Listening' => sel' = s_sel_cache'
      BY <1>5, <2>1, <2>2, <3>1, TransferListens DEF Advance, Coherent
    <3>3. cmd # "none" /\ cmd' = cmd /\ op' = Follows[op]
      BY <1>5 DEF Advance, Succeeds, Accessing, GoTo
    <3>4. stage' = IF op' \in APRegs /\ MustSelect(op') THEN "select" ELSE "access"
      BY <1>5, <3>3 DEF Advance, GoTo
    <3>5. op' \in APRegs /\ stage' # "select" => s_sel_cache' = Bank[op']
      BY <3>1, <3>4 DEF MustSelect
    <3> QED  BY <3>2, <3>3, <3>4, <3>5 DEF Coherent
  <2>3. CASE op = "SELECT"
    <3>1. op' = "CTRLwr" /\ stage' = "access" /\ s_sel_cache' = 0 /\ cmd' = cmd /\ cmd # "none"
      BY <1>5, <2>3 DEF Advance, Succeeds, Accessing, GoTo, Follows, APRegs, APReads
    <3>2. Access = "SELECT" /\ stage = "access"  BY <1>5, <2>3 DEF Advance, Access
    <3>3. Perform  BY <2>1 DEF SWD_Transfer, Good
    <3>4. Listening' => sel' = 0
      BY <3>2, <3>3 DEF Perform, Listening
    <3> QED  BY <3>1, <3>4 DEF Coherent, APRegs, APReads
  <2>4. CASE op \in {"IDCODE", "ABORT"}
    <3>1. op' \in {"ABORT", "SELECT"} /\ stage' = "access" /\ cmd' = cmd /\ cmd # "none"
      BY <1>5, <2>4 DEF Advance, Succeeds, Accessing, GoTo, Follows, APRegs, APReads
    <3> QED  BY <3>1 DEF Coherent, Tracked, APRegs, APReads
  <2> QED  BY <1>5, <2>2, <2>3, <2>4 DEF Advance, Follows, Tracked, APRegs, APReads
<1>6. CASE Identified  BY <1>1, <1>6 DEF Identified
<1>7. CASE PoweredUp
  <2>1. PICK ack \in Answers : SWD_Transfer(ack)  BY <1>7 DEF PoweredUp, Succeeds
  <2>2. op \in Tracked /\ op \notin APRegs  BY <1>7 DEF PoweredUp, Tracked, APRegs, APReads
  <2>3. stage = "select" => FALSE  BY <2>2 DEF Shape
  <2>4. Listening' => sel' = s_sel_cache'
    BY <1>7, <2>1, <2>2, <2>3, TransferListens DEF PoweredUp, Coherent
  <2>5. cmd # "none" /\ cmd' = cmd  BY <1>7 DEF PoweredUp, Succeeds, Accessing, GoTo
  <2>6. stage' = IF op' \in APRegs /\ MustSelect(op') THEN "select" ELSE "access"
    BY <1>7 DEF PoweredUp, GoTo
  <2>7. op' \in APRegs /\ stage' # "select" => s_sel_cache' = Bank[op']
    BY <1>7, <2>6 DEF PoweredUp, MustSelect
  <2> QED  BY <2>4, <2>5, <2>6, <2>7 DEF Coherent
<1>8. CASE NotPowered
  <2>1. PICK ack \in Answers : SWD_Transfer(ack)  BY <1>8 DEF NotPowered, Succeeds
  <2>2. op \in Tracked /\ op \notin APRegs  BY <1>8 DEF NotPowered, Tracked, APRegs, APReads
  <2>3. stage # "select" /\ stage # "rdbuff"  BY <2>2 DEF Shape, APRegs
  <2>4. Listening' => sel' = s_sel_cache'
    BY <1>8, <2>1, <2>2, <2>3, TransferListens DEF NotPowered, Coherent
  <2>5. CASE polls > 1
    BY <1>8, <2>2, <2>3, <2>4, <2>5 DEF NotPowered, Succeeds, Accessing, Coherent
  <2>6. CASE ~ (polls > 1)  BY <1>1, <1>8, <2>6 DEF NotPowered
  <2> QED  BY <2>5, <2>6
<1>9. CASE swd_select_ap
  <2>1. PICK ack \in Answers : Good(ack) /\ SWD_Transfer(ack)
    BY <1>9 DEF swd_select_ap, Succeeds
  <2>2. op \in APRegs /\ op \in Tracked  BY <1>9 DEF swd_select_ap, Shape, Tracked
  <2>3. Listening' => sel' = Bank[op]
    BY <1>9, <2>1, <2>2, TransferListens DEF swd_select_ap
  <2> QED
    BY <1>9, <2>2, <2>3 DEF swd_select_ap, Succeeds, Accessing, Coherent
<1>10. CASE ap_read
  <2>1. PICK ack \in Answers : Good(ack) /\ SWD_Transfer(ack)
    BY <1>10 DEF ap_read, Succeeds
  <2>2. op \in APReads /\ op \in APRegs /\ op \in Tracked /\ stage = "access"
    BY <1>10 DEF ap_read, Tracked, APRegs
  <2>3. Listening' => sel' = sel /\ Listening
    BY <2>1, <2>2, TransferListens
  <2>4. Listening' => posted' = Named(op)
    BY <2>1, <2>2, <2>3, TransferListens DEF Coherent
  <2> QED
    BY <1>10, <2>2, <2>3, <2>4 DEF ap_read, Succeeds, Accessing, Coherent
<1>11. CASE Collect  BY <1>1, <1>11 DEF Collect
<1>12. ASSUME NEW c \in Commands, Run(c) PROVE Coherent'
  BY <1>12 DEF Run, targetVars, Coherent, Listening, Commands
<1>13. CASE TargetGone  BY <1>13 DEF TargetGone, shellVars, Coherent, Listening
<1>14. CASE Host
  <2>1. op = "connect" /\ op' = op /\ cmd' = cmd /\ stage' = stage
    BY <1>14 DEF Host, shellVars, Coherent
  <2>2. stage # "rdbuff"  BY <2>1 DEF Shape, APReads
  <2> QED  BY <2>1, <2>2 DEF Coherent, Tracked, APRegs, APReads
<1>15. CASE UNCHANGED vars
  BY <1>15 DEF vars, shellVars, targetVars, Coherent, Listening
<1> QED
  BY <1>2, <1>3, <1>4, <1>5, <1>6, <1>7, <1>8, <1>9, <1>10, <1>11, <1>12, <1>13, <1>14, <1>15
     DEF Next, Shell

(* An access port access the target carries out reaches the bank of its    *)
(* register, although SELECT is written only when the cache differs.       *)
THEOREM BankReached ==
  ASSUME ~ HostMayPreempt
  PROVE  Spec => []ReachesBank
<1>1. Coherent => ReachesBank
  BY DEF Coherent, ReachesBank, Tracked
<1> QED  BY <1>1, InitTypes, CoherentInit, NextKeepsTypes, ShapeKept, CoherentKept, PTL DEF Spec

(* What a read collects is the register it names.                          *)
THEOREM OwnCollected ==
  ASSUME ~ HostMayPreempt
  PROVE  Spec => []CollectsOwn
<1>1. Coherent => CollectsOwn
  BY DEF Coherent, CollectsOwn
<1> QED  BY <1>1, InitTypes, CoherentInit, NextKeepsTypes, ShapeKept, CoherentKept, PTL DEF Spec
=============================================================================
