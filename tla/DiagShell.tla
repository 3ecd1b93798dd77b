------------------------------ MODULE DiagShell -----------------------------
(***************************************************************************)
(* The diagnostic commands of the shell (port/dap_swd_diag.c) and the      *)
(* register layer they use (port/dap_swd_spi.c): WAIT is retried, the bank *)
(* of an access port register is selected by DP SELECT, whose last value   *)
(* is cached, and a read of the access port is collected from RDBUFF.      *)
(*                                                                         *)
(* The shell shares the target with the engine thread, which has the       *)
(* higher priority: what the host has it do is one step here.  Nothing     *)
(* locks one against the other; HostMayPreempt says whether the host is    *)
(* active while a command of the shell runs.                               *)
(***************************************************************************)
EXTENDS Naturals

CONSTANTS
  Retries,        \* SWD_WAIT_RETRIES (64 in the code)
  Polls,          \* SWD_PWRUP_RETRIES (100 in the code)
  HostMayPreempt

ASSUME ShellAssumption ==
  Retries \in Nat \ {0} /\ Polls \in Nat \ {0} /\ HostMayPreempt \in BOOLEAN

(* swd_id stands for swd_read and swd_freq too; swd_raw for the commands   *)
(* that clock the wire without the protocol (swd_seq; `swd_seq f' runs     *)
(* until the probe is reset and is left out).                              *)
Commands == {"swd_id", "swd_raw", "swd_pwr", "swd_mem"}

(* Steps of a command, and the registers of the access port: their bank,   *)
(* APBANKSEL, and their offset in it.  IDR and DRW differ in the bank only.*)
APReads  == {"IDR", "DRW"}
APRegs   == APReads \cup {"CSW", "TAR"}
Step     == APRegs \cup {"connect", "IDCODE", "ABORT", "SELECT", "CTRLwr", "CTRLrd"}
Banks    == {0, 15}
Unknown  == 255         \* 0xFFFFFFFF in the code: no bank
Bank     == [IDR |-> 15, DRW |-> 0, CSW |-> 0, TAR |-> 0]
Offset   == [IDR |-> 12, DRW |-> 12, CSW |-> 0, TAR |-> 4]
Named(r) == <<Bank[r], Offset[r]>>

VARIABLES
  cmd,          \* the command the shell runs, or none
  op,           \* its step
  stage,        \* of an access port register: select, access, rdbuff
  tries,        \* SWD_Transfer attempts left
  polls,        \* reads of CTRL/STAT left
  s_sel_cache,  \* bank of the SELECT value written last, or Unknown
  link,         \* target: gone (lost), in line reset, answering (up)
  sel,          \* target: APBANKSEL
  sticky,       \* target: an error is pending
  posted        \* target: bank and offset of the read RDBUFF holds

shellVars  == <<cmd, op, stage, tries, polls, s_sel_cache>>
targetVars == <<link, sel, sticky, posted>>
vars       == <<shellVars, targetVars>>

Posted == Banks \X {0, 4, 12}

TypeOK ==
  /\ cmd \in Commands \cup {"none"}
  /\ op \in Step
  /\ stage \in {"select", "access", "rdbuff"}
  /\ tries \in 1 .. Retries /\ polls \in 1 .. Polls
  /\ s_sel_cache \in Banks \cup {Unknown}
  /\ link \in {"lost", "reset", "up"}
  /\ sel \in Banks /\ sticky \in BOOLEAN
  /\ posted \in Posted

(* The cache starts at zero (.bss), whatever the target says.              *)
Init ==
  /\ cmd = "none" /\ op = "connect" /\ stage = "access"
  /\ tries = Retries /\ polls = Polls
  /\ s_sel_cache = 0
  /\ link = "lost" /\ sel \in Banks /\ sticky \in BOOLEAN /\ posted = <<0, 0>>

(* Definitions named <definition>_<what> are mutated forms: see DapLink.   *)

----------------------------------------------------------------------------
(* The target.                                                             *)

(* The access on the wire.                                                 *)
Access == IF stage = "select" THEN "SELECT" ELSE IF stage = "rdbuff" THEN "RDBUFF" ELSE op

(* Out of line reset only a read of IDCODE leads; an error is answered     *)
(* FAULT until ABORT clears it.                                            *)
Answers ==
  IF link = "lost" \/ (link = "reset" /\ Access # "IDCODE") THEN {"NONE"}
  ELSE {"WAIT", "NONE"}
         \cup (IF sticky /\ Access \notin {"IDCODE", "ABORT", "CTRLrd"} THEN {"FAULT"}
               ELSE IF Access \in APReads \cup {"IDCODE", "CTRLrd", "RDBUFF"}
                 THEN {"OK", "PARITY"} ELSE {"OK"})

(* What the target does with an access it acknowledges.  A write spoilt on *)
(* the wire is not carried out but remembered as an error; so is an access *)
(* port access that goes wrong behind the acknowledge.                     *)
Perform ==
  /\ link' = "up"
  /\ \E spoilt \in BOOLEAN :
       /\ spoilt => Access \in APRegs \cup {"ABORT", "SELECT", "CTRLwr"}
       /\ sticky' = IF Access = "ABORT" THEN spoilt ELSE sticky \/ spoilt
       /\ sel' = IF Access = "SELECT" /\ ~ spoilt
                   THEN (IF stage = "select" THEN Bank[op] ELSE 0) ELSE sel
  /\ posted' = IF Access \in APReads THEN <<sel, Offset[op]>> ELSE posted

SWD_Transfer(ack) ==
  /\ ack \in Answers
  /\ IF ack \in {"OK", "PARITY"} THEN Perform ELSE UNCHANGED targetVars

(* The target is reset or loses its supply.                                *)
TargetGone ==
  /\ link # "lost"
  /\ link' = "lost"
  /\ UNCHANGED <<shellVars, sel, sticky, posted>>

(* The engine thread carries out packets of the host; whatever they do to  *)
(* the target, they go past s_sel_cache.                                   *)
Host ==
  /\ cmd = "none" \/ HostMayPreempt
  /\ link' \in {"lost", "reset", "up"}
  /\ sel' \in Banks /\ sticky' \in BOOLEAN /\ posted' \in Posted
  /\ UNCHANGED shellVars

----------------------------------------------------------------------------
(* The shell.                                                              *)

(* do ... while (WAIT && --tries > 0); swd_id does not retry.              *)
Spent_wraps(t) == IF t = 1 THEN Retries ELSE t - 1
Spent(t) == t - 1
Again(ack) == ack = "WAIT" /\ Spent(tries) > 0 /\ cmd # "swd_id"

(* A PARITY answer has the three bits of OK, which is all that is tested.  *)
Good_waitTaken(ack) == ack \in {"OK", "PARITY", "WAIT"}
Good(ack) == ack \in {"OK", "PARITY"}

(* swd_select_ap: SELECT is written when the cached bank is another.       *)
MustSelect_reversed(r) == Bank[r] = s_sel_cache
MustSelect(r) == Bank[r] # s_sel_cache

GoTo(o) ==
  /\ op' = o
  /\ stage' = IF o \in APRegs THEN (IF MustSelect(o) THEN "select" ELSE "access")
              ELSE "access"
  /\ tries' = Retries
  /\ UNCHANGED <<cmd, polls>>

End ==
  /\ cmd' = "none" /\ op' = "connect" /\ stage' = "access"
  /\ tries' = Retries /\ polls' = Polls

Run(c) ==
  /\ cmd = "none"
  /\ cmd' = c
  /\ UNCHANGED <<op, stage, tries, polls, s_sel_cache, targetVars>>

(* The connect sequence puts a target that is there into line reset; what  *)
(* SELECT holds afterwards is unknown.  The raw commands end here, with    *)
(* the target wherever their clocks led it.                                *)
Connect ==
  /\ cmd # "none" /\ op = "connect"
  /\ sel' \in Banks
  /\ IF cmd = "swd_raw"
       THEN link' \in {"lost", "reset", "up"} /\ End
       ELSE link' \in {"lost", "reset"} /\ GoTo("IDCODE")
  /\ s_sel_cache' = IF cmd \in {"swd_pwr", "swd_mem"} THEN Unknown ELSE s_sel_cache
  /\ UNCHANGED <<sticky, posted>>

(* Every step behind the connect sequence is an SWD access.                *)
Accessing == cmd # "none" /\ op # "connect"

swd_xfer_retry ==
  /\ Accessing
  /\ \E ack \in Answers : Again(ack) /\ SWD_Transfer(ack)
  /\ tries' = Spent(tries)
  /\ UNCHANGED <<cmd, op, stage, polls, s_sel_cache>>

(* Any other answer ends the command.  The prologue sets the cache before  *)
(* it looks at the acknowledge of SELECT.                                  *)
Fail ==
  /\ Accessing
  /\ \E ack \in Answers : ~ Good(ack) /\ ~ Again(ack) /\ SWD_Transfer(ack)
  /\ s_sel_cache' = IF op = "SELECT" THEN 0 ELSE s_sel_cache
  /\ End

Succeeds == Accessing /\ \E ack \in Answers : Good(ack) /\ SWD_Transfer(ack)

Follows == [IDCODE |-> "ABORT", ABORT |-> "SELECT", SELECT |-> "CTRLwr",
            CTRLwr |-> "CTRLrd", CSW |-> "TAR", TAR |-> "DRW"]

(* The prologue, and the writes of the access port.                        *)
Advance ==
  /\ op \in DOMAIN Follows /\ stage = "access" /\ cmd # "swd_id"
  /\ Succeeds
  /\ GoTo(Follows[op])
  /\ s_sel_cache' = IF op = "SELECT" THEN 0 ELSE s_sel_cache

Identified ==
  /\ cmd = "swd_id"
  /\ Succeeds
  /\ End
  /\ UNCHANGED s_sel_cache

(* CTRL/STAT is read until the target reports power, or once too often.    *)
PoweredUp ==
  /\ op = "CTRLrd"
  /\ Succeeds
  /\ GoTo(IF cmd = "swd_pwr" THEN "IDR" ELSE "CSW")
  /\ UNCHANGED s_sel_cache

NotPowered_offByOne ==
  /\ op = "CTRLrd"
  /\ Succeeds
  /\ IF polls > 0
       THEN polls' = polls - 1 /\ tries' = Retries /\ UNCHANGED <<cmd, op, stage>>
       ELSE End
  /\ UNCHANGED s_sel_cache
NotPowered ==
  /\ op = "CTRLrd"
  /\ Succeeds
  /\ IF polls > 1
       THEN polls' = polls - 1 /\ tries' = Retries /\ UNCHANGED <<cmd, op, stage>>
       ELSE End
  /\ UNCHANGED s_sel_cache

swd_select_ap ==
  /\ stage = "select"
  /\ Succeeds
  /\ s_sel_cache' = Bank[op]
  /\ stage' = "access"
  /\ tries' = Retries
  /\ UNCHANGED <<cmd, op, polls>>

(* The read proper only posts; its value is discarded.                     *)
ap_read ==
  /\ op \in APReads /\ stage = "access"
  /\ Succeeds
  /\ stage' = "rdbuff"
  /\ tries' = Retries
  /\ UNCHANGED <<cmd, op, polls, s_sel_cache>>

Collect ==
  /\ stage = "rdbuff"
  /\ Succeeds
  /\ End
  /\ UNCHANGED s_sel_cache

----------------------------------------------------------------------------
Shell ==
  \/ Connect \/ swd_xfer_retry \/ Fail
  \/ Advance \/ Identified \/ PoweredUp \/ NotPowered
  \/ swd_select_ap \/ ap_read \/ Collect

Next ==
  \/ Shell
  \/ \E c \in Commands : Run(c)
  \/ TargetGone \/ Host

Spec     == Init /\ [][Next]_vars
FairSpec == Spec /\ WF_vars(Shell)

----------------------------------------------------------------------------
(* Properties.                                                             *)

(* An access of the access port that the target carries out reaches the    *)
(* bank of the register it names, although SELECT is written only when the *)
(* cache differs: whatever the host did before, however often the target   *)
(* waited, refused, lost a write or was reset.                             *)
Listening == link = "up" /\ ~ sticky
ReachesBank ==
  op \in APRegs /\ stage = "access" /\ Listening => sel = Bank[op]

(* What ap_read collects is the register it names, not a value another     *)
(* read left in the read buffer.                                           *)
CollectsOwn ==
  stage = "rdbuff" /\ Listening => posted = Named(op)

(* Every command of the shell comes to its end, however long the target    *)
(* waits or stays without power.                                           *)
Ends == cmd # "none" ~> cmd = "none"
=============================================================================
