----------------------------- MODULE SwdTransfer ----------------------------
(***************************************************************************)
(* The transfer commands of the CMSIS-DAP processor (arm/DAP.c): a list of *)
(* register accesses, or a block of equal ones, carried out over SWD by    *)
(* SWD_Transfer (port/dap_swd_spi.c) against a target that may make the    *)
(* probe wait, refuse, spoil a read or stay silent.                        *)
(*                                                                         *)
(* An access port answers late: a read returns the value of the read       *)
(* before it, which the probe collects by its next access or from RDBUFF,  *)
(* and a write or a read that goes wrong is noticed by a later access      *)
(* only.  The properties ask that the list hides this from the host.       *)
(*                                                                         *)
(* A value is the place in the command of the request that read it; a step *)
(* is one SWD access, since a request may take several.                    *)
(***************************************************************************)
EXTENDS Naturals, Sequences, FiniteSets

CONSTANTS
  MaxRequests,   \* bound: requests of a list, accesses of a block
  RetryCounts,   \* values of retry_count the host configures
  MatchRetries,  \* values of match_retry the host configures
  DefaultRetry   \* retry_count after DAP_Setup (100 in the code)

ASSUME TransferAssumption ==
  /\ MaxRequests \in Nat
  /\ RetryCounts \subseteq Nat
  /\ MatchRetries \subseteq Nat
  /\ DefaultRetry \in RetryCounts /\ 0 \in MatchRetries

(* The kinds of request a list holds: plain reads, reads repeated until    *)
(* they match, a register write, a write of the match mask.                *)
Kind       == {"dpRead", "apRead", "dpMatch", "apMatch", "write", "mask"}
BlockKind  == {"dpRead", "apRead", "write"}
Reads(q)   == q \in {"dpRead", "apRead"}
Matches(q) == q \in {"dpMatch", "apMatch"}
OnAP(q)    == q \in {"apRead", "apMatch"}
HasData(q) == ~ Reads(q)

Requests == UNION {[1 .. n -> Kind] : n \in 0 .. MaxRequests}
Index    == 0 .. MaxRequests

(* Places in the code: a name of `Loops' is a retry loop around            *)
(* SWD_Transfer, the last three those of DAP_SWD_TransferBlock.            *)
Loops == {"flush", "post", "read", "poll", "write", "drain", "verify",
          "blockPost", "blockRead", "blockWrite"}
Place == Loops \cup {"idle", "fetch", "start", "cancel", "done"}
Ack   == {"OK", "PARITY", "WAIT", "FAULT", "NONE"}

VARIABLES
  transfer,       \* DAP_Data.transfer: retry_count and match_retry
  pc,             \* place in the command, idle between commands
  reqs,           \* the requests of the command
  i,              \* the request the loop is at
  left,           \* request_count
  ptr,            \* bytes of the request consumed, from the first request
  post_read,
  check_write,
  retry,
  match_retry,
  data,           \* the local `data': 0 when no access of this command set it
  response_count,
  response_value, \* `zero' or the last acknowledge
  mismatch,       \* DAP_TRANSFER_MISMATCH of response_value
  out,            \* the data of the response
  buf,            \* target: the request whose read is in the read buffer
  sticky,         \* target: an access port access went wrong
  log,            \* history: the accesses the target carried out
  waits           \* history: WAITs since the target last said anything else

devVars == <<reqs, i, left, ptr, post_read, check_write, retry, match_retry,
             data, response_count, response_value, mismatch, out>>
tgtVars == <<buf, sticky, log, waits>>
vars    == <<transfer, pc, devVars, tgtVars>>

TypeOK ==
  /\ transfer \in [retry_count : RetryCounts, match_retry : MatchRetries]
  /\ pc \in Place
  /\ reqs \in Seq(Kind) /\ Len(reqs) \in Index
  /\ i \in Index /\ left \in Index
  /\ ptr \in Nat
  /\ post_read \in BOOLEAN /\ check_write \in BOOLEAN
  /\ retry \in 0 .. transfer.retry_count
  /\ match_retry \in 0 .. transfer.match_retry
  /\ data \in Index
  /\ response_count \in Index
  /\ response_value \in Ack \cup {"zero"}
  /\ mismatch \in BOOLEAN
  /\ out \in Seq(Index)
  /\ buf \in Index /\ sticky \in BOOLEAN
  /\ log \in Seq(Index)
  /\ waits \in Nat

Init ==
  /\ transfer = [retry_count |-> DefaultRetry, match_retry |-> 0]
  /\ pc = "idle"
  /\ reqs = <<>>
  /\ i = 0 /\ left = 0 /\ ptr = 0
  /\ post_read = FALSE /\ check_write = FALSE
  /\ retry = 0 /\ match_retry = 0 /\ data = 0
  /\ response_count = 0 /\ response_value = "zero" /\ mismatch = FALSE
  /\ out = <<>>
  /\ buf = 0 /\ sticky \in BOOLEAN
  /\ log = <<>> /\ waits = 0

(* Definitions named <definition>_<what> are mutated forms: see DapLink.   *)

----------------------------------------------------------------------------
(* One access on the wire and the target that answers it.                  *)

(* The access a retry loop makes, and the request it is made for.  A read  *)
(* that was posted is collected by the next plain AP read itself.          *)
AccessAt_postsEveryAP ==
  CASE pc \in {"post", "blockPost"}        -> "apRead"
    [] pc = "read"                         -> "dpRead"
    [] pc \in {"write", "blockWrite"}      -> "write"
    [] pc = "poll"                         -> IF OnAP(reqs[i]) THEN "apRead" ELSE "dpRead"
    [] pc = "flush" /\ OnAP(reqs[i])       -> "apRead"
    [] pc = "blockRead" /\ ~ (OnAP(reqs[i]) /\ i = Len(reqs)) -> reqs[i]
    [] OTHER                               -> "rdbuff"
AccessAt ==
  CASE pc \in {"post", "blockPost"}        -> "apRead"
    [] pc = "read"                         -> "dpRead"
    [] pc \in {"write", "blockWrite"}      -> "write"
    [] pc = "poll"                         -> IF OnAP(reqs[i]) THEN "apRead" ELSE "dpRead"
    [] pc = "flush" /\ reqs[i] = "apRead"  -> "apRead"
    [] pc = "blockRead" /\ ~ (OnAP(reqs[i]) /\ i = Len(reqs)) -> reqs[i]
    [] OTHER                               -> "rdbuff"

AccessFor == IF pc = "blockRead" /\ AccessAt = "apRead" THEN i + 1 ELSE i

(* The answers of the target: FAULT after an error, except to the DP reads *)
(* that report it; a wait, or no valid acknowledge, at any time.           *)
Answers ==
  {"WAIT", "NONE"}
    \cup (IF sticky THEN {"FAULT"} ELSE {})
    \cup (IF sticky /\ AccessAt # "dpRead" THEN {}
          ELSE IF AccessAt = "write" THEN {"OK"} ELSE {"OK", "PARITY"})

(* What the target does with an access it acknowledges.  The accesses of   *)
(* one poll are logged once.                                               *)
Perform ==
  /\ buf' = IF AccessAt = "apRead" THEN AccessFor ELSE buf
  /\ sticky' \in {sticky} \cup (IF AccessAt \in {"apRead", "write"} THEN {TRUE} ELSE {})
  /\ log' = IF AccessAt = "rdbuff" \/ (pc = "poll" /\ log # <<>> /\ log[Len(log)] = i)
              THEN log ELSE Append(log, AccessFor)

(* The value a read returns.                                               *)
Value == IF AccessAt = "dpRead" THEN AccessFor ELSE buf

(* `data' is written by a read that was acknowledged, its parity right or  *)
(* wrong, when the caller passes a place for it.                           *)
SWD_Transfer(ack) ==
  /\ ack \in Answers
  /\ IF ack \in {"OK", "PARITY"}
       THEN /\ Perform
            /\ data' = IF pc \in {"flush", "read", "poll", "drain", "blockRead"}
                         THEN Value ELSE data
       ELSE UNCHANGED <<buf, sticky, log, data>>
  /\ waits' = IF ack = "WAIT" THEN waits + 1 ELSE 0

(* while ((response_value == WAIT) && retry--)                             *)
Again_evenAtZero(ack)      == ack = "WAIT"
Again_afterParityToo(ack)  == ack \in {"WAIT", "PARITY"} /\ retry > 0
Again_stopsEarly(ack)      == ack = "WAIT" /\ retry > 1
Again(ack)                 == ack = "WAIT" /\ retry > 0

----------------------------------------------------------------------------
(* Starting and ending a command.                                          *)

Begin(q, place, at) ==
  /\ pc = "idle"
  /\ pc' = place
  /\ reqs' = q
  /\ i' = at
  /\ left' = Len(q)
  /\ retry' = transfer.retry_count
  /\ UNCHANGED <<transfer, ptr, post_read, check_write, match_retry, data,
                 response_count, response_value, mismatch, out, tgtVars>>

DAP_TransferConfigure(r, m) ==
  /\ pc = "idle"
  /\ transfer' = [retry_count |-> r, match_retry |-> m]
  /\ UNCHANGED <<pc, devVars, tgtVars>>

DAP_SWD_Transfer(q) == Begin(q, "fetch", 0)

(* The first loop of a block.                                              *)
BlockLoop == [apRead |-> "blockPost", dpRead |-> "blockRead", write |-> "blockWrite"]

DAP_SWD_TransferBlock(kind, n) ==
  Begin([j \in 1 .. n |-> kind],
        IF n = 0 THEN "done" ELSE BlockLoop[kind],
        IF n = 0 THEN 0 ELSE 1)

(* The bytes of the first j requests of a list.                            *)
Bytes(q, j) == j + 4 * Cardinality({a \in 1 .. j : HasData(q[a])})

(* With no debug port connected a list is parsed and not carried out; a    *)
(* block gets the same empty response.                                     *)
DAP_Dummy_Transfer(q) ==
  /\ pc = "idle"
  /\ pc' = "done"
  /\ reqs' = q
  /\ ptr' = Bytes(q, Len(q))
  /\ UNCHANGED <<transfer, i, left, post_read, check_write, retry, match_retry,
                 data, response_count, response_value, mismatch, out, tgtVars>>

(* A write of the ABORT register clears the error of the target when it    *)
(* arrives; it is not retried and its acknowledge is not looked at.        *)
DAP_SWD_WriteAbort ==
  /\ pc = "idle"
  /\ sticky' \in {sticky, FALSE}
  /\ UNCHANGED <<transfer, pc, devVars, buf, log, waits>>

(* The response goes out; a value left in the read buffer is of no request *)
(* of the next command.                                                    *)
Respond ==
  /\ pc = "done"
  /\ pc' = "idle"
  /\ reqs' = <<>>
  /\ i' = 0 /\ left' = 0 /\ ptr' = 0
  /\ post_read' = FALSE /\ check_write' = FALSE
  /\ retry' = 0 /\ match_retry' = 0 /\ data' = 0
  /\ response_count' = 0 /\ response_value' = "zero" /\ mismatch' = FALSE
  /\ out' = <<>>
  /\ buf' = 0 /\ log' = <<>> /\ waits' = 0
  /\ UNCHANGED <<transfer, sticky>>

----------------------------------------------------------------------------
(* What every retry loop does.                                             *)

WaitAgain ==
  /\ pc \in Loops
  /\ \E ack \in Answers :
       /\ Again(ack)
       /\ SWD_Transfer(ack)
       /\ response_value' = ack
  /\ retry' = retry - 1
  /\ UNCHANGED <<transfer, pc, reqs, i, left, ptr, post_read, check_write,
                 match_retry, response_count, mismatch, out>>

(* The loop ends without OK.  The polling loop still compares `data': a    *)
(* value read before and found different, the spoilt value of this read,   *)
(* or what an earlier request or nothing left there.                       *)
Fail ==
  /\ pc \in Loops
  /\ \E ack \in Answers \ {"OK"} :
       /\ ~ Again(ack)
       /\ SWD_Transfer(ack)
       /\ response_value' = ack
       /\ mismatch' \in IF pc # "poll" THEN {FALSE}
                       ELSE IF ack # "PARITY" /\ data = i THEN {TRUE}
                       ELSE BOOLEAN
  /\ pc' = IF pc \in {"flush", "post", "read", "poll", "write"} THEN "cancel" ELSE "done"
  /\ UNCHANGED <<transfer, reqs, i, left, ptr, post_read, check_write, retry,
                 match_retry, response_count, out>>

Succeed(place) ==
  /\ pc = place
  /\ SWD_Transfer("OK")
  /\ response_value' = "OK"
  /\ UNCHANGED <<transfer, reqs>>

Store == out' = Append(out, data')

----------------------------------------------------------------------------
(* DAP_SWD_Transfer.                                                       *)

(* The end of the loop's body: the request counts as carried out.          *)
Complete_maskForgetsWrite ==
  /\ pc' = "fetch"
  /\ response_count' = response_count + 1
  /\ left' = left - 1
  /\ check_write' = (reqs[i] = "write")
Complete ==
  /\ pc' = "fetch"
  /\ response_count' = response_count + 1
  /\ left' = left - 1
  /\ check_write' = IF reqs[i] = "mask" THEN check_write ELSE reqs[i] = "write"

Fetch ==
  /\ pc = "fetch"
  /\ IF left = 0
       THEN pc' = "cancel" /\ UNCHANGED <<i, ptr, retry>>
       ELSE /\ pc' = IF post_read THEN "flush" ELSE "start"
            /\ i' = i + 1
            /\ ptr' = ptr + 1
            /\ retry' = transfer.retry_count
  /\ UNCHANGED <<transfer, reqs, left, post_read, check_write, match_retry, data,
                 response_count, response_value, mismatch, out, tgtVars>>

(* The data of the request posted before is collected; a plain AP read is  *)
(* posted by the same access.                                              *)
Flush ==
  /\ Succeed("flush")
  /\ pc' = "start"
  /\ Store
  /\ post_read' = (AccessAt = "apRead")
  /\ UNCHANGED <<i, left, ptr, check_write, retry, match_retry, response_count, mismatch>>

(* The request proper, its data loaded; some need no access (any more).    *)
Start ==
  /\ pc = "start"
  /\ ptr' = IF HasData(reqs[i]) THEN ptr + 4 ELSE ptr
  /\ retry' = transfer.retry_count
  /\ match_retry' = IF Matches(reqs[i]) THEN transfer.match_retry ELSE match_retry
  /\ response_value' = IF reqs[i] = "mask" THEN "OK" ELSE response_value
  /\ IF reqs[i] = "mask" \/ post_read
       THEN Complete
       ELSE /\ pc' = CASE OnAP(reqs[i])         -> "post"
                       [] reqs[i] = "dpRead"    -> "read"
                       [] reqs[i] = "dpMatch"   -> "poll"
                       [] reqs[i] = "write"     -> "write"
            /\ UNCHANGED <<response_count, left, check_write>>
  /\ UNCHANGED <<transfer, reqs, i, post_read, data, mismatch, out, tgtVars>>

Post ==
  /\ Succeed("post")
  /\ IF Matches(reqs[i])
       THEN /\ pc' = "poll"
            /\ retry' = transfer.retry_count
            /\ UNCHANGED <<post_read, response_count, left, check_write>>
       ELSE /\ post_read' = TRUE
            /\ Complete
            /\ UNCHANGED retry
  /\ UNCHANGED <<i, ptr, match_retry, mismatch, out>>

Read ==
  /\ Succeed("read")
  /\ Store
  /\ Complete
  /\ UNCHANGED <<i, ptr, post_read, retry, match_retry, mismatch>>

(* A poll of a register: it matches, it is tried again, or it is given up. *)
PollsLeft_same == match_retry
PollsLeft      == match_retry - 1

Poll ==
  /\ Succeed("poll")
  /\ \/ /\ Complete
        /\ UNCHANGED <<retry, match_retry, mismatch>>
     \/ /\ match_retry > 0
        /\ match_retry' = PollsLeft
        /\ retry' = transfer.retry_count
        /\ UNCHANGED <<pc, response_count, left, check_write, mismatch>>
     \/ /\ match_retry = 0
        /\ mismatch' = TRUE
        /\ pc' = "cancel"
        /\ UNCHANGED <<retry, match_retry, response_count, left, check_write>>
  /\ UNCHANGED <<i, ptr, post_read, out>>

Write ==
  /\ Succeed("write")
  /\ Complete
  /\ UNCHANGED <<i, ptr, post_read, retry, match_retry, mismatch, out>>

(* The second loop passes over the requests that are not carried out, from *)
(* where the first one stopped reading; a byte that begins no request may  *)
(* say anything.                                                           *)
SizeAt(at) ==
  IF \E j \in 1 .. Len(reqs) : Bytes(reqs, j - 1) = at
    THEN {IF HasData(reqs[j]) THEN 5 ELSE 1 :
            j \in {a \in 1 .. Len(reqs) : Bytes(reqs, a - 1) = at}}
    ELSE {1, 5}

Cancel ==
  /\ pc = "cancel" /\ left > 0
  /\ left' = left - 1
  /\ \E size \in SizeAt(ptr) : ptr' = ptr + size
  /\ UNCHANGED <<transfer, pc, reqs, i, post_read, check_write, retry, match_retry,
                 data, response_count, response_value, mismatch, out, tgtVars>>

(* After the list: the last read is collected, or the last write checked.  *)
Ending_forgetsLastRead ==
  IF response_value = "OK" /\ ~ mismatch /\ check_write THEN "verify" ELSE "done"
Ending ==
  IF response_value # "OK" \/ mismatch THEN "done"
  ELSE IF post_read THEN "drain"
  ELSE IF check_write THEN "verify"
  ELSE "done"

Finish ==
  /\ pc = "cancel" /\ left = 0
  /\ pc' = Ending
  /\ retry' = transfer.retry_count
  /\ UNCHANGED <<transfer, reqs, i, left, ptr, post_read, check_write, match_retry,
                 data, response_count, response_value, mismatch, out, tgtVars>>

Drain ==
  /\ Succeed("drain")
  /\ pc' = "done"
  /\ Store
  /\ UNCHANGED <<i, left, ptr, post_read, check_write, retry, match_retry,
                 response_count, mismatch>>

Verify ==
  /\ Succeed("verify")
  /\ pc' = "done"
  /\ UNCHANGED <<i, left, ptr, post_read, check_write, retry, match_retry,
                 response_count, mismatch, out>>

----------------------------------------------------------------------------
(* DAP_SWD_TransferBlock.                                                  *)

BlockPost ==
  /\ Succeed("blockPost")
  /\ pc' = "blockRead"
  /\ retry' = transfer.retry_count
  /\ UNCHANGED <<i, left, ptr, post_read, check_write, match_retry,
                 response_count, mismatch, out>>

(* One access of the block is over.                                        *)
NextOfBlock(last) ==
  /\ response_count' = response_count + 1
  /\ left' = left - 1
  /\ i' = IF left = 1 THEN i ELSE i + 1
  /\ pc' = IF left = 1 THEN last ELSE pc
  /\ retry' = transfer.retry_count

BlockRead ==
  /\ Succeed("blockRead")
  /\ Store
  /\ NextOfBlock("done")
  /\ UNCHANGED <<ptr, post_read, check_write, match_retry, mismatch>>

BlockWrite ==
  /\ Succeed("blockWrite")
  /\ NextOfBlock("verify")
  /\ UNCHANGED <<ptr, post_read, check_write, match_retry, mismatch, out>>

----------------------------------------------------------------------------
Host ==
  \/ \E r \in RetryCounts, m \in MatchRetries : DAP_TransferConfigure(r, m)
  \/ \E q \in Requests : DAP_SWD_Transfer(q) \/ DAP_Dummy_Transfer(q)
  \/ \E kind \in BlockKind, n \in Index : DAP_SWD_TransferBlock(kind, n)
  \/ DAP_SWD_WriteAbort

Device ==
  \/ WaitAgain \/ Fail
  \/ Fetch \/ Flush \/ Start \/ Post \/ Read \/ Poll \/ Write
  \/ Cancel \/ Finish \/ Drain \/ Verify
  \/ BlockPost \/ BlockRead \/ BlockWrite
  \/ Respond

Next == Host \/ Device

Spec     == Init /\ [][Next]_vars
FairSpec == Spec /\ WF_vars(Device)

----------------------------------------------------------------------------
(* Properties.                                                             *)

(* The data of the response is that of the plain reads, in order, each     *)
(* once and none left out between two others: never a value a read before  *)
(* left in the read buffer, never the value of a poll.                     *)
ResultsInOrder ==
  /\ \A a \in 1 .. Len(out) : out[a] \in 1 .. Len(reqs) /\ Reads(reqs[out[a]])
  /\ \A a, b \in 1 .. Len(out) : a < b => out[a] < out[b]
  /\ \A a \in 1 .. Len(out) : \A j \in 1 .. out[a] :
       Reads(reqs[j]) => \E b \in 1 .. Len(out) : out[b] = j

(* The response holds the data of every read it counts; after an error the *)
(* last one may lack.  An OK means that the whole command was carried out. *)
ResultsComplete ==
  pc = "done" =>
    /\ response_value = "OK" /\ ~ mismatch => response_count = Len(reqs)
    /\ \A j \in 1 .. response_count :
         Reads(reqs[j]) => \/ \E a \in 1 .. Len(out) : out[a] = j
                           \/ /\ response_value # "OK" \/ mismatch
                              /\ \A a \in j + 1 .. response_count : ~ Reads(reqs[a])

(* The target carries the requests out in the order of the command, none   *)
(* twice but a poll: all those the response counts, and at most one more,  *)
(* two in a block of AP reads.                                             *)
Executed ==
  /\ \A a \in 1 .. Len(log) : log[a] \in 1 .. Len(reqs) /\ reqs[log[a]] # "mask"
  /\ \A a, b \in 1 .. Len(log) : a < b => log[a] < log[b]
  /\ \A j \in 1 .. response_count :
       reqs[j] = "mask" \/ \E a \in 1 .. Len(log) : log[a] = j
  /\ \A a \in 1 .. Len(log) :
       log[a] <= response_count + (IF pc \in {"blockRead", "done"} THEN 2 ELSE 1)

(* OK for a command whose last access is a plain AP read or a write means  *)
(* that nothing went wrong in the target, however late it notices; match   *)
(* masks after it do not hide an error.                                    *)
EndsLate(q) ==
  \E j \in 1 .. Len(q) : /\ q[j] \in {"apRead", "write"}
                         /\ \A a \in j + 1 .. Len(q) : q[a] = "mask"
ErrorsSurface ==
  pc = "done" /\ response_value = "OK" /\ ~ mismatch /\ EndsLate(reqs) => ~ sticky

(* The probe asks at most retry_count times again, and reports WAIT only   *)
(* after having asked that often.                                          *)
Patience ==
  /\ waits <= transfer.retry_count + 1
  /\ pc = "done" /\ response_value = "WAIT" => waits = transfer.retry_count + 1

(* Every command gets its response.                                        *)
Answered == pc # "idle" ~> pc = "idle"

(* The command consumes exactly its own bytes of the packet, also when it  *)
(* fails: the next command of an ExecuteCommands packet starts there.      *)
RequestLength ==
  pc = "done" /\ ptr > 0 => ptr = Bytes(reqs, Len(reqs))
=============================================================================
