-------------------------- MODULE SwdTransferProofs -------------------------
(***************************************************************************)
(* Theorems about SwdTransfer, for lists of any length and every setting   *)
(* of the retry counts: the types, and that the data of a response is that *)
(* of the plain reads, in order and complete; then, of the probe and its   *)
(* target, how often the probe asks again, that an error of the target is  *)
(* not passed over, and that what the target carried out is what the       *)
(* response counts.                                                        *)
(*                                                                         *)
(* The invariant of the data says, for every place in the code, how far    *)
(* the requests are counted (Counted) and how far their data is collected  *)
(* (Gathered): up to the request at hand or, while a read is posted, up to *)
(* that read, whose value then is the one in the read buffer of the        *)
(* target.                                                                 *)
(***************************************************************************)
EXTENDS SwdTransfer, SequenceTheorems, FiniteSetTheorems, TLAPS

InList  == {"flush", "start", "post", "read", "poll", "write"}
InBlock == {"blockPost", "blockRead", "blockWrite"}

(* How i, request_count and response_count move together, and that the     *)
(* requests of a block are all alike.                                      *)
Counted ==
  /\ pc = "idle" => i = 0 /\ response_count = 0 /\ retry = 0 /\ match_retry = 0
  /\ pc = "fetch" => i + left = Len(reqs) /\ response_count = i
  /\ pc \in InList \cup InBlock =>
       left > 0 /\ i > 0 /\ i + left = Len(reqs) + 1 /\ response_count = i - 1
  /\ response_count <= Len(reqs)
  /\ pc = "blockPost" => \A j \in 1 .. Len(reqs) : reqs[j] = "apRead"
  /\ pc = "blockRead" => \A j \in 1 .. Len(reqs) : Reads(reqs[j]) /\ reqs[j] = reqs[1]
  /\ pc = "blockWrite" => \A j \in 1 .. Len(reqs) : reqs[j] = "write"

(* Of the requests q, 1 .. n have their data in o, no other has.           *)
Holds(o, q, n) ==
  /\ \A a \in 1 .. Len(o) : o[a] \in 1 .. n /\ Reads(q[o[a]])
  /\ \A a, b \in 1 .. Len(o) : a < b => o[a] < o[b]
  /\ \A j \in 1 .. n : Reads(q[j]) => \E b \in 1 .. Len(o) : o[b] = j

Covers(n) == Holds(out, reqs, n)

(* The same, the value of the last plain read still in the target.         *)
Posted(n) ==
  /\ post_read
  /\ buf \in 1 .. n /\ reqs[buf] = "apRead"
  /\ \A j \in buf + 1 .. n : ~ Reads(reqs[j])
  /\ Covers(buf - 1)

Behind(n) == Posted(n) \/ (~ post_read /\ Covers(n))

(* A command that failed has the data of the requests up to some place,    *)
(* with at most one read between it and the last request counted.          *)
Stopped ==
  \E n \in 0 .. Len(reqs) :
    /\ Covers(n)
    /\ \A j \in n + 1 .. response_count :
         Reads(reqs[j]) => \A a \in j + 1 .. response_count : ~ Reads(reqs[a])

Succeeded == response_value = "OK" /\ ~ mismatch

Gathered ==
  /\ pc = "idle" => /\ reqs = <<>> /\ out = <<>> /\ ~ post_read /\ ~ mismatch
                    /\ response_value = "zero"
  /\ pc \notin {"cancel", "done"} => ~ mismatch
  /\ pc = "fetch" => Behind(i)
  /\ pc = "flush" => Posted(i - 1)
  /\ pc = "start" => \/ Posted(i) /\ buf = i
                     \/ ~ post_read /\ Covers(i - 1)
  /\ pc \in {"post", "read", "poll", "write"} => ~ post_read /\ Covers(i - 1)
  /\ pc = "post" => OnAP(reqs[i])
  /\ pc = "read" => reqs[i] = "dpRead"
  /\ pc = "poll" => Matches(reqs[i])
  /\ pc = "write" => reqs[i] = "write"
  /\ pc = "cancel" => IF Succeeded
                        THEN response_count = Len(reqs) /\ Behind(Len(reqs))
                        ELSE Stopped
  /\ pc = "drain" => response_count = Len(reqs) /\ Posted(Len(reqs))
  /\ pc = "verify" => response_count = Len(reqs) /\ Covers(Len(reqs))
  /\ pc \in {"blockPost", "blockWrite"} => out = <<>>
  /\ pc = "blockPost" => i = 1
  /\ pc = "blockRead" => Covers(i - 1) /\ (reqs[i] = "apRead" => buf = i)
  /\ pc = "done" => IF Succeeded
                      THEN response_count = Len(reqs) /\ Covers(Len(reqs))
                      ELSE Stopped

----------------------------------------------------------------------------
(* Data that holds up to n holds up to m when no request between reads.    *)
LEMMA HoldsOn ==
  ASSUME NEW o \in Seq(Index), NEW q, NEW n \in Nat, NEW m \in Nat, n <= m,
         Holds(o, q, n), \A j \in n + 1 .. m : ~ Reads(q[j])
  PROVE  Holds(o, q, m)
BY SMT DEF Holds

(* The data of the next read goes to the end.                              *)
LEMMA HoldsNext ==
  ASSUME NEW o \in Seq(Index), NEW q, NEW n \in Nat, NEW m \in Index, m \in Nat, n < m,
         Holds(o, q, n), \A j \in n + 1 .. m - 1 : ~ Reads(q[j]), Reads(q[m])
  PROVE  Holds(Append(o, m), q, m)
<1> DEFINE p == Append(o, m)
<1>1. /\ p \in Seq(Index) /\ Len(p) = Len(o) + 1 /\ p[Len(p)] = m
      /\ \A a \in 1 .. Len(o) : p[a] = o[a]
  BY AppendProperties
<1>2. Len(o) \in Nat /\ \A a \in 1 .. Len(o) : o[a] \in 1 .. n
  BY LenProperties DEF Holds
<1> HIDE DEF p
<1>3. ASSUME NEW a \in 1 .. Len(p)
      PROVE  p[a] \in 1 .. m /\ Reads(q[p[a]])
  <2>1. CASE a = Len(p)
    BY <2>1, <1>1, <1>2
  <2>2. CASE a # Len(p)
    <3>1. a \in 1 .. Len(o) /\ p[a] = o[a]
      BY <2>2, <1>1, <1>2
    <3>2. o[a] \in 1 .. n /\ Reads(q[o[a]])
      BY <3>1 DEF Holds
    <3> QED BY <3>1, <3>2
  <2> QED BY <2>1, <2>2
<1>4. ASSUME NEW a \in 1 .. Len(p), NEW b \in 1 .. Len(p), a < b
      PROVE  p[a] < p[b]
  <2>1. a \in 1 .. Len(o) /\ p[a] = o[a] /\ o[a] \in 1 .. n
    BY <1>1, <1>2, <1>4
  <2>2. CASE b = Len(p)
    BY <2>1, <2>2, <1>1
  <2>3. CASE b # Len(p)
    <3>1. b \in 1 .. Len(o) /\ p[b] = o[b]
      BY <2>3, <1>1, <1>2
    <3> QED BY <2>1, <3>1, <1>4 DEF Holds
  <2> QED BY <2>2, <2>3
<1>5. ASSUME NEW j \in 1 .. m, Reads(q[j])
      PROVE  \E b \in 1 .. Len(p) : p[b] = j
  <2>1. CASE j = m
    BY <2>1, <1>1, <1>2
  <2>2. CASE j # m
    <3>1. j \in 1 .. n
      BY <2>2, <1>5
    <3>2. PICK b \in 1 .. Len(o) : o[b] = j
      BY <3>1, <1>5 DEF Holds
    <3> QED BY <3>2, <1>1, <1>2
  <2> QED BY <2>1, <2>2
<1> QED BY <1>3, <1>4, <1>5 DEF Holds, p

(* Nothing read, nothing held.                                             *)
LEMMA HoldsNothing ==
  ASSUME NEW q, NEW n \in Nat, \A j \in 1 .. n : ~ Reads(q[j])
  PROVE  Holds(<<>>, q, n)
BY SMT DEF Holds

----------------------------------------------------------------------------
(* The target and the data it returns keep to their types.                 *)
LEMMA AccessTyped ==
  ASSUME TypeOK, Counted, pc \in Loops, NEW ack, SWD_Transfer(ack)
  PROVE  /\ buf' \in Index /\ sticky' \in BOOLEAN /\ log' \in Seq(Index)
         /\ data' \in Index /\ waits' \in Nat /\ ack \in Ack
<1>1. i \in Index /\ AccessFor \in Index
  <2>1. CASE pc = "blockRead" /\ AccessAt = "apRead"
    <3>1. i # Len(reqs)
      BY <2>1 DEF AccessAt, OnAP, InList, InBlock
    <3> QED BY <2>1, <3>1, TransferAssumption DEF TypeOK, Counted, AccessFor, Index, InBlock
  <2>2. CASE ~ (pc = "blockRead" /\ AccessAt = "apRead")
    BY <2>2 DEF TypeOK, AccessFor
  <2> QED BY <2>1, <2>2 DEF TypeOK
<1>2. buf \in Index /\ sticky \in BOOLEAN /\ log \in Seq(Index) /\ data \in Index /\ waits \in Nat
  BY DEF TypeOK
<1>3. Value \in Index
  BY <1>1, <1>2 DEF Value
<1>4. ack \in Ack /\ waits' \in Nat
  BY <1>2 DEF SWD_Transfer, Answers, Ack
<1>5. CASE ack \in {"OK", "PARITY"}
  <2>1. Perform /\ data' \in Index
    BY <1>5, <1>2, <1>3 DEF SWD_Transfer
  <2>2. buf' \in Index /\ sticky' \in BOOLEAN
    BY <2>1, <1>1, <1>2 DEF Perform
  <2>3. log' \in Seq(Index)
    BY <2>1, <1>1, <1>2, AppendProperties DEF Perform
  <2> QED BY <1>4, <2>1, <2>2, <2>3
<1>6. CASE ack \notin {"OK", "PARITY"}
  BY <1>2, <1>4, <1>6 DEF SWD_Transfer
<1> QED BY <1>5, <1>6

(* The length of a list in bytes.                                          *)
LEMMA BytesNat ==
  ASSUME NEW q \in Seq(Kind), NEW j \in Nat
  PROVE  Bytes(q, j) \in Nat
<1> DEFINE S == {a \in 1 .. j : HasData(q[a])}
<1>1. IsFiniteSet(1 .. j)
  BY FS_Interval
<1>2. IsFiniteSet(S)
  BY <1>1, FS_Subset
<1>3. Cardinality(S) \in Nat
  BY <1>2, FS_CardinalityType
<1> QED BY <1>3 DEF Bytes

(* Every list is a sequence of bounded length.                             *)
LEMMA RequestsAreLists ==
  ASSUME NEW q \in Requests
  PROVE  q \in Seq(Kind) /\ Len(q) \in Index
<1>1. PICK n \in 0 .. MaxRequests : q \in [1 .. n -> Kind]
  BY DEF Requests
<1>2. n \in Nat
  BY TransferAssumption
<1>3. q \in Seq(Kind)
  BY <1>1, <1>2, SeqDef
<1>4. Len(q) = n
  BY <1>1, <1>2, <1>3, LenProperties
<1> QED BY <1>3, <1>4 DEF Index

(* The commands of the host keep types and counts.                         *)
LEMMA HostTyped ==
  TypeOK /\ Counted /\ Host => TypeOK' /\ Counted'
<1> SUFFICES ASSUME TypeOK, Counted, Host PROVE TypeOK' /\ Counted'
  OBVIOUS
<1> USE TransferAssumption
<1>1. ASSUME NEW r \in RetryCounts, NEW m \in MatchRetries, DAP_TransferConfigure(r, m)
      PROVE  TypeOK' /\ Counted'
  <2>1. TypeOK'
    BY <1>1 DEF TypeOK, Counted, DAP_TransferConfigure, devVars, tgtVars
  <2>2. Counted'
    BY <1>1 DEF Counted, DAP_TransferConfigure, devVars
  <2> QED BY <2>1, <2>2
<1>2. ASSUME NEW q \in Requests, DAP_SWD_Transfer(q)
      PROVE  TypeOK' /\ Counted'
  <2>1. q \in Seq(Kind) /\ Len(q) \in Index
    BY RequestsAreLists
  <2>2. TypeOK'
    BY <1>2, <2>1 DEF TypeOK, Counted, DAP_SWD_Transfer, Begin, Place, Index, tgtVars
  <2>3. Counted'
    BY <1>2, <2>1 DEF Counted, DAP_SWD_Transfer, Begin, Index, InList, InBlock
  <2> QED BY <2>2, <2>3
<1>3. ASSUME NEW q \in Requests, DAP_Dummy_Transfer(q)
      PROVE  TypeOK' /\ Counted'
  <2>1. q \in Seq(Kind) /\ Len(q) \in Index /\ Bytes(q, Len(q)) \in Nat
    BY RequestsAreLists, BytesNat DEF Index
  <2>2. TypeOK'
    BY <1>3, <2>1 DEF TypeOK, Counted, DAP_Dummy_Transfer, Place, tgtVars
  <2>3. Counted'
    BY <1>3, <2>1 DEF Counted, DAP_Dummy_Transfer, Index, InList, InBlock
  <2> QED BY <2>2, <2>3
<1>4. ASSUME NEW kind \in BlockKind, NEW n \in Index, DAP_SWD_TransferBlock(kind, n)
      PROVE  TypeOK' /\ Counted'
  <2> DEFINE q == [j \in 1 .. n |-> kind]
  <2>0. n \in Nat /\ kind \in Kind
    BY DEF Index, BlockKind, Kind
  <2>1. q \in [1 .. n -> Kind] /\ \A j \in 1 .. n : q[j] = kind
    BY <2>0
  <2>2. q \in Seq(Kind) /\ Len(q) = n
    BY <2>0, <2>1, SeqDef, LenProperties
  <2>3. PICK place : /\ Begin(q, place, IF n = 0 THEN 0 ELSE 1)
                     /\ n = 0 => place = "done"
                     /\ n # 0 => <<place, kind>> \in {<<"blockPost", "apRead">>,
                                   <<"blockRead", "dpRead">>, <<"blockWrite", "write">>}
    <3> DEFINE start == IF n = 0 THEN "done" ELSE BlockLoop[kind]
    <3>1. Begin(q, start, IF n = 0 THEN 0 ELSE 1)
      BY <1>4 DEF DAP_SWD_TransferBlock
    <3>2. n # 0 => <<start, kind>> \in {<<"blockPost", "apRead">>,
                      <<"blockRead", "dpRead">>, <<"blockWrite", "write">>}
      BY DEF BlockKind, BlockLoop
    <3> QED BY <3>1, <3>2
  <2> HIDE DEF q
  <2>4. TypeOK'
    BY <2>0, <2>2, <2>3 DEF TypeOK, Counted, Begin, Place, Loops, Index, tgtVars
  <2>5. Counted'
    BY <2>0, <2>1, <2>2, <2>3 DEF Counted, Begin, Index, InList, InBlock, Reads
  <2> QED BY <2>4, <2>5
<1>5. CASE DAP_SWD_WriteAbort
  <2>1. TypeOK'
    BY <1>5 DEF TypeOK, DAP_SWD_WriteAbort, devVars
  <2>2. Counted'
    BY <1>5 DEF Counted, DAP_SWD_WriteAbort, devVars
  <2> QED BY <2>1, <2>2
<1> QED BY <1>1, <1>2, <1>3, <1>4, <1>5 DEF Host

(* So do the steps of the device.                                          *)
LEMMA DeviceTyped ==
  TypeOK /\ Counted /\ Device => TypeOK' /\ Counted'
<1> SUFFICES ASSUME TypeOK, Counted, Device PROVE TypeOK' /\ Counted'
  OBVIOUS
<1> USE TransferAssumption
<1>t. ASSUME NEW ack, pc \in Loops, SWD_Transfer(ack)
      PROVE  /\ buf' \in Index /\ sticky' \in BOOLEAN /\ log' \in Seq(Index)
             /\ data' \in Index /\ waits' \in Nat /\ ack \in Ack
  BY <1>t, AccessTyped
<1>n. /\ i \in Nat /\ left \in Nat /\ response_count \in Nat /\ Len(reqs) \in Nat
      /\ MaxRequests \in Nat /\ Len(reqs) <= MaxRequests
      /\ transfer.retry_count \in Nat /\ transfer.match_retry \in Nat
      /\ retry \in Nat /\ match_retry \in Nat
  <2>1. transfer.retry_count \in Nat /\ transfer.match_retry \in Nat
    <3>1. transfer \in [retry_count : RetryCounts, match_retry : MatchRetries]
      BY DEF TypeOK
    <3> QED BY <3>1
  <2>2. retry \in 0 .. transfer.retry_count /\ match_retry \in 0 .. transfer.match_retry
    BY DEF TypeOK
  <2>3. i \in Index /\ left \in Index /\ response_count \in Index /\ Len(reqs) \in Index
    BY DEF TypeOK
  <2> QED BY <2>1, <2>2, <2>3 DEF Index
<1>r. ASSUME pc \in InList \cup InBlock
      PROVE  /\ i \in 1 .. Len(reqs) /\ reqs[i] \in Kind
             /\ left > 0 /\ i + left = Len(reqs) + 1 /\ response_count = i - 1
  <2>1. left > 0 /\ i + left = Len(reqs) + 1 /\ response_count = i - 1 /\ i > 0
    BY <1>r DEF Counted
  <2>2. i \in 1 .. Len(reqs)
    BY <2>1, <1>n
  <2> QED BY <2>1, <2>2 DEF TypeOK
<1>c. ASSUME pc \in InList, Complete
      PROVE  /\ pc' = "fetch" /\ left' \in Index /\ response_count' \in Index
             /\ check_write' \in BOOLEAN
             /\ i + left' = Len(reqs) /\ response_count' = i
  <2>1. /\ pc' = "fetch" /\ left' = left - 1 /\ response_count' = response_count + 1
        /\ check_write' \in BOOLEAN
    BY <1>c DEF Complete, TypeOK
  <2>2. left > 0 /\ i + left = Len(reqs) + 1 /\ response_count = i - 1
    BY <1>c, <1>r
  <2> QED BY <2>1, <2>2, <1>n DEF Index
<1>1. CASE WaitAgain
  <2>1. PICK ack \in Answers : Again(ack) /\ SWD_Transfer(ack) /\ response_value' = ack
    BY <1>1 DEF WaitAgain
  <2>2. pc \in Loops /\ retry > 0
    BY <1>1, <2>1 DEF WaitAgain, Again
  <2>3. TypeOK'
    BY <1>1, <2>1, <2>2, <1>t, <1>n DEF TypeOK, WaitAgain
  <2>4. Counted'
    BY <1>1, <2>2 DEF Counted, WaitAgain, Loops
  <2> QED BY <2>3, <2>4
<1>2. CASE Fail
  <2>1. PICK ack \in Answers : /\ SWD_Transfer(ack) /\ response_value' = ack
                               /\ mismatch' \in BOOLEAN
    BY <1>2 DEF Fail
  <2>2. pc \in Loops /\ pc' \in {"cancel", "done"}
    BY <1>2 DEF Fail
  <2>3. TypeOK'
    BY <1>2, <2>1, <2>2, <1>t DEF TypeOK, Fail, Place
  <2>4. Counted'
    BY <1>2, <2>2 DEF Counted, Fail, InList, InBlock
  <2> QED BY <2>3, <2>4
<1>3. CASE Fetch
  <2>1. CASE left = 0
    <3>1. TypeOK'
      BY <1>3, <2>1 DEF TypeOK, Fetch, Place, tgtVars
    <3>2. Counted'
      BY <1>3, <2>1, <1>n DEF Counted, Fetch, InList, InBlock
    <3> QED BY <3>1, <3>2
  <2>2. CASE left # 0
    <3>1. i + left = Len(reqs) /\ response_count = i
      BY <1>3 DEF Fetch, Counted
    <3>2. /\ pc' \in {"flush", "start"} /\ i' = i + 1 /\ ptr' = ptr + 1
          /\ retry' = transfer.retry_count
      BY <1>3, <2>2 DEF Fetch
    <3>3. i' \in Index
      BY <2>2, <3>1, <3>2, <1>n DEF Index
    <3>4. TypeOK'
      BY <1>3, <3>2, <3>3, <1>n DEF TypeOK, Fetch, Place, Loops, tgtVars
    <3>5. Counted'
      BY <1>3, <2>2, <3>1, <3>2, <1>n DEF Counted, Fetch, InList, InBlock
    <3> QED BY <3>4, <3>5
  <2> QED BY <2>1, <2>2
<1>4. CASE Flush
  <2>1. TypeOK'
    BY <1>4, <1>t, AppendProperties DEF TypeOK, Flush, Succeed, Store, Place, Loops, Ack
  <2>2. Counted'
    BY <1>4 DEF Counted, Flush, Succeed, InList, InBlock
  <2> QED BY <2>1, <2>2
<1>5. CASE Start
  <2>1. pc \in InList
    BY <1>5 DEF Start, InList
  <2>2. /\ reqs' = reqs /\ i' = i /\ ptr' \in Nat /\ retry' = transfer.retry_count
        /\ match_retry' \in 0 .. transfer.match_retry
        /\ response_value' \in Ack \cup {"zero"}
        /\ UNCHANGED <<transfer, post_read, data, mismatch, out, tgtVars>>
    BY <1>5, <1>n, SMTT(30) DEF Start, TypeOK, Ack
  <2>3. CASE Complete
    <3>1. TypeOK'
      BY <2>1, <2>2, <2>3, <1>c, <1>n DEF TypeOK, Place, tgtVars
    <3>2. Counted'
      BY <2>1, <2>2, <2>3, <1>c, <1>r DEF Counted, InList, InBlock
    <3> QED BY <3>1, <3>2
  <2>4. CASE ~ (reqs[i] = "mask" \/ post_read)
    <3>1. pc' \in {"post", "read", "poll", "write"} /\ UNCHANGED <<response_count, left, check_write>>
      BY <1>5, <2>1, <2>4, <1>r DEF Start, Kind, OnAP
    <3>2. TypeOK'
      BY <2>2, <3>1, <1>n DEF TypeOK, Place, Loops, tgtVars
    <3>3. Counted'
      BY <2>1, <2>2, <3>1, <1>r DEF Counted, InList, InBlock
    <3> QED BY <3>2, <3>3
  <2> QED BY <1>5, <2>3, <2>4 DEF Start
<1>6. CASE Post
  <2>1. pc \in InList /\ pc \in Loops
    BY <1>6 DEF Post, Succeed, InList, Loops
  <2>2. /\ UNCHANGED <<reqs, i, transfer, ptr, match_retry, mismatch, out>>
        /\ response_value' = "OK" /\ SWD_Transfer("OK")
    BY <1>6 DEF Post, Succeed
  <2>3. CASE Matches(reqs[i])
    <3>1. /\ pc' = "poll" /\ retry' = transfer.retry_count
          /\ UNCHANGED <<post_read, response_count, left, check_write>>
      BY <1>6, <2>3 DEF Post
    <3>2. TypeOK'
      BY <2>1, <2>2, <3>1, <1>t, <1>n DEF TypeOK, Place, Loops, Ack
    <3>3. Counted'
      BY <2>1, <2>2, <3>1, <1>r DEF Counted, InList, InBlock
    <3> QED BY <3>2, <3>3
  <2>4. CASE ~ Matches(reqs[i])
    <3>1. post_read' = TRUE /\ Complete /\ UNCHANGED retry
      BY <1>6, <2>4 DEF Post
    <3>2. TypeOK'
      BY <2>1, <2>2, <3>1, <1>t, <1>c, <1>n DEF TypeOK, Place, Ack
    <3>3. Counted'
      BY <2>1, <2>2, <3>1, <1>c, <1>r DEF Counted, InList, InBlock
    <3> QED BY <3>2, <3>3
  <2> QED BY <2>3, <2>4
<1>7. CASE Read
  <2>1. pc \in InList /\ pc \in Loops
    BY <1>7 DEF Read, Succeed, InList, Loops
  <2>2. /\ UNCHANGED <<reqs, i, transfer, ptr, post_read, retry, match_retry, mismatch>>
        /\ response_value' = "OK" /\ SWD_Transfer("OK") /\ Complete /\ out' = Append(out, data')
    BY <1>7 DEF Read, Succeed, Store
  <2>3. out' \in Seq(Index)
    BY <2>1, <2>2, <1>t, AppendProperties DEF TypeOK
  <2>4. TypeOK'
    BY <2>1, <2>2, <2>3, <1>t, <1>c, <1>n DEF TypeOK, Place, Ack
  <2>5. Counted'
    BY <2>1, <2>2, <1>c, <1>r DEF Counted, InList, InBlock
  <2> QED BY <2>4, <2>5
<1>8. CASE Poll
  <2>1. pc \in InList /\ pc \in Loops
    BY <1>8 DEF Poll, Succeed, InList, Loops
  <2>2. /\ UNCHANGED <<reqs, i, transfer, ptr, post_read, out>>
        /\ response_value' = "OK" /\ SWD_Transfer("OK")
    BY <1>8 DEF Poll, Succeed
  <2>3. CASE Complete /\ UNCHANGED <<retry, match_retry, mismatch>>
    <3>1. TypeOK'
      BY <2>1, <2>2, <2>3, <1>t, <1>c, <1>n DEF TypeOK, Place, Ack
    <3>2. Counted'
      BY <2>1, <2>2, <2>3, <1>c, <1>r DEF Counted, InList, InBlock
    <3> QED BY <3>1, <3>2
  <2>4. CASE ~ (Complete /\ UNCHANGED <<retry, match_retry, mismatch>>)
    <3>1. /\ UNCHANGED <<response_count, left, check_write>>
          /\ retry' \in 0 .. transfer.retry_count
          /\ match_retry' \in 0 .. transfer.match_retry
          /\ pc' = "poll" \/ pc' = "cancel"
          /\ mismatch' \in BOOLEAN
      <4>1. \/ /\ match_retry > 0 /\ match_retry' = match_retry - 1
               /\ retry' = transfer.retry_count
               /\ UNCHANGED <<pc, response_count, left, check_write, mismatch>>
            \/ /\ mismatch' = TRUE /\ pc' = "cancel"
               /\ UNCHANGED <<retry, match_retry, response_count, left, check_write>>
        BY <1>8, <2>4 DEF Poll, PollsLeft
      <4>2. /\ retry \in 0 .. transfer.retry_count /\ match_retry \in 0 .. transfer.match_retry
            /\ mismatch \in BOOLEAN /\ pc = "poll"
        BY <1>8 DEF TypeOK, Poll, Succeed
      <4>3. CASE match_retry' = match_retry - 1 /\ match_retry > 0
        <5>1. match_retry' \in 0 .. transfer.match_retry
          BY <4>2, <4>3, <1>n
        <5>2. transfer.retry_count \in 0 .. transfer.retry_count
          BY <1>n
        <5> QED BY <4>1, <4>2, <5>1, <5>2
      <4>4. CASE mismatch' = TRUE /\ pc' = "cancel" /\ UNCHANGED <<retry, match_retry,
                 response_count, left, check_write>>
        BY <4>2, <4>4
      <4> QED BY <4>1, <4>3, <4>4
    <3>2. TypeOK'
      BY <2>1, <2>2, <3>1, <1>t, <1>n DEF TypeOK, Place, Loops, Ack
    <3>3. Counted'
      BY <2>1, <2>2, <3>1, <1>r DEF Counted, InList, InBlock
    <3> QED BY <3>2, <3>3
  <2> QED BY <2>3, <2>4
<1>9. CASE Write
  <2>1. pc \in InList /\ pc \in Loops
    BY <1>9 DEF Write, Succeed, InList, Loops
  <2>2. /\ UNCHANGED <<reqs, i, transfer, ptr, post_read, retry, match_retry, mismatch, out>>
        /\ response_value' = "OK" /\ SWD_Transfer("OK") /\ Complete
    BY <1>9 DEF Write, Succeed
  <2>3. TypeOK'
    BY <2>1, <2>2, <1>t, <1>c, <1>n DEF TypeOK, Place, Ack
  <2>4. Counted'
    BY <2>1, <2>2, <1>c, <1>r DEF Counted, InList, InBlock
  <2> QED BY <2>3, <2>4
<1>10. CASE Cancel
  <2>1. ptr' \in Nat
    <3>1. PICK size \in SizeAt(ptr) : ptr' = ptr + size
      BY <1>10 DEF Cancel
    <3>2. size \in {1, 5}
      BY <3>1 DEF SizeAt
    <3> QED BY <3>1, <3>2 DEF TypeOK
  <2>2. TypeOK'
    BY <1>10, <2>1 DEF TypeOK, Cancel, Index, tgtVars
  <2>3. Counted'
    BY <1>10 DEF Counted, Cancel, InList, InBlock
  <2> QED BY <2>2, <2>3
<1>11. CASE Finish
  <2>1. TypeOK'
    BY <1>11 DEF TypeOK, Finish, Ending, Place, Loops, tgtVars
  <2>2. Counted'
    BY <1>11 DEF Counted, Finish, Ending, InList, InBlock
  <2> QED BY <2>1, <2>2
<1>12. CASE Drain \/ Verify
  <2>1. /\ UNCHANGED <<transfer, reqs, i, left, ptr, post_read, check_write, retry,
                       match_retry, response_count, mismatch>>
        /\ pc' = "done" /\ response_value' = "OK" /\ SWD_Transfer("OK") /\ pc \in Loops
        /\ out' = out \/ out' = Append(out, data')
    BY <1>12 DEF Drain, Verify, Succeed, Store, Loops
  <2>2. out' \in Seq(Index)
    <3>1. out \in Seq(Index) /\ data' \in Index
      BY <2>1, <1>t DEF TypeOK
    <3>2. Append(out, data') \in Seq(Index)
      BY <3>1, AppendProperties
    <3> QED BY <2>1, <3>1, <3>2
  <2>3. TypeOK'
    BY <2>1, <2>2, <1>t DEF TypeOK, Place, Ack
  <2>4. Counted'
    BY <2>1 DEF Counted, InList, InBlock
  <2> QED BY <2>3, <2>4
<1>13. CASE BlockPost
  <2>1. TypeOK'
    BY <1>13, <1>t DEF TypeOK, BlockPost, Succeed, Place, Loops, Ack
  <2>2. Counted'
    BY <1>13 DEF Counted, BlockPost, Succeed, InList, InBlock, Reads
  <2> QED BY <2>1, <2>2
<1>14. CASE BlockRead
  <2>1. pc \in InBlock /\ pc \in Loops
    BY <1>14 DEF BlockRead, Succeed, InBlock, Loops
  <2>2. /\ UNCHANGED <<reqs, transfer, ptr, post_read, check_write, match_retry, mismatch>>
        /\ response_value' = "OK" /\ SWD_Transfer("OK") /\ out' = Append(out, data')
        /\ NextOfBlock("done") /\ pc = "blockRead"
    BY <1>14 DEF BlockRead, Succeed, Store
  <2>3. out' \in Seq(Index)
    BY <2>1, <2>2, <1>t, AppendProperties DEF TypeOK
  <2>4. /\ response_count' = response_count + 1 /\ left' = left - 1
        /\ retry' = transfer.retry_count
        /\ IF left = 1 THEN i' = i /\ pc' = "done" ELSE i' = i + 1 /\ pc' = "blockRead"
    BY <2>2 DEF NextOfBlock
  <2>5. response_count' \in Index /\ left' \in Index /\ i' \in Index
    BY <2>1, <2>4, <1>r, <1>n DEF Index
  <2>6. TypeOK'
    BY <2>1, <2>2, <2>3, <2>4, <2>5, <1>t, <1>n, SMTT(30) DEF TypeOK, Place, Loops, Ack
  <2>7. Counted'
    <3>1. CASE left = 1
      BY <2>1, <2>2, <2>4, <3>1, <1>r, <1>n DEF Counted, InList, InBlock
    <3>2. CASE left # 1
      <4>1. /\ left' > 0 /\ i' > 0 /\ i' + left' = Len(reqs) + 1 /\ response_count' = i' - 1
            /\ response_count' <= Len(reqs) /\ pc' = "blockRead"
        BY <2>1, <2>4, <3>2, <1>r, <1>n
      <4>2. \A j \in 1 .. Len(reqs) : Reads(reqs[j]) /\ reqs[j] = reqs[1]
        BY <2>2 DEF Counted
      <4> QED BY <2>2, <4>1, <4>2 DEF Counted, InList, InBlock
    <3> QED BY <3>1, <3>2
  <2> QED BY <2>6, <2>7
<1>15. CASE BlockWrite
  <2>1. pc \in InBlock /\ pc \in Loops
    BY <1>15 DEF BlockWrite, Succeed, InBlock, Loops
  <2>2. /\ UNCHANGED <<reqs, transfer, ptr, post_read, check_write, match_retry, mismatch, out>>
        /\ response_value' = "OK" /\ SWD_Transfer("OK")
        /\ NextOfBlock("verify") /\ pc = "blockWrite"
    BY <1>15 DEF BlockWrite, Succeed
  <2>4. /\ response_count' = response_count + 1 /\ left' = left - 1
        /\ retry' = transfer.retry_count
        /\ IF left = 1 THEN i' = i /\ pc' = "verify" ELSE i' = i + 1 /\ pc' = "blockWrite"
    BY <2>2 DEF NextOfBlock
  <2>5. response_count' \in Index /\ left' \in Index /\ i' \in Index
    BY <2>1, <2>4, <1>r, <1>n DEF Index
  <2>6. TypeOK'
    BY <2>1, <2>2, <2>4, <2>5, <1>t, <1>n, SMTT(30) DEF TypeOK, Place, Loops, Ack
  <2>7. Counted'
    BY <2>1, <2>2, <2>4, <1>r, <1>n, SMTT(30) DEF Counted, InList, InBlock
  <2> QED BY <2>6, <2>7
<1>16. CASE Respond
  <2>1. /\ UNCHANGED <<transfer, sticky>> /\ pc' = "idle" /\ reqs' = <<>> /\ i' = 0 /\ left' = 0
        /\ ptr' = 0 /\ post_read' = FALSE /\ check_write' = FALSE /\ retry' = 0
        /\ match_retry' = 0 /\ data' = 0 /\ response_count' = 0 /\ response_value' = "zero"
        /\ mismatch' = FALSE /\ out' = <<>> /\ buf' = 0 /\ log' = <<>> /\ waits' = 0
    BY <1>16 DEF Respond
  <2>2. /\ 0 \in Index /\ <<>> \in Seq(Index) /\ <<>> \in Seq(Kind) /\ Len(<<>>) = 0
        /\ 0 \in 0 .. transfer.retry_count /\ 0 \in 0 .. transfer.match_retry
    BY EmptySeq, <1>n DEF Index
  <2>3. TypeOK'
    <3>1. /\ transfer' \in [retry_count : RetryCounts, match_retry : MatchRetries]
          /\ sticky' \in BOOLEAN /\ pc' \in Place
      BY <2>1 DEF TypeOK, Place
    <3> QED BY <2>1, <2>2, <3>1 DEF TypeOK
  <2>4. Counted'
    BY <2>1, <2>2 DEF Counted, InList, InBlock
  <2> QED BY <2>3, <2>4
<1> QED BY <1>1, <1>2, <1>3, <1>4, <1>5, <1>6, <1>7, <1>8, <1>9, <1>10, <1>11, <1>12,
           <1>13, <1>14, <1>15, <1>16 DEF Device

(* Types and counts hold throughout.                                       *)
LEMMA CountsHold == Spec => [](TypeOK /\ Counted)
<1> USE TransferAssumption
<1>1. Init => TypeOK /\ Counted
  <2>1. Init => TypeOK
    <3>1. 0 \in Index /\ <<>> \in Seq(Index) /\ <<>> \in Seq(Kind) /\ Len(<<>>) = 0
      BY EmptySeq DEF Index
    <3>2. Init => /\ transfer \in [retry_count : RetryCounts, match_retry : MatchRetries]
                  /\ 0 \in 0 .. transfer.retry_count /\ 0 \in 0 .. transfer.match_retry
      BY DEF Init
    <3> QED BY <3>1, <3>2 DEF Init, TypeOK, Place
  <2>2. Init => Counted
    BY DEF Init, Counted, InList, InBlock
  <2> QED BY <2>1, <2>2
<1>2. TypeOK /\ Counted /\ [Next]_vars => (TypeOK /\ Counted)'
  <2>1. CASE Next
    BY <2>1, HostTyped, DeviceTyped DEF Next
  <2>2. CASE UNCHANGED vars
    BY <2>2 DEF TypeOK, Counted, vars, devVars, tgtVars
  <2> QED BY <2>1, <2>2
<1> QED BY <1>1, <1>2, PTL DEF Spec

(* Every variable of the transfer commands keeps to its range: no index or *)
(* count leaves the list, no retry count underflows.                       *)
THEOREM TypeCorrect == Spec => []TypeOK
BY CountsHold, PTL

----------------------------------------------------------------------------
(* A command may stop wherever its data is collected, or a read posted.    *)
LEMMA StopsCovered ==
  ASSUME NEW m \in 0 .. Len(reqs), Covers(m), response_count \in Nat, response_count <= m,
         Len(reqs) \in Nat
  PROVE  Stopped
<1>1. \A j \in m + 1 .. response_count : FALSE
  OBVIOUS
<1> QED BY <1>1 DEF Stopped

LEMMA StopsPosted ==
  ASSUME NEW m \in 0 .. Len(reqs), Posted(m), response_count \in Nat, response_count <= m,
         Len(reqs) \in Nat
  PROVE  Stopped
<1>1. buf \in 1 .. m /\ Covers(buf - 1) /\ \A j \in buf + 1 .. m : ~ Reads(reqs[j])
  BY DEF Posted
<1>2. buf - 1 \in 0 .. Len(reqs) /\ (buf - 1) + 1 = buf
  BY <1>1
<1>3. ASSUME NEW j \in (buf - 1) + 1 .. response_count, Reads(reqs[j])
      PROVE  \A a \in j + 1 .. response_count : ~ Reads(reqs[a])
  BY <1>1, <1>2
<1> QED BY <1>1, <1>2, <1>3 DEF Stopped

(* Collecting a posted read catches up with the requests after it.         *)
LEMMA Collects ==
  ASSUME TypeOK, NEW m \in Nat, Posted(m)
  PROVE  Holds(Append(out, buf), reqs, m)
<1>1. /\ buf \in 1 .. m /\ reqs[buf] = "apRead" /\ Covers(buf - 1)
      /\ \A j \in buf + 1 .. m : ~ Reads(reqs[j])
  BY DEF Posted
<1>2. out \in Seq(Index) /\ buf \in Index
  BY DEF TypeOK
<1>3. \A j \in (buf - 1) + 1 .. buf - 1 : ~ Reads(reqs[j])
  BY <1>1
<1> DEFINE o == Append(out, buf)
<1>4. Holds(o, reqs, buf)
  BY <1>1, <1>2, <1>3, HoldsNext DEF Covers, Reads
<1>5. o \in Seq(Index)
  BY <1>2, AppendProperties
<1>6. buf \in Nat /\ buf <= m
  BY <1>1
<1> HIDE DEF o
<1>7. Holds(o, reqs, m)
  BY <1>1, <1>4, <1>5, <1>6, HoldsOn
<1> QED BY <1>7 DEF o

(* The next request is a plain read, or it is none.                        *)
LEMMA CoversRead ==
  ASSUME TypeOK, i \in 1 .. Len(reqs), Covers(i - 1), Reads(reqs[i])
  PROVE  Holds(Append(out, i), reqs, i)
<1>1. out \in Seq(Index) /\ i \in Index /\ i \in Nat /\ i - 1 \in Nat /\ i - 1 < i
  BY TransferAssumption DEF TypeOK, Index
<1>2. \A j \in (i - 1) + 1 .. i - 1 : ~ Reads(reqs[j])
  BY <1>1
<1> QED BY <1>1, <1>2, HoldsNext DEF Covers

LEMMA CoversOther ==
  ASSUME TypeOK, i \in 1 .. Len(reqs), Covers(i - 1), ~ Reads(reqs[i])
  PROVE  Covers(i)
<1>1. out \in Seq(Index) /\ i \in Nat /\ i - 1 \in Nat /\ i - 1 <= i
  BY TransferAssumption DEF TypeOK, Index
<1>2. \A j \in (i - 1) + 1 .. i : ~ Reads(reqs[j])
  BY <1>1
<1> QED BY <1>1, <1>2, HoldsOn DEF Covers

----------------------------------------------------------------------------
(* The commands of the host begin with nothing collected.                  *)
LEMMA HostGathered ==
  ASSUME TypeOK, Counted, Gathered, Host
  PROVE  Gathered'
<1> USE TransferAssumption
<1>1. ASSUME NEW r \in RetryCounts, NEW m \in MatchRetries, DAP_TransferConfigure(r, m)
      PROVE  Gathered'
  BY <1>1 DEF DAP_TransferConfigure, devVars, tgtVars, Gathered, Behind, Posted, Covers,
              Stopped, Succeeded
<1>2. ASSUME NEW q, NEW place, NEW at, Begin(q, place, at)
      PROVE  /\ pc' = place /\ reqs' = q /\ i' = at /\ out' = <<>> /\ ~ post_read' /\ ~ mismatch'
             /\ response_value' = "zero" /\ response_count' = 0 /\ buf' = buf
  BY <1>2 DEF Begin, Counted, Gathered, tgtVars
<1>3. ASSUME NEW q PROVE Holds(<<>>, q, 0)
  BY HoldsNothing
<1>4. ASSUME NEW q \in Requests, DAP_SWD_Transfer(q)
      PROVE  Gathered'
  <2>1. /\ pc' = "fetch" /\ reqs' = q /\ i' = 0 /\ out' = <<>> /\ ~ post_read' /\ ~ mismatch'
    BY <1>4, <1>2 DEF DAP_SWD_Transfer
  <2>2. Behind(i)'
    BY <2>1, <1>3 DEF Behind, Covers
  <2> QED BY <2>1, <2>2 DEF Gathered
<1>s. ASSUME response_count' = 0, out' = <<>>, Len(reqs') \in Nat
      PROVE  Stopped'
  <2>1. Covers(0)'
    BY <1>s, <1>3 DEF Covers
  <2>2. 0 \in 0 .. Len(reqs') /\ \A j \in 0 + 1 .. response_count' : FALSE
    BY <1>s
  <2> QED BY <2>1, <2>2 DEF Stopped
<1>5. ASSUME NEW q \in Requests, DAP_Dummy_Transfer(q)
      PROVE  Gathered'
  <2>1. /\ pc' = "done" /\ reqs' = q /\ out' = <<>> /\ ~ mismatch' /\ response_count' = 0
        /\ response_value' = "zero"
    BY <1>5 DEF DAP_Dummy_Transfer, Counted, Gathered
  <2>2. Len(q) \in Nat
    BY RequestsAreLists DEF Index
  <2> QED BY <2>1, <2>2, <1>s DEF Gathered, Succeeded
<1>6. ASSUME NEW kind \in BlockKind, NEW n \in Index, DAP_SWD_TransferBlock(kind, n)
      PROVE  Gathered'
  <2> DEFINE q     == [j \in 1 .. n |-> kind]
             place == IF n = 0 THEN "done" ELSE BlockLoop[kind]
             at    == IF n = 0 THEN 0 ELSE 1
  <2>0. n \in Nat /\ (n # 0 => place \in InBlock)
    BY DEF Index, BlockKind, BlockLoop, InBlock
  <2>1. Begin(q, place, at)
    BY <1>6 DEF DAP_SWD_TransferBlock
  <2>2. /\ n = 0 => place = "done"
        /\ n # 0 => at = 1
        /\ place = "blockRead" => kind = "dpRead" /\ q[1] = "dpRead"
    BY <2>0 DEF BlockKind, BlockLoop
  <2>3. Len(q) \in Nat
    <3>1. q \in Seq(BlockKind)
      BY <2>0, SeqDef
    <3> QED BY <3>1, LenProperties
  <2> HIDE DEF q, place, at
  <2>4. /\ pc' = place /\ reqs' = q /\ i' = at /\ out' = <<>> /\ ~ post_read' /\ ~ mismatch'
        /\ response_value' = "zero" /\ response_count' = 0
    BY <2>1, <1>2
  <2>5. Stopped'
    BY <2>3, <2>4, <1>s
  <2>6. CASE n = 0
    BY <2>2, <2>4, <2>5, <2>6 DEF Gathered, Succeeded
  <2>7. CASE n # 0
    <3>1. i' = 1 /\ pc' \in InBlock
      BY <2>0, <2>2, <2>4, <2>7
    <3>2. Covers(i - 1)'
      BY <3>1, <2>4, <1>3 DEF Covers
    <3>3. pc' = "blockRead" => reqs'[i'] # "apRead"
      BY <2>2, <2>4, <3>1
    <3> QED BY <2>4, <3>1, <3>2, <3>3 DEF Gathered, InBlock
  <2> QED BY <2>6, <2>7
<1>7. CASE DAP_SWD_WriteAbort
  BY <1>7 DEF DAP_SWD_WriteAbort, devVars, Gathered, Behind, Posted, Covers, Stopped, Succeeded
<1> QED BY <1>1, <1>4, <1>5, <1>6, <1>7 DEF Host

(* The device collects the data of each plain read once and in its turn.   *)
LEMMA DeviceGathered ==
  ASSUME TypeOK, Counted, Gathered, Device
  PROVE  Gathered'
<1>n. /\ i \in Nat /\ left \in Nat /\ response_count \in Nat /\ Len(reqs) \in Nat
      /\ response_count <= Len(reqs)
  BY TransferAssumption DEF TypeOK, Index, Counted
<1>r. ASSUME pc \in InList \cup InBlock
      PROVE  /\ i \in 1 .. Len(reqs) /\ reqs[i] \in Kind /\ i - 1 \in 0 .. Len(reqs)
             /\ left > 0 /\ i + left = Len(reqs) + 1 /\ response_count = i - 1
  <2>1. left > 0 /\ i + left = Len(reqs) + 1 /\ response_count = i - 1 /\ i > 0
    BY <1>r DEF Counted
  <2>2. i \in 1 .. Len(reqs) /\ i - 1 \in 0 .. Len(reqs)
    BY <2>1, <1>n
  <2> QED BY <2>1, <2>2 DEF TypeOK
<1>c. ASSUME Complete PROVE pc' = "fetch"
  BY <1>c DEF Complete
<1>w. ASSUME NEW ack, SWD_Transfer(ack), ack \notin {"OK", "PARITY"} PROVE buf' = buf
  BY <1>w DEF SWD_Transfer
<1>o. ASSUME SWD_Transfer("OK")
      PROVE  /\ buf' = IF AccessAt = "apRead" THEN AccessFor ELSE buf
             /\ pc \in {"flush", "read", "poll", "drain", "blockRead"} => data' = Value
  BY <1>o DEF SWD_Transfer, Perform
<1>1. CASE WaitAgain
  <2>1. UNCHANGED <<pc, reqs, i, post_read, response_count, mismatch, out>> /\ pc \in Loops
    BY <1>1 DEF WaitAgain
  <2>2. buf' = buf
    BY <1>1, <1>w DEF WaitAgain, Again
  <2> QED BY <2>1, <2>2 DEF Gathered, Loops, Behind, Posted, Covers
<1>2. CASE Fail
  <2>1. /\ UNCHANGED <<reqs, response_count, out>> /\ pc \in Loops
        /\ pc' \in {"cancel", "done"} /\ response_value' # "OK"
    BY <1>2 DEF Fail
  <2>2. Stopped
    <3>1. CASE pc = "flush"
      BY <3>1, <1>r, <1>n, StopsPosted DEF Gathered, InList
    <3>2. CASE pc \in {"post", "read", "poll", "write"}
      BY <3>2, <1>r, <1>n, StopsCovered DEF Gathered, InList
    <3>3. CASE pc = "drain"
      BY <3>3, <1>n, StopsPosted DEF Gathered
    <3>4. CASE pc = "verify"
      BY <3>4, <1>n, StopsCovered DEF Gathered
    <3>5. CASE pc = "blockRead"
      BY <3>5, <1>r, <1>n, StopsCovered DEF Gathered, InBlock
    <3>6. CASE pc = "blockPost"
      <4>1. out = <<>> /\ response_count = 0
        BY <3>6, <1>r DEF Gathered, InBlock
      <4>2. Covers(0)
        BY <4>1, HoldsNothing DEF Covers
      <4> QED BY <4>1, <4>2, <1>n, StopsCovered
    <3>7. CASE pc = "blockWrite"
      <4>1. out = <<>> /\ \A j \in 1 .. Len(reqs) : ~ Reads(reqs[j])
        BY <3>7 DEF Gathered, Counted, Reads
      <4>2. Covers(Len(reqs))
        BY <4>1, <1>n, HoldsNothing DEF Covers
      <4> QED BY <4>2, <1>n, StopsCovered
    <3> QED BY <2>1, <3>1, <3>2, <3>3, <3>4, <3>5, <3>6, <3>7 DEF Loops
  <2>3. Stopped'
    BY <2>1, <2>2 DEF Stopped, Covers
  <2> QED BY <2>1, <2>3 DEF Gathered, Succeeded
<1>3. CASE Fetch
  <2>0. /\ UNCHANGED <<reqs, left, post_read, response_count, response_value, mismatch, out, buf>>
        /\ Behind(i) /\ i + left = Len(reqs) /\ response_count = i /\ ~ mismatch
    BY <1>3 DEF Fetch, tgtVars, Gathered, Counted
  <2>1. CASE left = 0
    <3>1. pc' = "cancel" /\ i = Len(reqs)
      BY <1>3, <2>0, <2>1, <1>n DEF Fetch
    <3>2. Stopped
      BY <2>0, <3>1, <1>n, StopsPosted, StopsCovered DEF Behind
    <3>3. Stopped' /\ Behind(Len(reqs))'
      BY <2>0, <3>1, <3>2 DEF Stopped, Behind, Posted, Covers
    <3> QED BY <2>0, <3>1, <3>3 DEF Gathered
  <2>2. CASE left # 0
    <3>1. i' = i + 1 /\ i' - 1 = i /\ pc' = IF post_read THEN "flush" ELSE "start"
      BY <1>3, <2>2, <1>n DEF Fetch
    <3>2. CASE post_read
      <4>1. Posted(i - 1)'
        BY <2>0, <3>1, <3>2 DEF Behind, Posted, Covers
      <4> QED BY <2>0, <3>1, <3>2, <4>1 DEF Gathered
    <3>3. CASE ~ post_read
      <4>1. Covers(i - 1)'
        BY <2>0, <3>1, <3>3 DEF Behind, Posted, Covers
      <4> QED BY <2>0, <3>1, <3>3, <4>1 DEF Gathered
    <3> QED BY <3>2, <3>3
  <2> QED BY <2>1, <2>2
<1>4. CASE Flush
  <2>1. /\ pc = "flush" /\ SWD_Transfer("OK") /\ UNCHANGED <<reqs, i, mismatch>>
        /\ pc' = "start" /\ out' = Append(out, data') /\ post_read' = (AccessAt = "apRead")
    BY <1>4 DEF Flush, Succeed, Store
  <2>2. /\ i \in 1 .. Len(reqs) /\ i - 1 \in Nat /\ Posted(i - 1) /\ ~ mismatch
    BY <2>1, <1>r DEF Gathered, InList
  <2>3. AccessAt = (IF reqs[i] = "apRead" THEN "apRead" ELSE "rdbuff") /\ AccessFor = i
    BY <2>1 DEF AccessAt, AccessFor
  <2>4. out' = Append(out, buf)
    BY <2>1, <2>3, <1>o DEF Value
  <2>5. Covers(i - 1)'
    BY <2>1, <2>2, <2>4, Collects DEF Covers
  <2>6. CASE reqs[i] = "apRead"
    <3>1. post_read' /\ buf' = i
      BY <2>1, <2>3, <2>6, <1>o
    <3>2. buf' \in 1 .. i /\ \A j \in buf' + 1 .. i : FALSE
      BY <3>1, <2>2
    <3>3. Posted(i)'
      BY <2>1, <2>5, <2>6, <3>1, <3>2 DEF Posted, Covers
    <3> QED BY <2>1, <2>2, <3>1, <3>3 DEF Gathered
  <2>7. CASE reqs[i] # "apRead"
    <3>1. ~ post_read'
      BY <2>1, <2>3, <2>7
    <3> QED BY <2>1, <2>2, <2>5, <3>1 DEF Gathered
  <2> QED BY <2>6, <2>7
<1>5. CASE Start
  <2>1. /\ pc = "start" /\ UNCHANGED <<reqs, i, post_read, mismatch, out, buf>>
        /\ i \in 1 .. Len(reqs) /\ reqs[i] \in Kind /\ ~ mismatch
    BY <1>5, <1>r DEF Start, tgtVars, Gathered, InList
  <2>2. CASE post_read
    <3>1. Posted(i) /\ pc' = "fetch"
      BY <1>5, <2>1, <2>2, <1>c DEF Start, Gathered
    <3>2. Behind(i)'
      BY <2>1, <3>1 DEF Behind, Posted, Covers
    <3> QED BY <2>1, <3>1, <3>2 DEF Gathered
  <2>3. CASE ~ post_read
    <3>1. Covers(i - 1)
      BY <2>1, <2>3 DEF Gathered, Posted
    <3>2. CASE reqs[i] = "mask"
      <4>1. pc' = "fetch" /\ Covers(i)
        BY <1>5, <2>1, <3>1, <3>2, <1>c, CoversOther DEF Start, Reads
      <4>2. Behind(i)'
        BY <2>1, <2>3, <4>1 DEF Behind, Covers
      <4> QED BY <2>1, <4>1, <4>2 DEF Gathered
    <3>3. CASE reqs[i] # "mask"
      <4>1. /\ pc' \in {"post", "read", "poll", "write"}
            /\ pc' = "post" => OnAP(reqs[i])
            /\ pc' = "read" => reqs[i] = "dpRead"
            /\ pc' = "poll" => reqs[i] = "dpMatch"
            /\ pc' = "write" => reqs[i] = "write"
        BY <1>5, <2>1, <2>3, <3>3 DEF Start, Kind, OnAP
      <4>2. Covers(i - 1)'
        BY <2>1, <3>1 DEF Covers
      <4> QED BY <2>1, <2>3, <4>1, <4>2 DEF Gathered, Matches
    <3> QED BY <3>2, <3>3
  <2> QED BY <2>2, <2>3
<1>6. CASE Post
  <2>1. /\ pc = "post" /\ SWD_Transfer("OK") /\ UNCHANGED <<reqs, i, mismatch, out>>
        /\ i \in 1 .. Len(reqs) /\ ~ mismatch /\ ~ post_read /\ Covers(i - 1) /\ OnAP(reqs[i])
    BY <1>6, <1>r DEF Post, Succeed, Gathered, InList
  <2>2. Covers(i - 1)'
    BY <2>1 DEF Covers
  <2>3. buf' = i
    BY <2>1, <1>o DEF AccessAt, AccessFor
  <2>4. CASE Matches(reqs[i])
    <3>1. pc' = "poll" /\ UNCHANGED post_read
      BY <1>6, <2>4 DEF Post
    <3> QED BY <2>1, <2>2, <2>4, <3>1 DEF Gathered
  <2>5. CASE ~ Matches(reqs[i])
    <3>1. pc' = "fetch" /\ post_read' = TRUE /\ reqs[i] = "apRead"
      BY <1>6, <2>1, <2>5, <1>c DEF Post, OnAP, Matches
    <3>2. buf' \in 1 .. i /\ \A j \in buf' + 1 .. i : FALSE
      BY <2>1, <2>3
    <3>3. Behind(i)'
      BY <2>1, <2>2, <2>3, <3>1, <3>2 DEF Behind, Posted, Covers
    <3> QED BY <2>1, <3>1, <3>3 DEF Gathered
  <2> QED BY <2>4, <2>5
<1>7. CASE Read
  <2>1. /\ pc = "read" /\ SWD_Transfer("OK") /\ UNCHANGED <<reqs, i, post_read, mismatch>>
        /\ out' = Append(out, data') /\ pc' = "fetch"
        /\ i \in 1 .. Len(reqs) /\ ~ mismatch /\ ~ post_read /\ Covers(i - 1) /\ reqs[i] = "dpRead"
    BY <1>7, <1>r, <1>c DEF Read, Succeed, Store, Gathered, InList
  <2>2. data' = i
    BY <2>1, <1>o DEF AccessAt, AccessFor, Value
  <2>3. Covers(i)'
    BY <2>1, <2>2, CoversRead DEF Covers, Reads
  <2> QED BY <2>1, <2>3 DEF Gathered, Behind
<1>8. CASE Poll
  <2>1. /\ pc = "poll" /\ UNCHANGED <<reqs, i, post_read, out>>
        /\ i \in 1 .. Len(reqs) /\ ~ mismatch /\ ~ post_read /\ Covers(i - 1) /\ Matches(reqs[i])
    BY <1>8, <1>r DEF Poll, Succeed, Gathered, InList
  <2>2. CASE Complete /\ UNCHANGED mismatch
    <3>1. pc' = "fetch" /\ Covers(i)
      BY <2>1, <2>2, <1>c, CoversOther DEF Reads, Matches
    <3>2. Covers(i)'
      BY <2>1, <3>1 DEF Covers
    <3> QED BY <2>1, <2>2, <3>1, <3>2 DEF Gathered, Behind
  <2>3. CASE UNCHANGED <<pc, mismatch>>
    <3>1. Covers(i - 1)'
      BY <2>1 DEF Covers
    <3> QED BY <2>1, <2>3, <3>1 DEF Gathered
  <2>4. CASE mismatch' = TRUE /\ pc' = "cancel" /\ UNCHANGED response_count
    <3>1. Stopped
      BY <2>1, <1>r, <1>n, StopsCovered DEF InList
    <3>2. Stopped'
      BY <2>1, <2>4, <3>1 DEF Stopped, Covers
    <3> QED BY <2>4, <3>2 DEF Gathered, Succeeded
  <2> QED BY <1>8, <2>2, <2>3, <2>4 DEF Poll
<1>9. CASE Write
  <2>1. /\ pc = "write" /\ UNCHANGED <<reqs, i, post_read, mismatch, out>> /\ pc' = "fetch"
        /\ i \in 1 .. Len(reqs) /\ ~ mismatch /\ ~ post_read /\ Covers(i - 1) /\ reqs[i] = "write"
    BY <1>9, <1>r, <1>c DEF Write, Succeed, Gathered, InList
  <2>2. Covers(i)
    BY <2>1, CoversOther DEF Reads
  <2>3. Covers(i)'
    BY <2>1, <2>2 DEF Covers
  <2> QED BY <2>1, <2>3 DEF Gathered, Behind
<1>10. CASE Cancel
  BY <1>10 DEF Cancel, tgtVars, Gathered, Behind, Posted, Covers, Stopped, Succeeded
<1>11. CASE Finish
  <2>1. /\ pc = "cancel" /\ pc' = Ending
        /\ UNCHANGED <<reqs, i, post_read, response_count, response_value, mismatch, out, buf>>
    BY <1>11 DEF Finish, tgtVars
  <2>2. CASE Succeeded
    <3>1. response_count = Len(reqs) /\ Behind(Len(reqs)) /\ ~ mismatch
      BY <2>1, <2>2 DEF Gathered, Succeeded
    <3>2. CASE post_read
      <4>1. pc' = "drain"
        BY <2>1, <2>2, <3>2 DEF Ending, Succeeded
      <4>2. Posted(Len(reqs))'
        BY <2>1, <3>1, <3>2 DEF Behind, Posted, Covers
      <4> QED BY <2>1, <3>1, <4>1, <4>2 DEF Gathered
    <3>3. CASE ~ post_read
      <4>1. pc' \in {"verify", "done"}
        BY <2>1, <3>3 DEF Ending
      <4>2. Covers(Len(reqs))'
        BY <2>1, <3>1, <3>3 DEF Behind, Posted, Covers
      <4>3. Succeeded'
        BY <2>1, <2>2 DEF Succeeded
      <4> QED BY <2>1, <3>1, <4>1, <4>2, <4>3 DEF Gathered
    <3> QED BY <3>2, <3>3
  <2>3. CASE ~ Succeeded
    <3>1. pc' = "done" /\ Stopped /\ ~ Succeeded'
      BY <2>1, <2>3 DEF Ending, Succeeded, Gathered
    <3>2. Stopped'
      BY <2>1, <3>1 DEF Stopped, Covers
    <3> QED BY <3>1, <3>2 DEF Gathered
  <2> QED BY <2>2, <2>3
<1>12. CASE Drain
  <2>1. /\ pc = "drain" /\ SWD_Transfer("OK") /\ UNCHANGED <<reqs, response_count, mismatch>>
        /\ pc' = "done" /\ out' = Append(out, data') /\ response_value' = "OK"
        /\ response_count = Len(reqs) /\ Posted(Len(reqs)) /\ ~ mismatch
    BY <1>12 DEF Drain, Succeed, Store, Gathered
  <2>2. data' = buf
    BY <2>1, <1>o DEF AccessAt, Value
  <2>3. Covers(Len(reqs))'
    BY <2>1, <2>2, <1>n, Collects DEF Covers
  <2> QED BY <2>1, <2>3 DEF Gathered, Succeeded
<1>13. CASE Verify
  <2>1. /\ pc = "verify" /\ UNCHANGED <<reqs, response_count, mismatch, out>>
        /\ pc' = "done" /\ response_value' = "OK"
        /\ response_count = Len(reqs) /\ Covers(Len(reqs)) /\ ~ mismatch
    BY <1>13 DEF Verify, Succeed, Gathered
  <2>2. Covers(Len(reqs))'
    BY <2>1 DEF Covers
  <2> QED BY <2>1, <2>2 DEF Gathered, Succeeded
<1>14. CASE BlockPost
  <2>1. /\ pc = "blockPost" /\ SWD_Transfer("OK") /\ UNCHANGED <<reqs, i, mismatch, out>>
        /\ pc' = "blockRead" /\ out = <<>> /\ ~ mismatch /\ i = 1
    BY <1>14 DEF BlockPost, Succeed, Gathered
  <2>2. buf' = i
    BY <2>1, <1>o DEF AccessAt, AccessFor
  <2>3. Covers(i - 1)'
    BY <2>1, HoldsNothing DEF Covers
  <2> QED BY <2>1, <2>2, <2>3 DEF Gathered
<1>15. CASE BlockRead
  <2>1. /\ pc = "blockRead" /\ SWD_Transfer("OK") /\ UNCHANGED <<reqs, mismatch>>
        /\ out' = Append(out, data') /\ response_value' = "OK" /\ ~ mismatch
        /\ response_count' = response_count + 1
        /\ IF left = 1 THEN i' = i /\ pc' = "done" ELSE i' = i + 1 /\ pc' = "blockRead"
    BY <1>15 DEF BlockRead, NextOfBlock, Succeed, Store, Gathered
  <2>2. /\ i \in 1 .. Len(reqs) /\ i + left = Len(reqs) + 1 /\ response_count = i - 1
        /\ Covers(i - 1) /\ (reqs[i] = "apRead" => buf = i)
        /\ \A j \in 1 .. Len(reqs) : Reads(reqs[j]) /\ reqs[j] = reqs[1]
    BY <2>1, <1>r DEF Gathered, Counted, InBlock
  <2>3. reqs[i] \in {"dpRead", "apRead"}
    BY <2>2 DEF Reads
  <2>4. data' = i /\ (reqs[i] = "apRead" /\ i # Len(reqs) => buf' = i + 1)
    BY <2>1, <2>2, <2>3, <1>o DEF AccessAt, AccessFor, Value, OnAP
  <2>6. Holds(out', reqs', i)
    BY <2>1, <2>2, <2>4, CoversRead
  <2>7. CASE left = 1
    <3>1. i = Len(reqs) /\ response_count' = Len(reqs) /\ pc' = "done"
      BY <2>1, <2>2, <2>7, <1>n
    <3>2. Covers(Len(reqs))'
      BY <2>1, <2>6, <3>1 DEF Covers
    <3> QED BY <2>1, <3>1, <3>2 DEF Gathered, Succeeded
  <2>8. CASE left # 1
    <3>1. i' = i + 1 /\ i' - 1 = i /\ i # Len(reqs) /\ i + 1 \in 1 .. Len(reqs) /\ pc' = "blockRead"
      BY <2>1, <2>2, <2>8, <1>n, <1>r DEF InBlock
    <3>2. Covers(i - 1)'
      BY <2>6, <3>1 DEF Covers
    <3>3. reqs'[i'] = "apRead" => buf' = i'
      BY <2>1, <2>2, <2>4, <3>1
    <3> QED BY <2>1, <3>1, <3>2, <3>3 DEF Gathered
  <2> QED BY <2>7, <2>8
<1>16. CASE BlockWrite
  <2>1. /\ pc = "blockWrite" /\ UNCHANGED <<reqs, mismatch, out>>
        /\ out = <<>> /\ ~ mismatch /\ response_count' = response_count + 1
        /\ pc' = IF left = 1 THEN "verify" ELSE "blockWrite"
    BY <1>16 DEF BlockWrite, NextOfBlock, Succeed, Gathered
  <2>2. CASE left = 1
    <3>1. response_count' = Len(reqs)
      BY <2>1, <2>2, <1>r, <1>n DEF InBlock
    <3>2. \A j \in 1 .. Len(reqs) : ~ Reads(reqs[j])
      BY <2>1 DEF Counted, Reads
    <3>3. Covers(Len(reqs))'
      BY <2>1, <3>2, <1>n, HoldsNothing DEF Covers
    <3> QED BY <2>1, <2>2, <3>1, <3>3 DEF Gathered
  <2>3. CASE left # 1
    BY <2>1, <2>3 DEF Gathered
  <2> QED BY <2>2, <2>3
<1>17. CASE Respond
  BY <1>17 DEF Respond, Gathered
<1> QED BY <1>1, <1>2, <1>3, <1>4, <1>5, <1>6, <1>7, <1>8, <1>9, <1>10, <1>11, <1>12,
           <1>13, <1>14, <1>15, <1>16, <1>17 DEF Device

(* How far the data is collected, throughout.                              *)
LEMMA InvariantHolds == Spec => [](TypeOK /\ Counted /\ Gathered)
<1>1. Init => Gathered
  BY DEF Init, Gathered
<1>2. TypeOK /\ Counted /\ Gathered /\ [Next]_vars => Gathered'
  <2> SUFFICES ASSUME TypeOK, Counted, Gathered, [Next]_vars PROVE Gathered'
    OBVIOUS
  <2>1. CASE Next
    BY <2>1, HostGathered, DeviceGathered DEF Next
  <2>2. CASE UNCHANGED vars
    BY <2>2 DEF vars, devVars, tgtVars, Gathered, Behind, Posted, Covers, Stopped, Succeeded
  <2> QED BY <2>1, <2>2
<1> QED BY <1>1, <1>2, CountsHold, PTL DEF Spec

(* The invariant has the data in order wherever the code is.               *)
LEMMA CoversInOrder ==
  ASSUME TypeOK, NEW n \in 0 .. Len(reqs), Covers(n)
  PROVE  ResultsInOrder
<1>1. out \in Seq(Index) /\ Len(reqs) \in Nat
  BY TransferAssumption DEF TypeOK, Index
<1>2. \A a \in 1 .. Len(out) : out[a] \in 1 .. n /\ out[a] \in 1 .. Len(reqs) /\ Reads(reqs[out[a]])
  BY <1>1 DEF Covers, Holds
<1>3. \A a \in 1 .. Len(out) : \A j \in 1 .. out[a] : j \in 1 .. n
  BY <1>2
<1> QED BY <1>2, <1>3 DEF ResultsInOrder, Covers, Holds

LEMMA BehindInOrder ==
  ASSUME TypeOK, NEW n \in 0 .. Len(reqs), Behind(n)
  PROVE  ResultsInOrder
<1>1. CASE Posted(n)
  <2>1. buf \in 1 .. n /\ Covers(buf - 1)
    BY <1>1 DEF Posted
  <2>2. buf - 1 \in 0 .. Len(reqs)
    BY <2>1, TransferAssumption DEF TypeOK, Index
  <2> QED BY <2>1, <2>2, CoversInOrder
<1>2. CASE Covers(n)
  BY <1>2, CoversInOrder
<1> QED BY <1>1, <1>2 DEF Behind

(* The data of a response is that of the plain reads in their order, none  *)
(* twice and none left out: for lists and blocks of any length, any number *)
(* of retries, and whatever the target answers.                            *)
THEOREM ResultsStayInOrder == Spec => []ResultsInOrder
<1>1. TypeOK /\ Counted /\ Gathered => ResultsInOrder
  <2> SUFFICES ASSUME TypeOK, Counted, Gathered PROVE ResultsInOrder
    OBVIOUS
  <2>n. i \in Nat /\ left \in Nat /\ response_count \in Nat /\ Len(reqs) \in Nat
    BY TransferAssumption DEF TypeOK, Index
  <2>r. pc \in InList \cup InBlock => i \in 0 .. Len(reqs) /\ i - 1 \in 0 .. Len(reqs)
    BY <2>n DEF Counted
  <2>s. Stopped => ResultsInOrder
    BY CoversInOrder DEF Stopped
  <2>e. out = <<>> => ResultsInOrder
    BY DEF ResultsInOrder
  <2>1. CASE pc = "fetch"
    <3>1. i \in 0 .. Len(reqs) /\ Behind(i)
      BY <2>1, <2>n DEF Counted, Gathered
    <3> QED BY <3>1, BehindInOrder
  <2>2. CASE pc \in {"flush", "start"}
    <3>1. \/ Posted(i - 1) \/ Posted(i) \/ Covers(i - 1)
      BY <2>2 DEF Gathered
    <3> QED BY <2>2, <2>r, <3>1, BehindInOrder, CoversInOrder DEF Behind, InList
  <2>3. CASE pc \in {"post", "read", "poll", "write", "blockRead"}
    BY <2>3, <2>r, CoversInOrder DEF Gathered, InList, InBlock
  <2>4. CASE pc \in {"cancel", "drain", "verify", "done"}
    <3>1. Len(reqs) \in 0 .. Len(reqs)
      BY <2>n
    <3>2. Stopped \/ Behind(Len(reqs)) \/ Covers(Len(reqs))
      BY <2>4 DEF Gathered, Behind
    <3> QED BY <3>1, <3>2, <2>s, BehindInOrder, CoversInOrder
  <2>5. CASE pc \in {"idle", "blockPost", "blockWrite"}
    BY <2>5, <2>e DEF Gathered
  <2> QED BY <2>1, <2>2, <2>3, <2>4, <2>5 DEF TypeOK, Place, Loops
<1> QED BY <1>1, InvariantHolds, PTL

(* A response that says OK holds the data of every read of the command,    *)
(* any other that of every read it counts but at most the last.            *)
THEOREM ResultsAreComplete == Spec => []ResultsComplete
<1>1. TypeOK /\ Counted /\ Gathered => ResultsComplete
  <2> SUFFICES ASSUME TypeOK, Counted, Gathered, pc = "done"
               PROVE  /\ Succeeded => response_count = Len(reqs)
                      /\ \A j \in 1 .. response_count : Reads(reqs[j]) =>
                           \/ \E a \in 1 .. Len(out) : out[a] = j
                           \/ /\ ~ Succeeded
                              /\ \A a \in j + 1 .. response_count : ~ Reads(reqs[a])
    BY DEF ResultsComplete, Succeeded
  <2>n. response_count \in Nat /\ Len(reqs) \in Nat /\ response_count <= Len(reqs)
    BY TransferAssumption DEF TypeOK, Index, Counted
  <2>1. CASE Succeeded
    <3>1. response_count = Len(reqs) /\ Covers(Len(reqs))
      BY <2>1 DEF Gathered
    <3> QED BY <3>1 DEF Covers, Holds
  <2>2. CASE ~ Succeeded
    <3>1. PICK n \in 0 .. Len(reqs) :
            /\ Covers(n)
            /\ \A j \in n + 1 .. response_count :
                 Reads(reqs[j]) => \A a \in j + 1 .. response_count : ~ Reads(reqs[a])
      BY <2>2 DEF Gathered, Stopped
    <3>2. ASSUME NEW j \in 1 .. response_count, Reads(reqs[j])
          PROVE  \/ \E a \in 1 .. Len(out) : out[a] = j
                 \/ \A a \in j + 1 .. response_count : ~ Reads(reqs[a])
      <4>1. CASE j \in 1 .. n
        BY <3>1, <3>2, <4>1 DEF Covers, Holds
      <4>2. CASE j \notin 1 .. n
        <5>1. j \in n + 1 .. response_count
          BY <2>n, <4>2
        <5> QED BY <3>1, <3>2, <5>1
      <4> QED BY <4>1, <4>2
    <3> QED BY <2>2, <3>2
  <2> QED BY <2>1, <2>2
<1> QED BY <1>1, InvariantHolds, PTL

----------------------------------------------------------------------------
(* The target.                                                             *)

(* Retries: while a loop asks, every WAIT of the access took one retry.    *)
Tried ==
  /\ pc \in Loops => waits + retry = transfer.retry_count
  /\ pc \in {"idle", "fetch", "start"} => waits = 0 /\ response_value # "WAIT"
  /\ pc = "cancel" /\ Succeeded => waits = 0
  /\ pc \in {"cancel", "done"} =>
       /\ waits <= transfer.retry_count + 1
       /\ response_value = "WAIT" => waits = transfer.retry_count + 1

(* Errors: of the first n requests q, the last access is one whose error   *)
(* shows late.                                                             *)
LateAt(q, n) ==
  \E j \in 1 .. n : /\ q[j] \in {"apRead", "write"}
                    /\ \A a \in j + 1 .. n : q[a] = "mask"

(* After such an access there is something left to look at, or no error.   *)
Watched(n) == LateAt(reqs, n) => post_read \/ check_write \/ ~ sticky

Checked ==
  /\ pc = "fetch" => Watched(i)
  /\ pc = "start" => Watched(i - 1)
  /\ pc = "cancel" /\ Succeeded => Watched(Len(reqs))
  /\ pc = "done" /\ Succeeded => (LateAt(reqs, Len(reqs)) => ~ sticky)

(* Accesses: the requests that make one, as reads of the kind Holds counts.*)
Access(q) == [j \in DOMAIN q |-> IF q[j] = "mask" THEN "mask" ELSE "dpRead"]

(* The target carried out the first n requests.                            *)
Done(n) == Holds(log, Access(reqs), n)

CarriedOut ==
  /\ pc = "idle" => log = <<>>
  /\ pc = "fetch" => Done(i)
  /\ pc \in {"flush", "post", "read", "write"} => Done(i - 1)
  /\ pc = "start" => Done(IF post_read THEN i ELSE i - 1)
  /\ pc = "poll" => Done(i - 1) \/ Done(i)
  /\ pc = "blockPost" => log = <<>>
  /\ pc = "blockRead" => Done(IF reqs[i] = "apRead" THEN i ELSE i - 1)
  /\ pc = "blockWrite" => Done(i - 1)
  /\ pc \in {"drain", "verify"} => Done(response_count)
  /\ pc \in {"cancel", "done"} =>
       \E n \in 0 .. Len(reqs) :
         /\ Done(n)
         /\ response_count <= n
         /\ n <= response_count + (IF pc = "done" THEN 2 ELSE 1)
         /\ Succeeded => n = response_count

----------------------------------------------------------------------------
(* Retries.                                                                *)

LEMMA Counts ==
  ASSUME TypeOK, Counted
  PROVE  /\ transfer.retry_count \in Nat /\ retry \in Nat /\ waits \in Nat
         /\ i \in Nat /\ left \in Nat /\ response_count \in Nat /\ Len(reqs) \in Nat
         /\ response_count <= Len(reqs)
<1>1. transfer \in [retry_count : RetryCounts, match_retry : MatchRetries]
  BY DEF TypeOK
<1>2. transfer.retry_count \in Nat
  BY <1>1, TransferAssumption
<1>3. retry \in Nat
  BY <1>2 DEF TypeOK
<1> QED BY <1>2, <1>3, TransferAssumption DEF TypeOK, Index, Counted

(* The commands of the host begin with all retries left.                   *)
LEMMA HostTried ==
  ASSUME TypeOK, Counted, Gathered, Tried, Host
  PROVE  Tried'
<1>1. waits = 0 /\ waits' = 0 /\ pc = "idle" /\ response_value = "zero" /\ ~ mismatch
  BY DEF Host, DAP_TransferConfigure, DAP_SWD_Transfer, DAP_SWD_TransferBlock,
         DAP_Dummy_Transfer, DAP_SWD_WriteAbort, Begin, Tried, Gathered, tgtVars
<1>2. response_value' = "zero"
  BY <1>1 DEF Host, DAP_TransferConfigure, DAP_SWD_Transfer, DAP_SWD_TransferBlock,
              DAP_Dummy_Transfer, DAP_SWD_WriteAbort, Begin, devVars
<1>t. (TypeOK /\ Counted)'
  BY HostTyped
<1>n. transfer'.retry_count \in Nat
  <2>1. transfer' \in [retry_count : RetryCounts, match_retry : MatchRetries]
    BY <1>t DEF TypeOK
  <2> QED BY <2>1, TransferAssumption
<1>3. pc' \in Loops => retry' = transfer'.retry_count
  <2>1. CASE pc' = "idle" \/ pc' = "done" \/ pc' = "fetch"
    BY <2>1 DEF Loops
  <2>2. CASE pc' # "idle" /\ pc' # "done" /\ pc' # "fetch"
    <3>1. PICK kind \in BlockKind, n \in Index : DAP_SWD_TransferBlock(kind, n)
      BY <1>1, <2>2 DEF Host, DAP_TransferConfigure, DAP_SWD_Transfer, Begin,
                        DAP_Dummy_Transfer, DAP_SWD_WriteAbort
    <3> QED BY <3>1 DEF DAP_SWD_TransferBlock, Begin
  <2> QED BY <2>1, <2>2
<1> QED BY <1>1, <1>2, <1>3, <1>n DEF Tried, Succeeded

(* A loop counts one retry for one WAIT, and is left when none is left.    *)
LEMMA DeviceTried ==
  ASSUME TypeOK, Counted, Gathered, Tried, Device
  PROVE  Tried'
<1> USE Counts
<1>o. ASSUME SWD_Transfer("OK") PROVE waits' = 0
  BY <1>o DEF SWD_Transfer
<1>s. ASSUME UNCHANGED transfer, waits' = 0, response_value' # "WAIT",
             pc' \in Loops => retry' = transfer.retry_count
      PROVE  Tried'
  BY <1>s DEF Tried
<1>1. CASE WaitAgain
  <2>1. /\ pc \in Loops /\ UNCHANGED <<pc, transfer>> /\ retry' = retry - 1
        /\ waits' = waits + 1 /\ retry > 0
    BY <1>1 DEF WaitAgain, Again, SWD_Transfer
  <2> QED BY <2>1 DEF Tried, Loops
<1>2. CASE Fail
  <2>1. PICK ack \in Answers \ {"OK"} :
          ~ Again(ack) /\ SWD_Transfer(ack) /\ response_value' = ack
    BY <1>2 DEF Fail
  <2>2. pc \in Loops /\ UNCHANGED <<transfer, retry>> /\ pc' \in {"cancel", "done"}
    BY <1>2 DEF Fail
  <2>3. CASE ack = "WAIT"
    <3>1. waits' = waits + 1 /\ retry = 0
      BY <2>1, <2>3 DEF Again, SWD_Transfer
    <3> QED BY <2>1, <2>2, <3>1 DEF Tried, Loops, Succeeded
  <2>4. CASE ack # "WAIT"
    BY <2>1, <2>2, <2>4 DEF Tried, Loops, SWD_Transfer
  <2> QED BY <2>3, <2>4
<1>3. CASE Fetch
  <2>1. /\ pc = "fetch" /\ UNCHANGED <<transfer, waits, response_value>>
        /\ pc' \in Loops => retry' = transfer.retry_count
    BY <1>3 DEF Fetch, tgtVars, Loops
  <2> QED BY <2>1, <1>s DEF Tried
<1>4. CASE Start
  <2>1. /\ pc = "start" /\ UNCHANGED <<transfer, waits>>
        /\ response_value' \in {"OK", response_value} /\ retry' = transfer.retry_count
    BY <1>4 DEF Start, tgtVars
  <2> QED BY <2>1, <1>s DEF Tried
<1>5. CASE Poll
  <2>1. SWD_Transfer("OK") /\ response_value' = "OK" /\ UNCHANGED transfer
    BY <1>5 DEF Poll, Succeed
  <2>2. pc' \in Loops => retry' = transfer.retry_count
    BY <1>5 DEF Poll, Complete, Loops
  <2> QED BY <2>1, <2>2, <1>o, <1>s
<1>6. CASE Flush \/ Post \/ Read \/ Write \/ Drain \/ Verify \/ BlockPost \/ BlockRead \/ BlockWrite
  <2>1. SWD_Transfer("OK") /\ response_value' = "OK" /\ UNCHANGED transfer
    BY <1>6 DEF Flush, Post, Read, Write, Drain, Verify, BlockPost, BlockRead, BlockWrite, Succeed
  <2>2. pc' \in Loops => retry' = transfer.retry_count
    BY <1>6 DEF Flush, Post, Read, Write, Drain, Verify, BlockPost, BlockRead, BlockWrite,
                Succeed, Complete, NextOfBlock, Loops
  <2> QED BY <2>1, <2>2, <1>o, <1>s
<1>7. CASE Cancel
  BY <1>7 DEF Cancel, tgtVars, Tried, Loops, Succeeded
<1>8. CASE Finish
  <2>1. /\ pc = "cancel" /\ pc' = Ending /\ retry' = transfer.retry_count
        /\ UNCHANGED <<transfer, response_value, mismatch, waits>>
    BY <1>8 DEF Finish, tgtVars
  <2>2. Ending \in {"drain", "verify", "done"} /\ (Ending # "done" => Succeeded)
    BY DEF Ending, Succeeded
  <2> QED BY <2>1, <2>2 DEF Tried, Loops
<1>9. CASE Respond
  BY <1>9, <1>s DEF Respond, Loops
<1> QED BY <1>1, <1>2, <1>3, <1>4, <1>5, <1>6, <1>7, <1>8, <1>9 DEF Device

(* The probe asks at most retry_count times again, and reports WAIT only   *)
(* after having asked that often: whatever the counts the host sets.       *)
THEOREM PatienceBounded == Spec => []Patience
<1>1. Init => Tried
  BY DEF Init, Tried, Loops, Succeeded
<1>2. TypeOK /\ Counted /\ Gathered /\ Tried /\ [Next]_vars => Tried'
  <2> SUFFICES ASSUME TypeOK, Counted, Gathered, Tried, [Next]_vars PROVE Tried'
    OBVIOUS
  <2>1. CASE Next
    BY <2>1, HostTried, DeviceTried DEF Next
  <2>2. CASE UNCHANGED vars
    BY <2>2 DEF vars, devVars, tgtVars, Tried, Succeeded
  <2> QED BY <2>1, <2>2
<1>3. TypeOK /\ Counted /\ Tried => Patience
  BY Counts DEF TypeOK, Place, Tried, Patience
<1> QED BY <1>1, <1>2, <1>3, InvariantHolds, PTL DEF Spec

----------------------------------------------------------------------------
(* Errors.                                                                 *)

(* A request that cannot go wrong late leaves nothing to look at.          *)
LEMMA LateNext ==
  ASSUME NEW q, NEW n \in Nat, n > 0
  PROVE  /\ q[n] = "mask" /\ LateAt(q, n) => LateAt(q, n - 1)
         /\ q[n] \notin {"mask", "apRead", "write"} => ~ LateAt(q, n)
<1>1. ASSUME q[n] = "mask", LateAt(q, n) PROVE LateAt(q, n - 1)
  <2>1. PICK j \in 1 .. n : /\ q[j] \in {"apRead", "write"}
                            /\ \A a \in j + 1 .. n : q[a] = "mask"
    BY <1>1 DEF LateAt
  <2>2. j \in 1 .. n - 1
    BY <1>1, <2>1
  <2>3. \A a \in j + 1 .. n - 1 : q[a] = "mask"
    BY <2>1
  <2> QED BY <2>1, <2>2, <2>3 DEF LateAt
<1>2. ASSUME q[n] \notin {"mask", "apRead", "write"}, LateAt(q, n) PROVE FALSE
  <2>1. PICK j \in 1 .. n : /\ q[j] \in {"apRead", "write"}
                            /\ \A a \in j + 1 .. n : q[a] = "mask"
    BY <1>2 DEF LateAt
  <2>2. j < n
    BY <1>2, <2>1
  <2>3. n \in j + 1 .. n
    BY <2>1, <2>2
  <2> QED BY <1>2, <2>1, <2>3
<1> QED BY <1>1, <1>2

LEMMA LateNever == \A q : ~ LateAt(q, 0)
BY DEF LateAt

(* The commands of the host find nothing to look at.                       *)
LEMMA HostChecked ==
  ASSUME TypeOK, Counted, Gathered, Checked, Host
  PROVE  Checked'
<1>1. response_value = "zero" /\ pc = "idle" /\ i = 0
  BY DEF Host, DAP_TransferConfigure, DAP_SWD_Transfer, DAP_SWD_TransferBlock,
         DAP_Dummy_Transfer, DAP_SWD_WriteAbort, Begin, Gathered, Counted
<1>2. /\ response_value' = "zero" /\ pc' \notin {"start", "cancel"}
      /\ pc' = "fetch" => i' = 0
  <2>1. ASSUME NEW kind \in BlockKind, NEW n \in Index, DAP_SWD_TransferBlock(kind, n)
        PROVE  response_value' = "zero" /\ pc' \notin {"start", "cancel", "fetch"}
    <3>1. BlockLoop[kind] \in {"blockPost", "blockRead", "blockWrite"}
      BY DEF BlockLoop, BlockKind
    <3> QED BY <1>1, <2>1, <3>1 DEF DAP_SWD_TransferBlock, Begin
  <2>2. CASE \E q \in Requests : DAP_SWD_Transfer(q) \/ DAP_Dummy_Transfer(q)
    BY <1>1, <2>2 DEF DAP_SWD_Transfer, DAP_Dummy_Transfer, Begin
  <2>3. ASSUME NEW r, NEW m, DAP_TransferConfigure(r, m) \/ DAP_SWD_WriteAbort
        PROVE  response_value' = "zero" /\ pc' = "idle"
    BY <1>1, <2>3 DEF DAP_TransferConfigure, DAP_SWD_WriteAbort, devVars
  <2> QED BY <2>1, <2>2, <2>3 DEF Host
<1>3. Watched(0)'
  BY LateNever DEF Watched
<1> QED BY <1>2, <1>3 DEF Checked, Succeeded

(* The device lets no error of the last access pass.                       *)
LEMMA DeviceChecked ==
  ASSUME TypeOK, Counted, Gathered, Checked, Device
  PROVE  Checked'
<1> USE Counts
<1>r. ASSUME pc \in InList \cup InBlock
      PROVE  /\ i \in 1 .. Len(reqs) /\ reqs[i] \in Kind /\ i > 0 /\ i + left = Len(reqs) + 1
  BY <1>r DEF Counted, TypeOK
<1>c. ASSUME Complete
      PROVE  /\ pc' = "fetch"
             /\ check_write' = IF reqs[i] = "mask" THEN check_write ELSE reqs[i] = "write"
  BY <1>c DEF Complete
<1>o. ASSUME SWD_Transfer("OK"), AccessAt = "rdbuff" PROVE ~ sticky'
  BY <1>o DEF SWD_Transfer, Answers, Perform
<1>1. CASE WaitAgain
  BY <1>1 DEF WaitAgain, Checked, Loops
<1>2. CASE Fail
  BY <1>2 DEF Fail, Checked, Succeeded
<1>3. CASE Fetch
  <2>1. /\ Watched(i) /\ i + left = Len(reqs)
        /\ UNCHANGED <<reqs, post_read, check_write, sticky>>
    BY <1>3 DEF Fetch, Checked, Counted, tgtVars
  <2>2. CASE left = 0
    <3>1. pc' = "cancel" /\ i = Len(reqs)
      BY <1>3, <2>1, <2>2 DEF Fetch
    <3>2. Watched(Len(reqs))'
      BY <2>1, <3>1 DEF Watched
    <3> QED BY <3>1, <3>2 DEF Checked
  <2>3. CASE left # 0
    <3>1. pc' \in {"flush", "start"} /\ i' - 1 = i
      BY <1>3, <2>3 DEF Fetch
    <3>2. Watched(i - 1)'
      BY <2>1, <3>1 DEF Watched
    <3> QED BY <3>1, <3>2 DEF Checked
  <2> QED BY <2>2, <2>3
<1>4. CASE Flush
  <2>1. /\ pc = "flush" /\ pc' = "start" /\ SWD_Transfer("OK")
        /\ post_read' = (AccessAt = "apRead")
    BY <1>4 DEF Flush, Succeed
  <2>2. AccessAt \in {"apRead", "rdbuff"}
    BY <2>1 DEF AccessAt
  <2>3. post_read' \/ ~ sticky'
    BY <2>1, <2>2, <1>o
  <2> QED BY <2>1, <2>3 DEF Checked, Watched
<1>5. CASE Start
  <2>1. /\ pc = "start" /\ Watched(i - 1)
        /\ UNCHANGED <<reqs, i, post_read, sticky>>
    BY <1>5 DEF Start, Checked, tgtVars
  <2>2. CASE post_read
    <3>1. pc' = "fetch" /\ Watched(i)'
      BY <1>5, <1>c, <2>1, <2>2 DEF Start, Watched
    <3> QED BY <3>1 DEF Checked
  <2>3. CASE ~ post_read /\ reqs[i] = "mask"
    <3>1. pc' = "fetch" /\ check_write' = check_write
      BY <1>5, <1>c, <2>3 DEF Start
    <3>2. LateAt(reqs, i) => LateAt(reqs, i - 1)
      BY <2>1, <2>3, <1>r, LateNext DEF InList
    <3>3. Watched(i)'
      BY <2>1, <3>1, <3>2 DEF Watched
    <3> QED BY <3>1, <3>3 DEF Checked
  <2>4. CASE ~ post_read /\ reqs[i] # "mask"
    <3>1. reqs[i] \in Kind
      BY <2>1, <1>r DEF InList
    <3>2. pc' \in {"post", "read", "poll", "write"}
      BY <1>5, <2>4, <3>1 DEF Start, Kind, OnAP
    <3> QED BY <3>2 DEF Checked
  <2> QED BY <2>2, <2>3, <2>4
<1>6. CASE Post
  <2>1. CASE Matches(reqs[i])
    BY <1>6, <2>1 DEF Post, Checked
  <2>2. CASE ~ Matches(reqs[i])
    <3>1. pc' = "fetch" /\ post_read'
      BY <1>6, <1>c, <2>2 DEF Post
    <3> QED BY <3>1 DEF Checked, Watched
  <2> QED BY <2>1, <2>2
<1>7. CASE Read
  <2>1. pc = "read" /\ pc' = "fetch" /\ UNCHANGED <<reqs, i>> /\ reqs[i] = "dpRead"
    BY <1>7, <1>c DEF Read, Succeed, Gathered
  <2>2. ~ LateAt(reqs, i)
    BY <2>1, <1>r, LateNext DEF InList
  <2> QED BY <2>1, <2>2 DEF Checked, Watched
<1>8. CASE Poll
  <2>1. pc = "poll" /\ UNCHANGED <<reqs, i>> /\ Matches(reqs[i])
    BY <1>8 DEF Poll, Succeed, Gathered
  <2>2. ~ LateAt(reqs, i)
    BY <2>1, <1>r, LateNext DEF InList, Matches
  <2>3. pc' = "fetch" \/ pc' = pc \/ (pc' = "cancel" /\ mismatch')
    BY <1>8, <1>c DEF Poll
  <2> QED BY <2>1, <2>2, <2>3 DEF Checked, Watched, Succeeded
<1>9. CASE Write
  <2>1. pc = "write" /\ pc' = "fetch" /\ check_write'
    BY <1>9, <1>c DEF Write, Succeed, Gathered
  <2> QED BY <2>1 DEF Checked, Watched
<1>10. CASE Cancel
  BY <1>10 DEF Cancel, tgtVars, Checked, Watched, Succeeded
<1>11. CASE Finish
  <2>1. /\ pc = "cancel" /\ pc' = Ending
        /\ UNCHANGED <<reqs, post_read, check_write, response_value, mismatch, sticky>>
    BY <1>11 DEF Finish, tgtVars
  <2>2. pc' = "done" /\ Succeeded' => Succeeded /\ ~ post_read /\ ~ check_write
    BY <2>1 DEF Ending, Succeeded
  <2>3. pc' = "done" /\ Succeeded' => (LateAt(reqs', Len(reqs')) => ~ sticky')
    BY <2>1, <2>2 DEF Checked, Watched
  <2>4. pc' \in {"done", "drain", "verify"}
    BY <2>1 DEF Ending
  <2> QED BY <2>3, <2>4 DEF Checked
<1>12. CASE Drain \/ Verify
  <2>1. pc \in {"drain", "verify"} /\ SWD_Transfer("OK") /\ pc' = "done"
    BY <1>12 DEF Drain, Verify, Succeed
  <2>2. AccessAt = "rdbuff"
    BY <2>1 DEF AccessAt
  <2> QED BY <2>1, <2>2, <1>o DEF Checked
<1>13. CASE BlockPost \/ BlockWrite
  <2>1. pc' \in {"blockRead", "blockWrite", "verify"}
    BY <1>13 DEF BlockPost, BlockWrite, Succeed, NextOfBlock
  <2> QED BY <2>1 DEF Checked
<1>14. CASE BlockRead
  <2>1. /\ pc = "blockRead" /\ SWD_Transfer("OK") /\ UNCHANGED reqs
        /\ pc' = IF left = 1 THEN "done" ELSE "blockRead"
    BY <1>14 DEF BlockRead, NextOfBlock, Succeed
  <2>2. CASE left # 1
    BY <2>1, <2>2 DEF Checked
  <2>3. CASE left = 1
    <3>1. i = Len(reqs) /\ i > 0 /\ reqs[i] \in {"dpRead", "apRead"}
      BY <2>1, <2>3, <1>r DEF Counted, InBlock, Reads
    <3>2. CASE reqs[i] = "apRead"
      <4>1. AccessAt = "rdbuff"
        BY <2>1, <3>1, <3>2 DEF AccessAt, OnAP
      <4> QED BY <2>1, <2>3, <4>1, <1>o DEF Checked
    <3>3. CASE reqs[i] = "dpRead"
      <4>1. ~ LateAt(reqs, Len(reqs))
        BY <3>1, <3>3, LateNext
      <4> QED BY <2>1, <2>3, <4>1 DEF Checked
    <3> QED BY <3>1, <3>2, <3>3
  <2> QED BY <2>2, <2>3
<1>15. CASE Respond
  BY <1>15 DEF Respond, Checked
<1> QED BY <1>1, <1>2, <1>3, <1>4, <1>5, <1>6, <1>7, <1>8, <1>9, <1>10, <1>11, <1>12,
           <1>13, <1>14, <1>15 DEF Device

(* OK for a command whose last access is a plain AP read or a write means  *)
(* that the target has no error, for lists and blocks of any length.       *)
THEOREM ErrorsAlwaysSurface == Spec => []ErrorsSurface
<1>1. Init => Checked
  BY DEF Init, Checked
<1>2. TypeOK /\ Counted /\ Gathered /\ Checked /\ [Next]_vars => Checked'
  <2> SUFFICES ASSUME TypeOK, Counted, Gathered, Checked, [Next]_vars PROVE Checked'
    OBVIOUS
  <2>1. CASE Next
    BY <2>1, HostChecked, DeviceChecked DEF Next
  <2>2. CASE UNCHANGED vars
    BY <2>2 DEF vars, devVars, tgtVars, Checked, Watched, Succeeded
  <2> QED BY <2>1, <2>2
<1>3. Checked => ErrorsSurface
  BY DEF Checked, ErrorsSurface, EndsLate, LateAt, Succeeded
<1> QED BY <1>1, <1>2, <1>3, InvariantHolds, PTL DEF Spec

----------------------------------------------------------------------------
(* Accesses.                                                               *)

LEMMA AccessReads ==
  ASSUME TypeOK, NEW j \in 1 .. Len(reqs)
  PROVE  Reads(Access(reqs)[j]) <=> reqs[j] # "mask"
<1>1. j \in DOMAIN reqs
  BY LenProperties DEF TypeOK
<1> QED BY <1>1 DEF Access, Reads

(* The next access goes to the end of the log.                             *)
LEMMA DoneNext ==
  ASSUME TypeOK, NEW n \in 1 .. Len(reqs), n - 1 \in Nat, reqs[n] # "mask", Done(n - 1)
  PROVE  Holds(Append(log, n), Access(reqs), n)
<1>1. log \in Seq(Index) /\ n \in Index /\ n \in Nat
  BY TransferAssumption DEF TypeOK, Index
<1>2. n - 1 < n /\ \A j \in (n - 1) + 1 .. n - 1 : ~ Reads(Access(reqs)[j])
  BY <1>1
<1>3. Reads(Access(reqs)[n])
  BY AccessReads
<1> QED BY <1>1, <1>2, <1>3, HoldsNext DEF Done

(* A match mask is set without an access.                                  *)
LEMMA DoneMask ==
  ASSUME TypeOK, NEW n \in 1 .. Len(reqs), n - 1 \in Nat, reqs[n] = "mask", Done(n - 1)
  PROVE  Done(n)
<1>1. log \in Seq(Index) /\ n \in Nat
  BY DEF TypeOK
<1>2. n - 1 <= n /\ \A j \in (n - 1) + 1 .. n : ~ Reads(Access(reqs)[j])
  BY <1>1, AccessReads
<1> QED BY <1>1, <1>2, HoldsOn DEF Done

(* The last access in the log is that of the last request carried out.     *)
LEMMA DoneLast ==
  ASSUME TypeOK, NEW n \in 0 .. Len(reqs), Done(n)
  PROVE  /\ log # <<>> => log[Len(log)] \in 1 .. n
         /\ n > 0 /\ reqs[n] # "mask" => log # <<>> /\ log[Len(log)] = n
<1>1. log \in Seq(Index) /\ Len(log) \in Nat /\ (log # <<>> <=> Len(log) > 0)
  BY LenProperties, EmptySeq DEF TypeOK
<1>2. \A a \in 1 .. Len(log) : log[a] \in 1 .. n
  BY DEF Done, Holds
<1>3. ASSUME n > 0, reqs[n] # "mask" PROVE log # <<>> /\ log[Len(log)] = n
  <2>1. n \in 1 .. Len(reqs) /\ n \in 1 .. n
    BY <1>3
  <2>2. Reads(Access(reqs)[n])
    BY <1>3, <2>1, AccessReads
  <2>3. PICK b \in 1 .. Len(log) : log[b] = n
    BY <2>1, <2>2 DEF Done, Holds
  <2>4. ASSUME b # Len(log) PROVE FALSE
    <3>1. b < Len(log) /\ Len(log) \in 1 .. Len(log)
      BY <1>1, <2>4
    <3>2. log[b] < log[Len(log)]
      BY <3>1 DEF Done, Holds
    <3> QED BY <1>2, <2>3, <3>1, <3>2
  <2> QED BY <1>1, <2>3, <2>4
<1> QED BY <1>1, <1>2, <1>3

(* How far an acknowledged access brings the target.                       *)
Reached ==
  CASE pc = "flush"               -> IF reqs[i] = "apRead" THEN i ELSE i - 1
    [] pc \in {"drain", "verify"} -> response_count
    [] pc = "blockRead"           -> IF AccessAt = "apRead" THEN i + 1 ELSE i
    [] OTHER                      -> i

LEMMA AccessLogged ==
  ASSUME TypeOK, Counted, Gathered, CarriedOut, pc \in Loops,
         NEW ack \in {"OK", "PARITY"}, SWD_Transfer(ack)
  PROVE  Holds(log', Access(reqs), Reached)
<1> USE Counts
<1>r. ASSUME pc \in InList \cup InBlock
      PROVE  i \in 1 .. Len(reqs) /\ i - 1 \in Nat /\ i \in 0 .. Len(reqs) /\ i - 1 \in 0 .. Len(reqs)
  BY <1>r DEF Counted
<1>l. log' = IF AccessAt = "rdbuff" \/ (pc = "poll" /\ log # <<>> /\ log[Len(log)] = i)
              THEN log ELSE Append(log, AccessFor)
  BY DEF SWD_Transfer, Perform
<1>1. CASE pc = "flush"
  <2>1. AccessAt = IF reqs[i] = "apRead" THEN "apRead" ELSE "rdbuff"
    BY <1>1 DEF AccessAt
  <2>2. Done(i - 1) /\ AccessFor = i
    BY <1>1 DEF CarriedOut, AccessFor
  <2>3. CASE reqs[i] = "apRead"
    BY <1>1, <1>l, <1>r, <2>1, <2>2, <2>3, DoneNext DEF Reached, InList
  <2>4. CASE reqs[i] # "apRead"
    BY <1>1, <1>l, <2>1, <2>2, <2>4 DEF Reached, Done
  <2> QED BY <2>3, <2>4
<1>2. CASE pc \in {"post", "read", "write", "blockWrite"}
  <2>1. AccessAt # "rdbuff" /\ AccessFor = i /\ Reached = i
    BY <1>2 DEF AccessAt, AccessFor, Reached
  <2>2. Done(i - 1)
    BY <1>2 DEF CarriedOut
  <2>3. i \in 1 .. Len(reqs) /\ i - 1 \in Nat /\ reqs[i] # "mask"
    BY <1>2, <1>r DEF Gathered, Counted, InList, InBlock, OnAP
  <2> QED BY <1>2, <1>l, <2>1, <2>2, <2>3, DoneNext
<1>3. CASE pc = "poll"
  <2>1. AccessAt # "rdbuff" /\ AccessFor = i /\ Reached = i
    BY <1>3 DEF AccessAt, AccessFor, Reached
  <2>2. i \in 1 .. Len(reqs) /\ i - 1 \in Nat /\ i - 1 \in 0 .. Len(reqs) /\ i \in 0 .. Len(reqs)
    BY <1>3, <1>r DEF InList
  <2>3. reqs[i] # "mask"
    BY <1>3 DEF Gathered, Matches
  <2>4. CASE Done(i)
    <3>1. log # <<>> /\ log[Len(log)] = i
      BY <2>2, <2>3, <2>4, DoneLast
    <3> QED BY <1>3, <1>l, <2>1, <2>4, <3>1 DEF Done
  <2>5. CASE Done(i - 1)
    <3>1. log # <<>> => log[Len(log)] # i
      BY <2>2, <2>5, DoneLast
    <3> QED BY <1>3, <1>l, <2>1, <2>2, <2>3, <2>5, <3>1, DoneNext
  <2> QED BY <1>3, <2>4, <2>5 DEF CarriedOut
<1>4. CASE pc \in {"drain", "verify"}
  <2>1. AccessAt = "rdbuff" /\ Reached = response_count
    BY <1>4 DEF AccessAt, Reached
  <2> QED BY <1>4, <1>l, <2>1 DEF CarriedOut, Done
<1>5. CASE pc = "blockPost"
  <2>1. AccessAt = "apRead" /\ AccessFor = i /\ Reached = i /\ i = 1 /\ log = <<>>
    BY <1>5 DEF AccessAt, AccessFor, Reached, Gathered, CarriedOut
  <2>2. Done(i - 1)
    BY <2>1, HoldsNothing DEF Done
  <2>3. i \in 1 .. Len(reqs) /\ i - 1 \in Nat /\ reqs[i] # "mask"
    BY <1>5, <1>r DEF Counted, InBlock
  <2> QED BY <1>5, <1>l, <2>1, <2>2, <2>3, DoneNext
<1>6. CASE pc = "blockRead"
  <2>1. /\ i \in 1 .. Len(reqs) /\ i - 1 \in Nat /\ reqs[i] \in {"apRead", "dpRead"}
        /\ \A j \in 1 .. Len(reqs) : reqs[j] = reqs[i]
    BY <1>6, <1>r DEF Counted, InBlock, Reads
  <2>2. CASE reqs[i] = "dpRead"
    <3>1. AccessAt = "dpRead" /\ AccessFor = i /\ Reached = i /\ Done(i - 1)
      BY <1>6, <2>2 DEF AccessAt, AccessFor, Reached, CarriedOut, OnAP
    <3> QED BY <1>6, <1>l, <2>1, <2>2, <3>1, DoneNext
  <2>3. CASE reqs[i] = "apRead" /\ i = Len(reqs)
    <3>1. AccessAt = "rdbuff" /\ Reached = i /\ Done(i)
      BY <1>6, <2>3 DEF AccessAt, Reached, CarriedOut, OnAP
    <3> QED BY <1>l, <3>1 DEF Done
  <2>4. CASE reqs[i] = "apRead" /\ i # Len(reqs)
    <3>1. AccessAt = "apRead" /\ AccessFor = i + 1 /\ Reached = i + 1 /\ Done(i)
      BY <1>6, <2>4 DEF AccessAt, AccessFor, Reached, CarriedOut, OnAP
    <3>2. i + 1 \in 1 .. Len(reqs) /\ (i + 1) - 1 = i
      BY <2>1, <2>4
    <3>3. reqs[i + 1] # "mask"
      BY <2>1, <2>4, <3>2
    <3> QED BY <1>6, <1>l, <3>1, <3>2, <3>3, DoneNext
  <2> QED BY <2>1, <2>2, <2>3, <2>4
<1> QED BY <1>1, <1>2, <1>3, <1>4, <1>5, <1>6 DEF Loops

(* A command of the host begins with an empty log.                         *)
LEMMA HostLogged ==
  ASSUME TypeOK, Counted, Gathered, CarriedOut, Host
  PROVE  CarriedOut'
<1>1. /\ pc = "idle" /\ log = <<>> /\ log' = <<>> /\ i = 0 /\ response_count = 0
      /\ ~ post_read /\ UNCHANGED <<response_count, post_read>>
  BY DEF Host, DAP_TransferConfigure, DAP_SWD_Transfer, DAP_SWD_TransferBlock,
         DAP_Dummy_Transfer, DAP_SWD_WriteAbort, Begin, CarriedOut, Gathered, Counted,
         devVars, tgtVars
<1>t. (TypeOK /\ Counted)'
  BY HostTyped
<1>2. Done(0)'
  BY <1>1, HoldsNothing DEF Done
<1>3. \E n \in 0 .. Len(reqs') :
        Done(n)' /\ response_count' <= n /\ n <= response_count' /\ n = response_count'
  <2>1. 0 \in 0 .. Len(reqs')
    BY <1>t, TransferAssumption DEF TypeOK, Index
  <2> QED BY <1>1, <1>2, <2>1
<1>4. \E n \in 0 .. Len(reqs') :
        /\ Done(n)' /\ response_count' <= n
        /\ n <= response_count' + 2 /\ n <= response_count' + 1
        /\ n = response_count'
  BY <1>1, <1>3
<1>5. ASSUME NEW kind \in BlockKind, NEW n \in Index, DAP_SWD_TransferBlock(kind, n)
      PROVE  CarriedOut'
  <2>1. CASE n = 0
    <3>1. pc' = "done"
      BY <1>5, <2>1 DEF DAP_SWD_TransferBlock, Begin
    <3> QED BY <1>4, <3>1 DEF CarriedOut
  <2>2. CASE n # 0
    <3>1. /\ i' = 1 /\ pc' \in {"blockPost", "blockRead", "blockWrite"}
          /\ pc' = "blockRead" => kind = "dpRead"
          /\ reqs' = [j \in 1 .. n |-> kind]
      BY <1>5, <2>2 DEF DAP_SWD_TransferBlock, Begin, BlockLoop, BlockKind
    <3>2. n \in Nat /\ 1 \in 1 .. n
      BY <2>2 DEF Index
    <3>3. pc' = "blockRead" => reqs'[i'] # "apRead"
      BY <3>1, <3>2
    <3>4. Done(i - 1)'
      BY <1>2, <3>1
    <3> QED BY <1>1, <3>1, <3>3, <3>4 DEF CarriedOut
  <2> QED BY <2>1, <2>2
<1>6. ASSUME NEW q \in Requests, DAP_SWD_Transfer(q)
      PROVE  CarriedOut'
  <2>1. pc' = "fetch" /\ i' = 0
    BY <1>6 DEF DAP_SWD_Transfer, Begin
  <2> QED BY <1>2, <2>1 DEF CarriedOut
<1>7. ASSUME NEW q \in Requests, DAP_Dummy_Transfer(q)
      PROVE  CarriedOut'
  <2>1. pc' = "done"
    BY <1>7 DEF DAP_Dummy_Transfer
  <2> QED BY <1>4, <2>1 DEF CarriedOut
<1>8. ASSUME NEW r, NEW m, DAP_TransferConfigure(r, m) \/ DAP_SWD_WriteAbort
      PROVE  CarriedOut'
  <2>1. pc' = "idle"
    BY <1>1, <1>8 DEF DAP_TransferConfigure, DAP_SWD_WriteAbort
  <2> QED BY <1>1, <2>1 DEF CarriedOut
<1> QED BY <1>5, <1>6, <1>7, <1>8 DEF Host

(* The device makes the accesses of a command once and in their order.     *)
LEMMA DeviceLogged ==
  ASSUME TypeOK, Counted, Gathered, CarriedOut, Device
  PROVE  CarriedOut'
<1> USE Counts
<1>r. ASSUME pc \in InList \cup InBlock
      PROVE  /\ i \in 1 .. Len(reqs) /\ i - 1 \in Nat /\ reqs[i] \in Kind
             /\ i \in 0 .. Len(reqs) /\ i - 1 \in 0 .. Len(reqs)
             /\ i + left = Len(reqs) + 1 /\ response_count = i - 1
  BY <1>r DEF Counted, TypeOK
<1>c. ASSUME Complete PROVE pc' = "fetch"
  BY <1>c DEF Complete
<1>w. ASSUME NEW ack, SWD_Transfer(ack), ack \notin {"OK", "PARITY"} PROVE log' = log
  BY <1>w DEF SWD_Transfer
<1>1. CASE WaitAgain
  <2>1. pc \in Loops /\ UNCHANGED <<pc, reqs, i, response_count>>
    BY <1>1 DEF WaitAgain
  <2>2. log' = log
    BY <1>1, <1>w DEF WaitAgain, Again
  <2> QED BY <2>1, <2>2 DEF CarriedOut, Done, Loops
<1>2. CASE Fail
  <2>1. PICK ack \in Answers \ {"OK"} : SWD_Transfer(ack) /\ response_value' = ack
    BY <1>2 DEF Fail
  <2>2. /\ pc \in Loops /\ UNCHANGED <<reqs, response_count>>
        /\ pc' = IF pc \in {"flush", "post", "read", "poll", "write"} THEN "cancel" ELSE "done"
    BY <1>2 DEF Fail
  <2>3. \E n \in 0 .. Len(reqs) :
          /\ Holds(log', Access(reqs), n) /\ response_count <= n
          /\ n <= response_count + (IF pc = "blockRead" THEN 2 ELSE 1)
    <3>1. CASE ack = "PARITY"
      <4>1. Holds(log', Access(reqs), Reached)
        BY <2>1, <2>2, <3>1, AccessLogged
      <4>2. /\ Reached \in 0 .. Len(reqs) /\ response_count <= Reached
            /\ Reached <= response_count + (IF pc = "blockRead" THEN 2 ELSE 1)
        <5>1. CASE pc \in {"drain", "verify"}
          BY <5>1 DEF Reached
        <5>2. CASE pc = "blockRead"
          <6>1. i \in 1 .. Len(reqs) /\ response_count = i - 1
            BY <5>2, <1>r DEF InBlock
          <6>2. AccessAt = "apRead" => i # Len(reqs)
            BY <5>2 DEF AccessAt, OnAP
          <6>3. Reached = IF AccessAt = "apRead" THEN i + 1 ELSE i
            BY <5>2 DEF Reached
          <6> QED BY <5>2, <6>1, <6>2, <6>3
        <5>3. CASE pc \notin {"drain", "verify", "blockRead"}
          <6>1. i \in 1 .. Len(reqs) /\ response_count = i - 1
            BY <2>2, <5>3, <1>r DEF Loops, InList, InBlock
          <6>2. Reached = i \/ Reached = i - 1
            BY <5>3 DEF Reached
          <6> QED BY <5>3, <6>1, <6>2
        <5> QED BY <5>1, <5>2, <5>3
      <4> QED BY <4>1, <4>2
    <3>2. CASE ack # "PARITY"
      <4>1. log' = log
        BY <2>1, <3>2, <1>w
      <4>2. CASE pc \in {"drain", "verify"}
        BY <4>1, <4>2 DEF CarriedOut, Done
      <4>3. CASE pc = "blockPost"
        <5>1. Done(0) /\ response_count = 0
          BY <4>3, <1>r, HoldsNothing DEF CarriedOut, Gathered, Done, InBlock
        <5> QED BY <4>1, <4>3, <5>1 DEF Done
      <4>4. CASE pc \notin {"drain", "verify", "blockPost"}
        <5>1. /\ i \in 1 .. Len(reqs) /\ response_count = i - 1
              /\ i \in 0 .. Len(reqs) /\ i - 1 \in 0 .. Len(reqs)
          BY <2>2, <4>4, <1>r DEF Loops, InList, InBlock
        <5>2. Done(i) \/ Done(i - 1)
          BY <2>2, <4>4 DEF CarriedOut, Loops
        <5> QED BY <4>1, <5>1, <5>2 DEF Done
      <4> QED BY <4>2, <4>3, <4>4
    <3> QED BY <3>1, <3>2
  <2>4. \E n \in 0 .. Len(reqs') :
          /\ Done(n)' /\ response_count' <= n
          /\ n <= response_count' + (IF pc' = "done" THEN 2 ELSE 1)
    BY <2>2, <2>3 DEF Done
  <2>5. ~ Succeeded'
    BY <2>1 DEF Succeeded
  <2> QED BY <2>2, <2>4, <2>5 DEF CarriedOut
<1>3. CASE Fetch
  <2>1. /\ Done(i) /\ UNCHANGED <<reqs, log, post_read, response_count>>
        /\ i + left = Len(reqs) /\ response_count = i
    BY <1>3 DEF Fetch, CarriedOut, Counted, tgtVars
  <2>2. CASE left = 0
    <3>1. pc' = "cancel" /\ response_count \in 0 .. Len(reqs) /\ Done(response_count)'
      BY <1>3, <2>1, <2>2 DEF Fetch, Done
    <3> QED BY <2>1, <3>1 DEF CarriedOut
  <2>3. CASE left # 0
    <3>1. i' - 1 = i /\ pc' = IF post_read THEN "flush" ELSE "start"
      BY <1>3, <2>3 DEF Fetch
    <3>2. Done(i - 1)'
      BY <2>1, <3>1 DEF Done
    <3> QED BY <2>1, <3>1, <3>2 DEF CarriedOut
  <2> QED BY <2>2, <2>3
<1>4. CASE Flush
  <2>1. /\ pc = "flush" /\ pc' = "start" /\ SWD_Transfer("OK") /\ UNCHANGED <<reqs, i>>
        /\ post_read' = (AccessAt = "apRead")
    BY <1>4 DEF Flush, Succeed
  <2>2. AccessAt = IF reqs[i] = "apRead" THEN "apRead" ELSE "rdbuff"
    BY <2>1 DEF AccessAt
  <2>3. Holds(log', Access(reqs), IF reqs[i] = "apRead" THEN i ELSE i - 1)
    BY <2>1, AccessLogged DEF Loops, Reached
  <2>4. Holds(log', Access(reqs'), IF post_read' THEN i' ELSE i' - 1)
    BY <2>1, <2>2, <2>3
  <2> QED BY <2>1, <2>4 DEF CarriedOut, Done
<1>5. CASE Start
  <2>1. /\ pc = "start" /\ UNCHANGED <<reqs, i, post_read, log>>
        /\ i \in 1 .. Len(reqs) /\ i - 1 \in Nat /\ reqs[i] \in Kind
    BY <1>5, <1>r DEF Start, tgtVars, InList
  <2>2. CASE post_read \/ reqs[i] = "mask"
    <3>1. pc' = "fetch"
      BY <1>5, <1>c, <2>2 DEF Start
    <3>2. CASE post_read
      BY <2>1, <3>1, <3>2 DEF CarriedOut, Done
    <3>3. CASE ~ post_read
      <4>1. Done(i)
        BY <2>1, <2>2, <3>3, DoneMask DEF CarriedOut
      <4> QED BY <2>1, <3>1, <4>1 DEF CarriedOut, Done
    <3> QED BY <3>2, <3>3
  <2>3. CASE ~ post_read /\ reqs[i] # "mask"
    <3>1. pc' \in {"post", "read", "poll", "write"}
      BY <1>5, <2>1, <2>3 DEF Start, Kind, OnAP
    <3>2. Done(i - 1)'
      BY <2>1, <2>3 DEF CarriedOut, Done
    <3> QED BY <3>1, <3>2 DEF CarriedOut
  <2> QED BY <2>2, <2>3
<1>6. CASE Post \/ Read \/ Write
  <2>1. /\ pc \in {"post", "read", "write"} /\ SWD_Transfer("OK") /\ UNCHANGED <<reqs, i>>
        /\ pc' \in {"poll", "fetch"}
    BY <1>6, <1>c DEF Post, Read, Write, Succeed
  <2>2. Holds(log', Access(reqs), i)
    BY <2>1, AccessLogged DEF Loops, Reached
  <2> QED BY <2>1, <2>2 DEF CarriedOut, Done
<1>7. CASE Poll
  <2>1. /\ pc = "poll" /\ SWD_Transfer("OK") /\ UNCHANGED <<reqs, i>>
    BY <1>7 DEF Poll, Succeed
  <2>2. Holds(log', Access(reqs), i)
    BY <2>1, AccessLogged DEF Loops, Reached
  <2>3. Done(i)'
    BY <2>1, <2>2 DEF Done
  <2>4. CASE pc' \in {"fetch", "poll"}
    BY <2>1, <2>3, <2>4 DEF CarriedOut
  <2>5. CASE pc' = "cancel" /\ mismatch' = TRUE /\ UNCHANGED response_count
    <3>1. i' \in 0 .. Len(reqs') /\ response_count' <= i' /\ i' <= response_count' + 1
      BY <2>1, <2>5, <1>r DEF InList
    <3> QED BY <2>3, <2>5, <3>1 DEF CarriedOut, Succeeded
  <2> QED BY <1>7, <1>c, <2>1, <2>4, <2>5 DEF Poll
<1>8. CASE Cancel
  BY <1>8 DEF Cancel, tgtVars, CarriedOut, Done, Succeeded
<1>9. CASE Finish
  <2>1. /\ pc = "cancel" /\ pc' = Ending
        /\ UNCHANGED <<reqs, response_count, response_value, mismatch, log>>
    BY <1>9 DEF Finish, tgtVars
  <2>2. PICK n \in 0 .. Len(reqs) :
          /\ Done(n) /\ response_count <= n /\ n <= response_count + 1
          /\ Succeeded => n = response_count
    BY <2>1 DEF CarriedOut
  <2>3. Done(n)' /\ n \in 0 .. Len(reqs') /\ n <= response_count' + 2 /\ response_count' <= n
    BY <2>1, <2>2 DEF Done
  <2>4. CASE Succeeded
    <3>1. pc' \in {"drain", "verify", "done"} /\ n = response_count'
      BY <2>1, <2>2, <2>4 DEF Ending
    <3> QED BY <2>3, <3>1 DEF CarriedOut
  <2>5. CASE ~ Succeeded
    <3>1. pc' = "done" /\ ~ Succeeded'
      BY <2>1, <2>5 DEF Ending, Succeeded
    <3> QED BY <2>3, <3>1 DEF CarriedOut
  <2> QED BY <2>4, <2>5
<1>10. CASE Drain \/ Verify
  <2>1. /\ pc \in {"drain", "verify"} /\ pc' = "done" /\ SWD_Transfer("OK")
        /\ UNCHANGED <<reqs, response_count>>
    BY <1>10 DEF Drain, Verify, Succeed
  <2>2. Holds(log', Access(reqs), response_count)
    BY <2>1, AccessLogged DEF Loops, Reached
  <2>3. Done(response_count)' /\ response_count' \in 0 .. Len(reqs')
    BY <2>1, <2>2 DEF Done
  <2> QED BY <2>1, <2>3 DEF CarriedOut
<1>11. CASE BlockPost
  <2>1. /\ pc = "blockPost" /\ pc' = "blockRead" /\ SWD_Transfer("OK") /\ UNCHANGED <<reqs, i>>
    BY <1>11 DEF BlockPost, Succeed
  <2>2. Holds(log', Access(reqs), i) /\ reqs[i] = "apRead"
    BY <2>1, <1>r, AccessLogged DEF Loops, Reached, InBlock, Counted
  <2> QED BY <2>1, <2>2 DEF CarriedOut, Done
<1>12. CASE BlockRead
  <2>1. /\ pc = "blockRead" /\ SWD_Transfer("OK") /\ UNCHANGED reqs
        /\ response_count' = response_count + 1
        /\ IF left = 1 THEN i' = i /\ pc' = "done" ELSE i' = i + 1 /\ pc' = "blockRead"
    BY <1>12 DEF BlockRead, NextOfBlock, Succeed
  <2>2. /\ i \in 1 .. Len(reqs) /\ i + left = Len(reqs) + 1 /\ response_count = i - 1
        /\ \A j \in 1 .. Len(reqs) : reqs[j] = reqs[i] /\ reqs[j] \in {"apRead", "dpRead"}
    BY <2>1, <1>r DEF InBlock, Counted, Reads
  <2>3. AccessAt = IF reqs[i] = "apRead" /\ i = Len(reqs) THEN "rdbuff" ELSE reqs[i]
    BY <2>1, <2>2 DEF AccessAt, OnAP
  <2>4. Holds(log', Access(reqs), IF AccessAt = "apRead" THEN i + 1 ELSE i)
    BY <2>1, AccessLogged DEF Loops, Reached
  <2>5. CASE left = 1
    <3>1. i = Len(reqs) /\ AccessAt # "apRead"
      BY <2>2, <2>3, <2>5
    <3>2. Done(i)' /\ i \in 0 .. Len(reqs') /\ response_count' = i
      BY <2>1, <2>2, <2>4, <3>1 DEF Done
    <3> QED BY <2>1, <2>5, <3>2 DEF CarriedOut
  <2>6. CASE left # 1
    <3>1. i + 1 \in 1 .. Len(reqs) /\ i # Len(reqs)
      BY <2>2, <2>6
    <3>2. reqs[i + 1] = reqs[i] /\ i' = i + 1 /\ pc' = "blockRead"
      BY <2>1, <2>2, <2>6, <3>1
    <3>3. Holds(log', Access(reqs), IF reqs[i] = "apRead" THEN i + 1 ELSE (i + 1) - 1)
      BY <2>2, <2>3, <2>4, <3>1
    <3>4. Holds(log', Access(reqs'), IF reqs'[i'] = "apRead" THEN i' ELSE i' - 1)
      BY <2>1, <3>2, <3>3
    <3> QED BY <3>2, <3>4 DEF CarriedOut, Done
  <2> QED BY <2>5, <2>6
<1>13. CASE BlockWrite
  <2>1. /\ pc = "blockWrite" /\ SWD_Transfer("OK") /\ UNCHANGED reqs
        /\ response_count' = response_count + 1
        /\ IF left = 1 THEN i' = i /\ pc' = "verify" ELSE i' = i + 1 /\ pc' = "blockWrite"
    BY <1>13 DEF BlockWrite, NextOfBlock, Succeed
  <2>2. Holds(log', Access(reqs), i)
    BY <2>1, AccessLogged DEF Loops, Reached
  <2>3. response_count' = i /\ (i + 1) - 1 = i
    BY <2>1, <1>r DEF InBlock
  <2>4. IF left = 1 THEN Done(response_count)' ELSE Done(i - 1)'
    BY <2>1, <2>2, <2>3 DEF Done
  <2> QED BY <2>1, <2>4 DEF CarriedOut
<1>14. CASE Respond
  BY <1>14 DEF Respond, CarriedOut
<1> QED BY <1>1, <1>2, <1>3, <1>4, <1>5, <1>6, <1>7, <1>8, <1>9, <1>10, <1>11, <1>12,
           <1>13, <1>14 DEF Device

(* A log that reaches n, no less than is counted, is as it should be.      *)
LEMMA DoneExecuted ==
  ASSUME TypeOK, Counted, NEW n \in 0 .. Len(reqs), Done(n), response_count <= n,
         n <= response_count + (IF pc \in {"blockRead", "done"} THEN 2 ELSE 1)
  PROVE  Executed
<1> USE Counts
<1>1. log \in Seq(Index) /\ Len(log) \in Nat /\ 1 .. n \subseteq 1 .. Len(reqs)
  BY DEF TypeOK
<1>2. \A a \in 1 .. Len(log) : log[a] \in 1 .. n /\ Reads(Access(reqs)[log[a]])
  BY DEF Done, Holds
<1>3. \A a \in 1 .. Len(log) : log[a] \in 1 .. Len(reqs) /\ reqs[log[a]] # "mask"
  BY <1>1, <1>2, AccessReads
<1>4. \A a, b \in 1 .. Len(log) : a < b => log[a] < log[b]
  BY DEF Done, Holds
<1>5. ASSUME NEW j \in 1 .. response_count, reqs[j] # "mask"
      PROVE  \E a \in 1 .. Len(log) : log[a] = j
  <2>1. j \in 1 .. n /\ j \in 1 .. Len(reqs)
    OBVIOUS
  <2>2. Reads(Access(reqs)[j])
    BY <1>5, <2>1, AccessReads
  <2> QED BY <2>1, <2>2 DEF Done, Holds
<1>6. \A a \in 1 .. Len(log) :
        log[a] <= response_count + (IF pc \in {"blockRead", "done"} THEN 2 ELSE 1)
  BY <1>2
<1> QED BY <1>3, <1>4, <1>5, <1>6 DEF Executed

(* The target carries out the requests of a command in order and none      *)
(* twice, all those the response counts and at most one more, two in a     *)
(* block of AP reads: for commands of any length and any target.           *)
THEOREM ExecutedAsCounted == Spec => []Executed
<1>1. Init => CarriedOut
  BY DEF Init, CarriedOut
<1>2. TypeOK /\ Counted /\ Gathered /\ CarriedOut /\ [Next]_vars => CarriedOut'
  <2> SUFFICES ASSUME TypeOK, Counted, Gathered, CarriedOut, [Next]_vars PROVE CarriedOut'
    OBVIOUS
  <2>1. CASE Next
    BY <2>1, HostLogged, DeviceLogged DEF Next
  <2>2. CASE UNCHANGED vars
    BY <2>2 DEF vars, devVars, tgtVars, CarriedOut, Done, Succeeded
  <2> QED BY <2>1, <2>2
<1>3. TypeOK /\ Counted /\ Gathered /\ CarriedOut => Executed
  <2> SUFFICES ASSUME TypeOK, Counted, Gathered, CarriedOut PROVE Executed
    OBVIOUS
  <2> USE Counts
  <2>r. ASSUME pc \in InList \cup InBlock
        PROVE  i \in 0 .. Len(reqs) /\ i - 1 \in 0 .. Len(reqs) /\ response_count = i - 1
    BY <2>r DEF Counted
  <2>1. CASE log = <<>> /\ response_count = 0
    <3>1. Done(0) /\ 0 \in 0 .. Len(reqs)
      BY <2>1, HoldsNothing DEF Done
    <3> QED BY <2>1, <3>1, DoneExecuted
  <2>2. CASE pc \in {"idle", "blockPost"}
    BY <2>1, <2>2, <2>r DEF CarriedOut, Counted, Gathered, InBlock
  <2>3. CASE pc \in {"fetch", "drain", "verify"}
    <3>1. Done(response_count) /\ response_count \in 0 .. Len(reqs)
      BY <2>3 DEF CarriedOut, Counted
    <3> QED BY <3>1, DoneExecuted
  <2>4. CASE pc \in {"flush", "start", "post", "read", "poll", "write", "blockRead", "blockWrite"}
    <3>1. Done(i) \/ Done(i - 1)
      BY <2>4 DEF CarriedOut
    <3>2. i \in 0 .. Len(reqs) /\ i - 1 \in 0 .. Len(reqs) /\ response_count = i - 1
      BY <2>4, <2>r DEF InList, InBlock
    <3> QED BY <3>1, <3>2, DoneExecuted
  <2>5. CASE pc \in {"cancel", "done"}
    <3>1. PICK n \in 0 .. Len(reqs) :
            /\ Done(n) /\ response_count <= n
            /\ n <= response_count + (IF pc = "done" THEN 2 ELSE 1)
      BY <2>5 DEF CarriedOut
    <3> QED BY <2>5, <3>1, DoneExecuted
  <2> QED BY <2>2, <2>3, <2>4, <2>5 DEF TypeOK, Place, Loops
<1> QED BY <1>1, <1>2, <1>3, InvariantHolds, PTL DEF Spec
=============================================================================
