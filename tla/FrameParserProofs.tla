------------------------- MODULE FrameParserProofs --------------------------
(***************************************************************************)
(* The frame parser of ExLink, for every buffer size the 16-bit length     *)
(* field admits, every alphabet and every stream: it keeps to its types    *)
(* and inside its payload buffer, it implements FrameScanner, it takes     *)
(* what exlink_frame_build makes, and it never swallows more than a frame. *)
(***************************************************************************)
EXTENDS FrameParser, FrameCodecProofs

Results == {"NONE", "OK", "BAD_CRC", "BAD_LEN"}

(* The inductive invariant: Sound says that inside a frame the register is *)
(* the checksum of the bytes taken, which is why the last byte decides     *)
(* what FrameScanner decides by computing the checksum at once.            *)
IInv == Sound(parser) /\ byte \in Byte /\ result \in Results

(* Where the checksum is due the stream offers its two bytes: bytes too. *)
LEMMA StreamBytes ==
  ASSUME parser.crc_calc \in Register
  PROVE  Stream \subseteq Byte
  <1>1. /\ LowByte(Value[parser.crc_calc]) \in Byte
        /\ HighByte(Value[parser.crc_calc]) \in Byte
    BY BitsOfValue, BytesOfWord
  <1>2. QED
    BY <1>1, AlphabetAssumption DEF Stream

LEMMA InitIInv == Init => IInv
  <1>1. 0 \in Byte
    BY DEF Byte
  <1>2. QED
    BY <1>1, InitSound DEF Init, IInv, Results

(* One call of exlink_parser_feed, with what FrameCodecProofs knows of it. *)
LEMMA StepFeed ==
  ASSUME IInv, NEW b \in Stream, Feed(b)
  PROVE  /\ b \in Byte
         /\ IInv'
         /\ Judged(Append(Pending(parser), b), result', parser')
  <1>1. Sound(parser)
    BY DEF IInv
  <1>2. b \in Byte
    BY <1>1, StreamBytes, ParserFields DEF Sound
  <1>3. /\ byte' = b
        /\ result' = FeedResult(parser, b)
        /\ parser' = exlink_parser_feed(parser, b)
    BY DEF Feed
  <1>4. Sound(parser') /\ Judged(Append(Pending(parser), b), result', parser')
    BY <1>1, <1>2, <1>3, FeedRecognises
  <1>5. result' \in Results
    BY <1>3 DEF FeedResult, Results
  <1>6. QED
    BY <1>2, <1>3, <1>4, <1>5 DEF IInv

LEMMA StepIInv == IInv /\ [Next]_vars => IInv'
  <1>1. SUFFICES ASSUME IInv, [Next]_vars PROVE IInv'
    OBVIOUS
  <1>2. CASE UNCHANGED vars
    BY <1>1, <1>2 DEF IInv, vars
  <1>3. CASE Next
    BY <1>1, <1>3, StepFeed DEF Next
  <1>4. QED
    BY <1>1, <1>2, <1>3

LEMMA AlwaysIInv == Spec => []IInv
  BY InitIInv, StepIInv, PTL DEF Spec

(* Every field keeps to the width the code gives it, and the write index   *)
(* p->idx never leaves p->payload (frame_parser.c:142), however the stream *)
(* is made up.                                                             *)
THEOREM TypeCorrect == Spec => []TypeOK
  <1>1. IInv => TypeOK
    BY DEF IInv, TypeOK, Sound, Results
  <1>2. QED
    BY <1>1, AlwaysIInv, PTL

(* The second half of it on its own. *)
THEOREM PayloadNeverOverruns == Spec => []PayloadFits(parser)
  <1>1. TypeOK => PayloadFits(parser)
    BY DEF TypeOK
  <1>2. QED
    BY <1>1, TypeCorrect, PTL

----------------------------------------------------------------------------
(* The parser implements the scanner.                                      *)

(* The scanner speaks of frames as the parser's module does: its copies of *)
(* the definitions of FrameGrammar are the same ones.                      *)
LEMMA SameGrammar ==
  /\ Scanner!Byte = Byte
  /\ \A s : Scanner!Announced(s) = Announced(s)
  /\ \A s : Scanner!TooLong(s) <=> TooLong(s)
  /\ \A s : Scanner!Complete(s) <=> Complete(s)
  /\ \A s : Scanner!Body(s) = Body(s)
  /\ \A s : Scanner!Intact(s) <=> Intact(s)
  /\ \A s : Scanner!LongestBeginning(s) = LongestBeginning(s)
  <1>1. Scanner!Byte = Byte
    BY DEF Scanner!Byte, Byte
  <1>2. ASSUME NEW s PROVE Scanner!Announced(s) = Announced(s)
    BY DEF Scanner!Announced, Announced
  <1>3. ASSUME NEW s PROVE Scanner!TooLong(s) <=> TooLong(s)
    BY DEF Scanner!TooLong, TooLong, Scanner!Announced, Announced,
           Scanner!EXLINK_HEADER_LEN, EXLINK_HEADER_LEN
  <1>4. ASSUME NEW s PROVE Scanner!Complete(s) <=> Complete(s)
    BY DEF Scanner!Complete, Complete, Scanner!Announced, Announced,
           Scanner!EXLINK_HEADER_LEN, EXLINK_HEADER_LEN,
           Scanner!EXLINK_CRC_LEN, EXLINK_CRC_LEN,
           Scanner!EXLINK_FRAME_OVERHEAD, EXLINK_FRAME_OVERHEAD
  <1>5. ASSUME NEW s PROVE Scanner!Body(s) = Body(s)
    BY DEF Scanner!Body, Body, Scanner!EXLINK_CRC_LEN, EXLINK_CRC_LEN
  <1>6. ASSUME NEW n PROVE Scanner!Bits(n) = Bits(n)
    <2>1. Scanner!Weight = Weight
      BY DEF Scanner!Weight, Weight
    <2>2. QED
      BY <2>1 DEF Scanner!Bits, Bits
  <1>7. ASSUME NEW s PROVE Scanner!exlink_crc16(s) = exlink_crc16(s)
    <2>1. Scanner!Xor = Xor
      BY Zenon DEF Scanner!Xor, Xor, Scanner!Register, Register
    <2>2. Scanner!CrcBit = CrcBit
      BY <2>1, Zenon DEF Scanner!CrcBit, CrcBit, Scanner!Register, Register,
             Scanner!EXLINK_CRC16_POLY, EXLINK_CRC16_POLY
    <2>3. \A crc, b : Scanner!exlink_crc16_update(crc, b) = exlink_crc16_update(crc, b)
      BY <1>6, <2>1, <2>2, Zenon DEF Scanner!exlink_crc16_update, exlink_crc16_update
    <2> DEFINE own(after) == [i \in 0 .. Len(s) |->
                                IF i = 0 THEN EXLINK_CRC16_INIT
                                ELSE exlink_crc16_update(after[i - 1], s[i])]
               copy(after) == [i \in 0 .. Len(s) |->
                                 IF i = 0 THEN Scanner!EXLINK_CRC16_INIT
                                 ELSE Scanner!exlink_crc16_update(after[i - 1], s[i])]
    <2>4. Scanner!EXLINK_CRC16_INIT = EXLINK_CRC16_INIT
      BY DEF Scanner!EXLINK_CRC16_INIT, EXLINK_CRC16_INIT
    <2>5. ASSUME NEW after PROVE copy(after) = own(after)
      BY <2>3, <2>4
    <2>6. /\ exlink_crc16(s) = (CHOOSE after : after = own(after))[Len(s)]
          /\ Scanner!exlink_crc16(s) = (CHOOSE after : after = copy(after))[Len(s)]
      BY Zenon DEF exlink_crc16, Scanner!exlink_crc16
    <2> HIDE DEF own, copy
    <2>7. (CHOOSE after : after = copy(after)) = (CHOOSE after : after = own(after))
      BY <2>5, Zenon
    <2>8. QED
      BY <2>6, <2>7
  <1>8. ASSUME NEW s PROVE Scanner!Intact(s) <=> Intact(s)
    BY <1>5, <1>6, <1>7 DEF Scanner!Intact, Intact
  <1>9. ASSUME NEW s PROVE Scanner!LongestBeginning(s) = LongestBeginning(s)
    BY Zenon
    DEF Scanner!LongestBeginning, LongestBeginning, Scanner!MayBegin, MayBegin,
        Scanner!EXLINK_MAGIC0, EXLINK_MAGIC0, Scanner!EXLINK_MAGIC1, EXLINK_MAGIC1,
        Scanner!Min, Min
  <1>10. QED
    BY <1>1, <1>2, <1>3, <1>4, <1>5, <1>8, <1>9, Zenon

LEMMA InitScanner == Init => Scanner!Init
  BY InitSound DEF Init, Scanner!Init

LEMMA StepScanner ==
  ASSUME IInv, NEW b \in Stream, Feed(b)
  PROVE  Scanner!Next
  <1> DEFINE s == Append(Pending(parser), b)
             p == Pending(parser')
             f == IF result' = "OK" THEN <<parser'.op, parser'.len, parser'.payload>>
                  ELSE <<>>
  <1>1. b \in Scanner!Byte /\ byte' = b /\ Judged(s, result', parser')
    BY StepFeed, SameGrammar DEF Feed
  <1> HIDE DEF s
  <1>2. Scanner!Reject(s) <=> TooLong(s) /\ p = <<>> /\ result' = "BAD_LEN" /\ f = <<>>
    BY SameGrammar DEF Scanner!Reject
  <1>3. Scanner!Judge(s) <=> /\ Complete(s)
                             /\ p = <<>>
                             /\ result' = IF Intact(s) THEN "OK" ELSE "BAD_CRC"
                             /\ f = IF Intact(s)
                                      THEN <<s[3], Announced(s),
                                             SubSeq(Body(s), 6, Len(Body(s)))>>
                                      ELSE <<>>
    BY SameGrammar DEF Scanner!Judge
  <1>4. Scanner!Collect(s) <=> /\ ~ TooLong(s)
                               /\ ~ Complete(s)
                               /\ p = LongestBeginning(s)
                               /\ result' = "NONE"
                               /\ f = <<>>
    BY SameGrammar DEF Scanner!Collect
  <1>5. SUFFICES Scanner!Reject(s) \/ Scanner!Judge(s) \/ Scanner!Collect(s)
    BY <1>1 DEF Scanner!Next, Scanner!Hear, s
  <1>6. CASE TooLong(s)
    <2>1. result' = "BAD_LEN" /\ p = <<>>
      BY <1>1, <1>6 DEF Judged
    <2>2. f = <<>>
      BY <2>1
    <2>3. QED
      BY <1>2, <1>6, <2>1, <2>2
  <1>7. CASE Complete(s)
    <2>1. /\ result' = IF Intact(s) THEN "OK" ELSE "BAD_CRC"
          /\ p = <<>>
          /\ parser'.op = s[3] /\ parser'.len = Announced(s)
          /\ parser'.payload = SubSeq(Body(s), 6, Len(Body(s)))
      BY <1>1, <1>7 DEF Judged
    <2>2. f = IF Intact(s)
                THEN <<s[3], Announced(s), SubSeq(Body(s), 6, Len(Body(s)))>>
                ELSE <<>>
      BY <2>1
    <2>3. QED
      BY <1>3, <1>7, <2>1, <2>2
  <1>8. CASE ~ TooLong(s) /\ ~ Complete(s)
    <2>1. result' = "NONE" /\ p = LongestBeginning(s)
      BY <1>1, <1>8 DEF Judged
    <2>2. f = <<>>
      BY <2>1
    <2>3. QED
      BY <1>4, <1>8, <2>1, <2>2
  <1>9. QED
    BY <1>6, <1>7, <1>8

(* The automaton, with its running checksum and its fields of two bytes,   *)
(* implements the scanner, which keeps the bytes and computes the checksum *)
(* at once: the same verdict on the same byte, the same operation, length  *)
(* and payload after it (frame_parser.c:99 to :177).                       *)
THEOREM ParserImplementsScanner == Spec => ScannerImplemented
  <1>1. ASSUME IInv, [Next]_vars
        PROVE  [Scanner!Next]_(Scanner!vars)
    <2>1. CASE UNCHANGED vars
      BY <2>1 DEF vars, Scanner!vars
    <2>2. CASE Next
      BY <1>1, <2>2, StepScanner DEF Next
    <2>3. QED
      BY <1>1, <2>1, <2>2
  <1>2. QED
    BY <1>1, InitScanner, AlwaysIInv, PTL DEF Spec, ScannerImplemented, Scanner!Spec

----------------------------------------------------------------------------
(* Built frames come through.                                              *)

LEMMA HuntingSound ==
  ASSUME NEW p \in {exlink_parser_init, exlink_parser_feed(exlink_parser_init, EXLINK_MAGIC0)}
  PROVE  Sound(p) /\ Pending(p) \in {<<>>, <<EXLINK_MAGIC0>>}
  <1>1. CASE p = exlink_parser_init
    BY <1>1, InitSound
  <1>2. CASE p = exlink_parser_feed(exlink_parser_init, EXLINK_MAGIC0)
    <2>1. Sound(p)
      BY <1>2, InitSound, Magics, FeedRecognises
    <2>2. exlink_parser_init.state = "MAGIC0"
      BY DEF exlink_parser_init
    <2> DEFINE restart == exlink_crc16_update(EXLINK_CRC16_INIT, EXLINK_MAGIC0)
    <2>3. p = [exlink_parser_init EXCEPT !.state = "MAGIC1", !.crc_calc = restart]
      BY <1>2, <2>2 DEF exlink_parser_feed
    <2>4. p.state = "MAGIC1"
      BY <2>3 DEF exlink_parser_init
    <2>5. QED
      BY <2>1, <2>4 DEF Pending
  <1>3. QED
    BY <1>1, <1>2

(* The first byte of a frame, heard by a hunting parser. *)
LEMMA FirstByte ==
  ASSUME NEW p, Sound(p), Pending(p) \in {<<>>, <<EXLINK_MAGIC0>>},
         NEW r, Decided(r), Len(r) >= 7
  PROVE  /\ FeedResult(p, r[1]) = "NONE"
         /\ Pending(exlink_parser_feed(p, r[1])) = SubSeq(r, 1, 1)
  <1>1. r \in Bytes /\ Len(r) \in Nat /\ r[1] = EXLINK_MAGIC0
    BY DecidedLength DEF Decided
  <1>2. CASE Pending(p) = <<>>
    <2> DEFINE none == 0
    <2>1. none \in 0 .. Len(r) - 1 /\ none + 1 = 1 /\ none + 1 < Len(r)
      BY <1>1
    <2>2. Pending(p) = SubSeq(r, 1, none)
      BY <1>2, SubSeqEmpty
    <2> HIDE DEF none
    <2>3. /\ FeedResult(p, r[none + 1]) = "NONE"
          /\ Pending(exlink_parser_feed(p, r[none + 1])) = SubSeq(r, 1, none + 1)
      BY <2>1, <2>2, DecidedStep
    <2>4. QED
      BY <2>1, <2>3
  <1>3. CASE Pending(p) = <<EXLINK_MAGIC0>>
    <2> DEFINE s == <<EXLINK_MAGIC0, EXLINK_MAGIC0>>
               q == exlink_parser_feed(p, EXLINK_MAGIC0)
               v == FeedResult(p, EXLINK_MAGIC0)
    <2>1. Append(<<EXLINK_MAGIC0>>, EXLINK_MAGIC0) = s
      BY Magics, Headers
    <2>2. Len(s) = 2
      OBVIOUS
    <2>3. LongestBeginning(s) = <<EXLINK_MAGIC0>>
      <3>1. EXLINK_MAGIC0 # EXLINK_MAGIC1
        BY DEF EXLINK_MAGIC0, EXLINK_MAGIC1
      <3>2. QED
        BY <3>1, Magics, SecondBeginning
    <2>4. ~ TooLong(s) /\ ~ Complete(s)
      <3>1. Len(s) \in {1, 2, 3, 4}
        BY <2>2
      <3> HIDE DEF s
      <3>2. QED
        BY <3>1, ShortUndecided
    <2>5. Judged(s, v, q)
      <3>1. Judged(Append(Pending(p), EXLINK_MAGIC0), v, q)
        BY Magics, FeedRecognises
      <3>2. QED
        BY <1>3, <2>1, <3>1
    <2> HIDE DEF s, q, v
    <2>6. v = "NONE" /\ Pending(q) = <<EXLINK_MAGIC0>>
      BY <2>3, <2>4, <2>5 DEF Judged
    <2>7. SubSeq(r, 1, 1) = <<EXLINK_MAGIC0>>
      <3>1. 1 \in 1 .. Len(r) /\ 1 \in 1 .. Len(r) /\ 1 + 1 = 2 /\ 1 < 2
        BY <1>1
      <3>2. SubSeq(r, 1, 1) = <<r[1]>> \o SubSeq(r, 1 + 1, 1)
        BY <1>1, <3>1, SubSeqRecursiveFirst DEF Bytes
      <3>3. SubSeq(r, 2, 1) = <<>>
        BY SubSeqEmpty
      <3>4. <<EXLINK_MAGIC0>> \o <<>> = <<EXLINK_MAGIC0>>
        OBVIOUS
      <3>5. QED
        BY <1>1, <3>1, <3>2, <3>3, <3>4
    <2>8. QED
      BY <1>1, <2>6, <2>7 DEF q, v
  <1>4. QED
    BY <1>2, <1>3

(* The whole of it, byte by byte. *)
LEMMA BuiltComesThrough ==
  ASSUME NEW p, Sound(p), Pending(p) \in {<<>>, <<EXLINK_MAGIC0>>},
         NEW r, Decided(r), Complete(r), Intact(r), ~ TooLong(r), Len(r) >= 7,
         NEW after, after = FeedAll(p, r)
  PROVE  /\ \A i \in 1 .. Len(r) :
              FeedResult(after[i - 1], r[i]) = IF i = Len(r) THEN "OK" ELSE "NONE"
         /\ after[Len(r)].op = r[3]
         /\ after[Len(r)].len = Announced(r)
         /\ after[Len(r)].payload = SubSeq(Body(r), 6, Len(Body(r)))
  <1> DEFINE n == Len(r)
             Silent(i) == FeedResult(after[i - 1], r[i]) = "NONE"
             Taken(i)  == Pending(after[i]) = SubSeq(r, 1, i)
  <1>1. r \in Bytes /\ n \in Nat /\ \A i \in 1 .. n : r[i] \in Byte
    <2>1. r \in Bytes /\ n \in Nat
      BY DecidedLength DEF Decided
    <2>2. QED
      BY <2>1, ElementOfSeq DEF Bytes
  <1>2. /\ after[0] = p
        /\ \A i \in 1 .. n : after[i] = exlink_parser_feed(after[i - 1], r[i])
        /\ \A i \in 0 .. n : Sound(after[i])
    BY <1>1, FeedAllSteps
  <1>3. Silent(1) /\ Taken(1)
    <2>1. 1 \in 1 .. n /\ 1 - 1 = 0
      BY <1>1
    <2>2. after[1] = exlink_parser_feed(p, r[1]) /\ after[1 - 1] = p
      BY <1>2, <2>1
    <2>3. QED
      BY <2>2, FirstByte
  <1>4. ASSUME NEW i \in 1 .. n - 1, Taken(i)
        PROVE  /\ i + 1 < n => Silent(i + 1) /\ Taken(i + 1)
               /\ i + 1 = n => Judged(r, FeedResult(after[i], r[i + 1]), after[i + 1])
    <2>1. i + 1 \in 1 .. n /\ (i + 1) - 1 = i /\ i \in 0 .. n - 1 /\ i \in 0 .. n
      BY <1>1
    <2>2. Sound(after[i]) /\ after[i + 1] = exlink_parser_feed(after[i], r[i + 1])
      BY <1>2, <2>1
    <2> DEFINE q == after[i + 1]
               v == FeedResult(after[i], r[i + 1])
               o == after[i]
    <2>3. q = exlink_parser_feed(o, r[i + 1]) /\ v = FeedResult(o, r[i + 1])
      BY <2>2
    <2>4. Sound(o) /\ Pending(o) = SubSeq(r, 1, i)
      BY <1>4, <2>2
    <2> HIDE DEF q, v, o
    <2>5. /\ i + 1 < Len(r) => v = "NONE" /\ Pending(q) = SubSeq(r, 1, i + 1)
          /\ i + 1 = Len(r) => Judged(r, v, q)
      BY <2>1, <2>3, <2>4, DecidedStep
    <2>6. QED
      BY <2>1, <2>5 DEF q, v, o
  <1>5. \A i \in 1 .. n - 1 : Silent(i) /\ Taken(i)
    <2> DEFINE T == {i \in Nat : i + 1 < n => Silent(i + 1) /\ Taken(i + 1)}
    <2> HIDE DEF Silent, Taken
    <2>1. 0 \in T
      BY <1>3
    <2>2. ASSUME NEW i \in T PROVE i + 1 \in T
      <3>1. CASE (i + 1) + 1 < n
        <4>1. i + 1 \in 1 .. n - 1 /\ i + 1 < n
          BY <1>1, <3>1
        <4>2. Taken(i + 1)
          BY <4>1
        <4>3. Silent((i + 1) + 1) /\ Taken((i + 1) + 1)
          BY <1>4, <3>1, <4>1, <4>2
        <4>4. QED
          BY <4>3
      <3>2. QED
        BY <3>1
    <2>3. T = Nat
      <3>1. T \in SUBSET Nat
        OBVIOUS
      <3> HIDE DEF T
      <3>2. QED
        BY <2>1, <2>2, <3>1, SetInduction
    <2>4. ASSUME NEW i \in 1 .. n - 1 PROVE Silent(i) /\ Taken(i)
      <3> DEFINE k == i - 1
      <3>1. k \in Nat /\ k + 1 = i /\ k + 1 < n
        BY <1>1
      <3> HIDE DEF k
      <3>2. k \in T
        BY <2>3, <3>1, Zenon
      <3>3. QED
        BY <3>1, <3>2
    <2>5. QED
      BY <2>4
  <1>6. Judged(r, FeedResult(after[n - 1], r[n]), after[n])
    <2>1. n - 1 \in 1 .. n - 1 /\ (n - 1) + 1 = n
      BY <1>1
    <2>2. Taken(n - 1)
      BY <1>5, <2>1
    <2> DEFINE k == n - 1
    <2>3. k \in 1 .. n - 1 /\ k + 1 = n /\ Taken(k)
      BY <2>1, <2>2
    <2> HIDE DEF k, Taken
    <2>4. Judged(r, FeedResult(after[k], r[k + 1]), after[k + 1])
      BY <1>4, <2>3
    <2>5. QED
      BY <2>3, <2>4 DEF k
  <1>7. /\ FeedResult(after[n - 1], r[n]) = "OK"
        /\ after[n].op = r[3] /\ after[n].len = Announced(r)
        /\ after[n].payload = SubSeq(Body(r), 6, Len(Body(r)))
    BY <1>6 DEF Judged
  <1>8. ASSUME NEW i \in 1 .. n
        PROVE  FeedResult(after[i - 1], r[i]) = IF i = n THEN "OK" ELSE "NONE"
    <2>1. CASE i = n
      BY <1>7, <2>1
    <2>2. CASE i # n
      <3>1. i \in 1 .. n - 1
        BY <1>1, <2>2
      <3>2. QED
        BY <1>5, <2>2, <3>1
    <2>3. QED
      BY <2>1, <2>2
  <1>9. QED
    BY <1>7, <1>8

LEMMA RoundTripHolds ==
  ASSUME Hunting
  PROVE  RoundTrip
  <1>1. Sound(parser) /\ Pending(parser) \in {<<>>, <<EXLINK_MAGIC0>>}
    BY HuntingSound DEF Hunting
  <1>2. ASSUME NEW op \in Alphabet, NEW payload \in Payloads
        PROVE  LET built == exlink_frame_build(op, payload, EXLINK_MAX_FRAME)
                   n     == Len(built)
                   after == FeedAll(parser, built)
                   got   == [i \in 1 .. n |-> FeedResult(after[i - 1], built[i])]
               IN  /\ n = EXLINK_FRAME_OVERHEAD + Len(payload)
                   /\ \A i \in 1 .. n : got[i] = IF i = n THEN "OK" ELSE "NONE"
                   /\ after[n].op = op /\ after[n].len = n - EXLINK_FRAME_OVERHEAD
                   /\ after[n].payload = payload
    <2>1. PICK m \in 0 .. EXLINK_MAX_PAYLOAD : payload \in [1 .. m -> Alphabet]
      BY DEF Payloads
    <2>2. payload \in Bytes /\ Len(payload) = m /\ m \in Nat /\ m <= EXLINK_MAX_PAYLOAD
      <3>1. m \in Nat /\ m <= EXLINK_MAX_PAYLOAD
        BY WordsAreNaturals
      <3>2. payload \in [1 .. m -> Byte]
        BY <2>1, AlphabetAssumption
      <3>3. QED
        BY <3>1, <3>2 DEF Bytes
    <2>3. op \in Byte
      BY AlphabetAssumption
    <2> DEFINE r     == exlink_frame_build(op, payload, EXLINK_MAX_FRAME)
               after == FeedAll(parser, r)
               n     == Len(r)
               got   == [i \in 1 .. n |-> FeedResult(after[i - 1], r[i])]
    <2> HIDE DEF r, after
    <2>4. /\ Decided(r) /\ Complete(r) /\ ~ TooLong(r) /\ Intact(r)
          /\ n = EXLINK_FRAME_OVERHEAD + m
          /\ r[3] = op /\ Announced(r) = m
          /\ SubSeq(Body(r), 6, Len(Body(r))) = payload
      BY <2>2, <2>3, BuiltFrame DEF r
    <2>5. n >= 7 /\ n - EXLINK_FRAME_OVERHEAD = m
      BY <2>2, <2>4 DEF EXLINK_FRAME_OVERHEAD, EXLINK_HEADER_LEN, EXLINK_CRC_LEN
    <2>6. after = FeedAll(parser, r)
      BY DEF after
    <2>7. /\ \A i \in 1 .. n :
               FeedResult(after[i - 1], r[i]) = IF i = n THEN "OK" ELSE "NONE"
          /\ after[n].op = r[3]
          /\ after[n].len = Announced(r)
          /\ after[n].payload = SubSeq(Body(r), 6, Len(Body(r)))
      BY <1>1, <2>4, <2>5, <2>6, BuiltComesThrough
    <2>8. \A i \in 1 .. n : got[i] = IF i = n THEN "OK" ELSE "NONE"
      BY <2>7
    <2>9. /\ n = EXLINK_FRAME_OVERHEAD + Len(payload)
          /\ after[n].op = op /\ after[n].len = n - EXLINK_FRAME_OVERHEAD
          /\ after[n].payload = payload
      BY <2>2, <2>4, <2>5, <2>7
    <2>10. QED
      BY <2>8, <2>9 DEF r, after
  <1>3. QED
    BY <1>2 DEF RoundTrip

(* What exlink_frame_build makes, exlink_parser_feed takes: a hunting      *)
(* parser returns OK for the last byte of a built frame and for no earlier *)
(* one, with the operation and the payload the frame was made of, for      *)
(* every payload that fits.                                                *)
THEOREM BuiltFramesAreTaken == Spec => []RoundTrip
  <1>1. RoundTrip
    BY RoundTripHolds DEF RoundTrip
  <1>2. QED
    BY <1>1, PTL

----------------------------------------------------------------------------
(* A parser that lost its place.                                           *)

(* How many zero bytes parser p takes before it hunts again. *)
Left(p) ==
  CASE p.state = "MAGIC0"  -> 0
    [] p.state = "MAGIC1"  -> 1
    [] p.state = "OP"      -> 5
    [] p.state = "LEN_LO"  -> 4
    [] p.state = "LEN_HI"  -> IF p.len > EXLINK_MAX_PAYLOAD THEN 1 ELSE p.len + 3
    [] p.state = "PAYLOAD" -> p.len - Len(p.payload) + 2
    [] p.state = "CRC_LO"  -> 2
    [] p.state = "CRC_HI"  -> 1

LEMMA LeftBounds ==
  ASSUME NEW p, Sound(p)
  PROVE  /\ Left(p) \in 0 .. EXLINK_MAX_PAYLOAD + 5
         /\ Left(p) = 0 => p.state = "MAGIC0"
  <1>1. /\ p.state \in States /\ p.len \in Nat /\ Len(p.payload) \in Nat
        /\ EXLINK_MAX_PAYLOAD \in Nat
    BY ParserFields, WordsAreNaturals DEF Sound
  <1>2. p.state = "PAYLOAD" => Len(p.payload) < p.len /\ p.len <= EXLINK_MAX_PAYLOAD
    BY DEF Sound, PayloadFits
  <1> DEFINE n == Len(p.payload)
             max == EXLINK_MAX_PAYLOAD
  <1> HIDE DEF n
  <1>3. n \in Nat /\ (p.state = "PAYLOAD" => n < p.len /\ p.len <= max)
    BY <1>1, <1>2 DEF n
  <1>4. CASE p.state = "PAYLOAD"
    <2>1. Left(p) = p.len - n + 2
      BY <1>4 DEF Left, n
    <2>2. QED
      BY <1>1, <1>3, <1>4, <2>1
  <1>5. CASE p.state = "LEN_HI"
    <2>1. Left(p) = IF p.len > max THEN 1 ELSE p.len + 3
      BY <1>5 DEF Left
    <2>2. QED
      BY <1>1, <1>5, <2>1
  <1>6. CASE p.state \notin {"PAYLOAD", "LEN_HI"}
    <2>1. Left(p) \in {0, 1, 2, 4, 5} /\ (Left(p) = 0 => p.state = "MAGIC0")
      BY <1>1, <1>6 DEF Left, States
    <2>2. QED
      BY <1>1, <2>1
  <1>7. QED
    BY <1>4, <1>5, <1>6

LEMMA ZeroStep ==
  ASSUME NEW p, Sound(p), p.state # "MAGIC0", NEW q, q = exlink_parser_feed(p, 0)
  PROVE  Left(q) = Left(p) - 1
  <1>1. /\ p \in Parser /\ p.state \in States /\ p.len \in Nat /\ Len(p.payload) \in Nat
        /\ p.payload \in Bytes /\ EXLINK_MAX_PAYLOAD \in Nat
    BY ParserFields, WordsAreNaturals DEF Sound
  <1>2. 0 # EXLINK_MAGIC0 /\ 0 # EXLINK_MAGIC1
    BY DEF EXLINK_MAGIC0, EXLINK_MAGIC1
  <1>3. FullLen(p, 0) = p.len
    BY <1>1 DEF FullLen
  <1>4. CASE p.state = "MAGIC1"
    <2>1. q = [p EXCEPT !.state = "MAGIC0"]
      BY <1>2, <1>4 DEF exlink_parser_feed, FeedMagic1
    <2>2. q.state = "MAGIC0"
      BY <1>1, <2>1 DEF Parser
    <2>3. QED
      BY <1>4, <2>2 DEF Left
  <1>5. CASE p.state = "OP"
    <2> DEFINE c == exlink_crc16_update(p.crc_calc, 0)
    <2>1. q = [p EXCEPT !.state = "LEN_LO", !.op = 0, !.crc_calc = c]
      BY <1>5 DEF exlink_parser_feed
    <2> HIDE DEF c
    <2>2. q.state = "LEN_LO"
      BY <1>1, <2>1 DEF Parser
    <2>3. QED
      BY <1>5, <2>2 DEF Left
  <1>6. CASE p.state = "LEN_LO"
    <2> DEFINE c == exlink_crc16_update(p.crc_calc, 0)
    <2>1. q = [p EXCEPT !.state = "LEN_HI", !.len = 0, !.crc_calc = c]
      BY <1>6 DEF exlink_parser_feed
    <2> HIDE DEF c
    <2>2. q.state = "LEN_HI" /\ q.len = 0
      BY <1>1, <2>1 DEF Parser
    <2>3. QED
      BY <1>1, <1>6, <2>2 DEF Left
  <1>7. CASE p.state = "LEN_HI" /\ p.len > EXLINK_MAX_PAYLOAD
    <2>1. q = exlink_parser_init
      BY <1>1, <1>3, <1>7 DEF exlink_parser_feed, FeedLenHi, LenFits
    <2>2. q.state = "MAGIC0"
      BY <2>1 DEF exlink_parser_init
    <2>3. QED
      BY <1>7, <2>2 DEF Left
  <1>8. CASE p.state = "LEN_HI" /\ ~ (p.len > EXLINK_MAX_PAYLOAD)
    <2> DEFINE c    == exlink_crc16_update(p.crc_calc, 0)
               next == IF p.len = 0 THEN "CRC_LO" ELSE "PAYLOAD"
    <2>1. q = [p EXCEPT !.len = p.len, !.payload = <<>>, !.crc_calc = c, !.state = next]
      <3>1. LenFits(p, 0)
        BY <1>1, <1>3, <1>8 DEF LenFits
      <3>2. q = FeedLenHi(p, 0)
        BY <1>8 DEF exlink_parser_feed
      <3>3. QED
        BY <1>3, <3>1, <3>2, Zenon DEF FeedLenHi
    <2> HIDE DEF c, next
    <2>2. q.state = next /\ q.len = p.len /\ q.payload = <<>>
      BY <1>1, <2>1 DEF Parser
    <2>3. Left(p) = p.len + 3
      BY <1>8 DEF Left
    <2>4. Left(q) = p.len + 2
      <3>1. CASE p.len = 0
        BY <2>2, <3>1 DEF Left, next
      <3>2. CASE p.len # 0
        <4>1. Left(q) = p.len - Len(<<>>) + 2
          BY <2>2, <3>2 DEF Left, next
        <4>2. Len(<<>>) = 0
          OBVIOUS
        <4>3. QED
          BY <1>1, <4>1, <4>2
      <3>3. QED
        BY <3>1, <3>2
    <2>5. QED
      BY <1>1, <2>3, <2>4
  <1>9. CASE p.state = "PAYLOAD"
    <2> DEFINE c    == exlink_crc16_update(p.crc_calc, 0)
               n    == Len(p.payload)
               more == Append(p.payload, 0)
               next == IF n + 1 >= p.len THEN "CRC_LO" ELSE "PAYLOAD"
    <2>1. q = [p EXCEPT !.payload = more, !.crc_calc = c, !.state = next]
      BY <1>9 DEF exlink_parser_feed, FeedPayload
    <2>2. Len(more) = n + 1 /\ n \in Nat
      <3>1. 0 \in Byte
        BY DEF Byte
      <3>2. QED
        BY <1>1, <3>1, AppendProperties DEF Bytes
    <2>3. n < p.len
      BY <1>9 DEF Sound, PayloadFits
    <2>4. next \in {"CRC_LO", "PAYLOAD"} /\ (next = "CRC_LO" => n + 1 = p.len)
      BY <1>1, <2>2, <2>3
    <2>5. Left(p) = p.len - n + 2
      BY <1>9 DEF Left
    <2> HIDE DEF c, n, more, next
    <2>6. q.state = next /\ q.len = p.len /\ q.payload = more
      BY <1>1, <2>1 DEF Parser
    <2>7. CASE next = "CRC_LO"
      <3>1. Left(q) = 2
        BY <2>6, <2>7 DEF Left
      <3>2. QED
        BY <1>1, <2>2, <2>4, <2>5, <2>7, <3>1
    <2>8. CASE next = "PAYLOAD"
      <3>1. Left(q) = p.len - (n + 1) + 2
        BY <2>2, <2>6, <2>8 DEF Left
      <3>2. QED
        BY <1>1, <2>2, <2>5, <3>1
    <2>9. QED
      BY <2>4, <2>7, <2>8
  <1>10. CASE p.state = "CRC_LO"
    <2>1. q = [p EXCEPT !.state = "CRC_HI", !.crc_rx = 0]
      BY <1>10 DEF exlink_parser_feed
    <2>2. q.state = "CRC_HI"
      BY <1>1, <2>1 DEF Parser
    <2>3. QED
      BY <1>10, <2>2 DEF Left
  <1>11. CASE p.state = "CRC_HI"
    <2> DEFINE rx == p.crc_rx + 256 * 0
    <2>1. q = [p EXCEPT !.state = "MAGIC0", !.crc_rx = rx, !.crc_calc = EXLINK_CRC16_INIT]
      BY <1>11 DEF exlink_parser_feed, FeedCrcHi
    <2> HIDE DEF rx
    <2>2. q.state = "MAGIC0"
      BY <1>1, <2>1 DEF Parser
    <2>3. QED
      BY <1>11, <2>2 DEF Left
  <1>12. QED
    BY <1>1, <1>4, <1>5, <1>6, <1>7, <1>8, <1>9, <1>10, <1>11 DEF States

LEMMA FlushableHolds ==
  ASSUME Sound(parser)
  PROVE  Flushable
  <1> DEFINE zeros == [j \in 1 .. EXLINK_MAX_FRAME |-> 0]
             after == FeedAll(parser, zeros)
             n     == Left(parser)
  <1>1. n \in Nat /\ n \in 0 .. EXLINK_MAX_FRAME /\ EXLINK_MAX_FRAME \in Nat
    <2>1. EXLINK_MAX_FRAME = EXLINK_MAX_PAYLOAD + 7
      BY WordsAreNaturals
      DEF EXLINK_MAX_FRAME, EXLINK_FRAME_OVERHEAD, EXLINK_HEADER_LEN, EXLINK_CRC_LEN
    <2>2. n \in 0 .. EXLINK_MAX_PAYLOAD + 5
      BY LeftBounds
    <2> HIDE DEF n
    <2>3. QED
      BY <2>1, <2>2, WordsAreNaturals
  <1>2. /\ Len(zeros) = EXLINK_MAX_FRAME
        /\ \A i \in 1 .. EXLINK_MAX_FRAME : zeros[i] = 0
        /\ 0 \in Byte
    BY <1>1 DEF Byte
  <1> HIDE DEF zeros
  <1>3. /\ after[0] = parser
        /\ \A i \in 1 .. EXLINK_MAX_FRAME :
             after[i] = exlink_parser_feed(after[i - 1], zeros[i])
        /\ \A i \in 0 .. EXLINK_MAX_FRAME : Sound(after[i])
    <2>1. Len(zeros) \in Nat /\ \A i \in 1 .. Len(zeros) : zeros[i] \in Byte
      BY <1>1, <1>2
    <2>2. /\ after[0] = parser
          /\ \A i \in 1 .. Len(zeros) :
               after[i] = exlink_parser_feed(after[i - 1], zeros[i])
          /\ \A i \in 0 .. Len(zeros) : Sound(after[i])
      BY <2>1, FeedAllSteps
    <2>3. QED
      BY <1>2, <2>2
  <1> HIDE DEF after, n
  <1>4. Left(after[n]) = 0
    <2> DEFINE T == {i \in Nat : i <= n => Left(after[i]) = n - i}
    <2>1. 0 \in T
      BY <1>1, <1>3 DEF n
    <2>2. ASSUME NEW i \in T PROVE i + 1 \in T
      <3>1. CASE i + 1 <= n
        <4>1. /\ i + 1 \in 1 .. EXLINK_MAX_FRAME /\ (i + 1) - 1 = i
              /\ i \in 0 .. EXLINK_MAX_FRAME /\ n - i # 0 /\ i <= n /\ n - i \in Nat
          BY <1>1, <3>1
        <4>2. Sound(after[i]) /\ after[i + 1] = exlink_parser_feed(after[i], 0)
          BY <1>2, <1>3, <4>1
        <4>3. Left(after[i]) = n - i
          BY <4>1
        <4>4. after[i].state # "MAGIC0"
          BY <4>1, <4>3 DEF Left
        <4>5. Left(after[i + 1]) = (n - i) - 1
          BY <4>2, <4>3, <4>4, ZeroStep
        <4>6. (n - i) - 1 = n - (i + 1)
          BY <1>1
        <4>7. QED
          BY <4>5, <4>6
      <3>2. QED
        BY <3>1
    <2>3. T = Nat
      <3>1. T \in SUBSET Nat
        OBVIOUS
      <3> HIDE DEF T
      <3>2. QED
        BY <2>1, <2>2, <3>1, SetInduction
    <2>4. n \in T
      BY <1>1, <2>3
    <2>5. QED
      BY <1>1, <2>4
  <1>5. after[n].state = "MAGIC0"
    BY <1>1, <1>3, <1>4, LeftBounds
  <1>6. QED
    BY <1>1, <1>5 DEF Flushable, after, zeros

(* Whatever a stream has left it in the middle of, the parser hunts again  *)
(* after at most a frame's worth of zero bytes.                            *)
THEOREM NoFrameIsSwallowed == Spec => []Flushable
  <1>1. IInv => Flushable
    BY FlushableHolds DEF IInv
  <1>2. QED
    BY <1>1, AlwaysIInv, PTL
=============================================================================
