-------------------------- MODULE FrameCodecProofs --------------------------
(***************************************************************************)
(* What the operators of FrameCodec compute, for every buffer size the     *)
(* 16-bit length field admits: the checksum of a string grows byte by      *)
(* byte, a register and its two bytes are the same number, a parser keeps  *)
(* to its types, and each byte it is fed is judged as FrameGrammar judges  *)
(* the bytes taken so far (FeedRecognises).  FrameParserProofs and         *)
(* CtrlLinkProofs rest on these lemmas.                                    *)
(***************************************************************************)
EXTENDS FrameGrammar, TLAPS, SequenceTheorems, WellFoundedInduction

----------------------------------------------------------------------------
(* Induction and recursion.                                                *)

(* A set of naturals that holds 0 and every successor holds them all. *)
LEMMA SetInduction ==
  ASSUME NEW T \in SUBSET Nat, 0 \in T, \A n \in T : n + 1 \in T
  PROVE  T = Nat
  <1> DEFINE U == Nat \ T
             R == OpToRel(<, Nat)
  <1>1. SUFFICES ASSUME U # {} PROVE FALSE
    OBVIOUS
  <1>2. PICK x \in U : \A y \in U : ~ (<<y, x>> \in R)
    <2>1. IsWellFoundedOn(R, Nat)
      BY NatLessThanWellFounded
    <2>2. U \subseteq Nat
      OBVIOUS
    <2> HIDE DEF R, U
    <2>3. QED
      BY <1>1, <2>1, <2>2, WFMin
  <1>3. x \in Nat /\ x # 0
    BY <1>2
  <1>4. x - 1 \in U
    <2>1. x - 1 \in Nat /\ (x - 1) + 1 = x
      BY <1>3
    <2>2. x \notin T
      BY <1>2
    <2>3. QED
      BY <2>1, <2>2
  <1>5. <<x - 1, x>> \in R
    BY <1>3, <1>4 DEF OpToRel
  <1>6. QED
    BY <1>2, <1>4, <1>5

(* A recursion over 0 .. N that never leaves A has a solution. *)
LEMMA RecursionExists ==
  ASSUME NEW A, NEW first \in A, NEW N \in Nat, NEW step \in [1 .. N -> [A -> A]]
  PROVE  \E f \in [0 .. N -> A] :
           /\ f[0] = first
           /\ \A i \in 1 .. N : f[i] = step[i][f[i - 1]]
  <1> DEFINE Solves(f, n) == /\ f[0] = first
                             /\ \A i \in 1 .. n : f[i] = step[i][f[i - 1]]
             T == {n \in Nat : n <= N => \E f \in [0 .. n -> A] : Solves(f, n)}
  <1>1. 0 \in T
    <2> DEFINE f == [i \in 0 .. 0 |-> first]
    <2>1. f \in [0 .. 0 -> A] /\ Solves(f, 0)
      OBVIOUS
    <2>2. QED
      BY <2>1
  <1>2. ASSUME NEW n \in T PROVE n + 1 \in T
    <2>1. SUFFICES ASSUME n + 1 <= N
                   PROVE  \E g \in [0 .. n + 1 -> A] : Solves(g, n + 1)
      OBVIOUS
    <2>2. n \in Nat /\ n + 1 \in 1 .. N
      BY <2>1
    <2>3. PICK f \in [0 .. n -> A] : Solves(f, n)
      BY <2>1, <2>2
    <2> DEFINE g == [i \in 0 .. n + 1 |-> IF i <= n THEN f[i] ELSE step[n + 1][f[n]]]
    <2>4. step[n + 1] \in [A -> A] /\ f[n] \in A
      BY <2>2, <2>3
    <2>5. g \in [0 .. n + 1 -> A]
      BY <2>2, <2>3, <2>4
    <2>6. g[0] = first
      BY <2>2, <2>3
    <2>7. ASSUME NEW i \in 1 .. n + 1 PROVE g[i] = step[i][g[i - 1]]
      <3>1. CASE i <= n
        BY <2>2, <2>3, <3>1
      <3>2. CASE i = n + 1
        BY <2>2, <2>3, <3>2
      <3>3. QED
        BY <2>2, <3>1, <3>2
    <2>8. QED
      BY <2>5, <2>6, <2>7
  <1>3. T = Nat
    <2>1. T \in SUBSET Nat
      OBVIOUS
    <2> HIDE DEF T
    <2>2. QED
      BY <1>1, <1>2, <2>1, SetInduction
  <1> HIDE DEF T
  <1>4. N \in T
    BY <1>3
  <1>5. QED
    BY <1>4 DEF T

----------------------------------------------------------------------------
(* The checksum.                                                           *)

(* The CRC register stays a 16-bit register. *)
LEMMA XorType ==
  ASSUME NEW a \in Register, NEW b \in Register
  PROVE  Xor[a][b] \in Register
  <1>1. Xor[a] = [c \in Register |-> (a \ c) \cup (c \ a)]
    BY DEF Xor
  <1>2. Xor[a][b] = (a \ b) \cup (b \ a)
    BY <1>1
  <1>3. QED
    BY <1>2 DEF Register

LEMMA CrcBitType ==
  ASSUME NEW crc \in Register
  PROVE  CrcBit[crc] \in Register
  <1> DEFINE shifted == {k + 1 : k \in crc \ {15}}
  <1>1. shifted \in Register
    BY DEF Register
  <1>2. EXLINK_CRC16_POLY \in Register
    BY DEF Register, EXLINK_CRC16_POLY
  <1>3. CrcBit[crc] = IF 15 \in crc THEN Xor[shifted][EXLINK_CRC16_POLY] ELSE shifted
    BY DEF CrcBit
  <1>4. QED
    BY <1>1, <1>2, <1>3, XorType

LEMMA CrcUpdateType ==
  ASSUME NEW crc \in Register, NEW b
  PROVE  exlink_crc16_update(crc, b) \in Register
  <1> DEFINE high == {k + 8 : k \in Bits(b) \cap (0 .. 7)}
  <1>1. high \in Register
    BY DEF Register
  <1>2. Xor[crc][high] \in Register
    BY <1>1, XorType
  <1>3. QED
    BY <1>2, CrcBitType, Zenon DEF exlink_crc16_update

LEMMA CrcInitType == EXLINK_CRC16_INIT \in Register
  BY DEF EXLINK_CRC16_INIT, Register

(* f[i] is the register after i bytes of buf, for the first n bytes. *)
Sums(buf, n, f) ==
  /\ f[0] = EXLINK_CRC16_INIT
  /\ \A i \in 1 .. n : f[i] = exlink_crc16_update(f[i - 1], buf[i])

(* Strings that agree on n bytes have the same registers. *)
LEMMA SumsAgree ==
  ASSUME NEW n \in Nat, NEW s, NEW t, \A i \in 1 .. n : s[i] = t[i],
         NEW f, Sums(s, n, f), NEW g, Sums(t, n, g)
  PROVE  f[n] = g[n]
  <1> DEFINE T == {i \in Nat : i <= n => f[i] = g[i]}
  <1>1. 0 \in T
    BY DEF Sums
  <1>2. ASSUME NEW i \in T PROVE i + 1 \in T
    <2>1. CASE i + 1 <= n
      <3>1. i + 1 \in 1 .. n /\ (i + 1) - 1 = i
        BY <2>1
      <3>2. f[i + 1] = exlink_crc16_update(f[i], s[i + 1])
        BY <3>1 DEF Sums
      <3>3. g[i + 1] = exlink_crc16_update(g[i], t[i + 1])
        BY <3>1 DEF Sums
      <3>4. f[i] = g[i]
        BY <2>1
      <3>5. QED
        BY <3>1, <3>2, <3>3, <3>4
    <2>2. QED
      BY <2>1
  <1>3. T = Nat
    <2>1. T \in SUBSET Nat
      OBVIOUS
    <2> HIDE DEF T
    <2>2. QED
      BY <1>1, <1>2, <2>1, SetInduction
  <1>4. n \in T
    BY <1>3
  <1>5. QED
    BY <1>4

(* The checksum is the last of these registers. *)
LEMMA CrcSums ==
  ASSUME NEW buf, Len(buf) \in Nat
  PROVE  /\ exlink_crc16(buf) \in Register
         /\ \E f : Sums(buf, Len(buf), f) /\ exlink_crc16(buf) = f[Len(buf)]
  <1> DEFINE N == Len(buf)
             step == [i \in 1 .. N |->
                        [crc \in Register |-> exlink_crc16_update(crc, buf[i])]]
             Solution(f) == f = [i \in 0 .. N |->
                                   IF i = 0 THEN EXLINK_CRC16_INIT
                                   ELSE exlink_crc16_update(f[i - 1], buf[i])]
  <1>1. step \in [1 .. N -> [Register -> Register]]
    BY CrcUpdateType
  <1>2. PICK f \in [0 .. N -> Register] :
          /\ f[0] = EXLINK_CRC16_INIT
          /\ \A i \in 1 .. N : f[i] = step[i][f[i - 1]]
    <2> HIDE DEF step
    <2>1. QED
      BY <1>1, CrcInitType, RecursionExists
  <1>3. \A i \in 1 .. N : f[i] = exlink_crc16_update(f[i - 1], buf[i])
    <2>1. ASSUME NEW i \in 1 .. N
          PROVE  f[i] = exlink_crc16_update(f[i - 1], buf[i])
      <3>1. f[i - 1] \in Register
        BY <1>2
      <3>2. QED
        BY <1>2, <3>1
    <2>2. QED
      BY <2>1
  <1>4. Solution(f)
    BY <1>2, <1>3
  <1> DEFINE g == CHOOSE h : Solution(h)
  <1>5. Solution(g)
    BY <1>4
  <1>6. exlink_crc16(buf) = g[N]
    BY DEF exlink_crc16
  <1> HIDE DEF g
  <1>7. Sums(buf, N, g)
    BY <1>5 DEF Sums
  <1>8. Sums(buf, N, f)
    BY <1>2, <1>3 DEF Sums
  <1>9. f[N] = g[N]
    BY <1>7, <1>8, SumsAgree
  <1>10. QED
    BY <1>2, <1>6, <1>7, <1>9

(* One more byte is one more update. *)
LEMMA CrcEmpty == exlink_crc16(<<>>) = EXLINK_CRC16_INIT
  <1>1. Len(<<>>) = 0
    OBVIOUS
  <1>2. PICK f : Sums(<<>>, 0, f) /\ exlink_crc16(<<>>) = f[0]
    BY <1>1, CrcSums
  <1>3. QED
    BY <1>2 DEF Sums

LEMMA CrcAppend ==
  ASSUME NEW buf \in Bytes, NEW b \in Byte
  PROVE  exlink_crc16(Append(buf, b)) = exlink_crc16_update(exlink_crc16(buf), b)
  <1> DEFINE n == Len(buf)
             more == Append(buf, b)
  <1>1. /\ n \in Nat
        /\ Len(more) = n + 1
        /\ \A i \in 1 .. n : more[i] = buf[i]
        /\ more[n + 1] = b
    BY AppendProperties, LenProperties DEF Bytes
  <1> HIDE DEF more
  <1>2. PICK f : Sums(buf, n, f) /\ exlink_crc16(buf) = f[n]
    BY <1>1, CrcSums
  <1>3. PICK g : Sums(more, n + 1, g) /\ exlink_crc16(more) = g[n + 1]
    BY <1>1, CrcSums
  <1>4. g[n + 1] = exlink_crc16_update(g[n], b)
    <2>1. n + 1 \in 1 .. n + 1 /\ (n + 1) - 1 = n
      BY <1>1
    <2>2. QED
      BY <1>1, <1>3, <2>1 DEF Sums
  <1>5. Sums(more, n, g)
    BY <1>1, <1>3 DEF Sums
  <1>6. f[n] = g[n]
    <2>1. \A i \in 1 .. n : buf[i] = more[i]
      BY <1>1
    <2>2. QED
      BY <1>1, <1>2, <1>5, <2>1, SumsAgree, SMTT(30)
  <1>7. QED
    BY <1>2, <1>3, <1>4, <1>6 DEF more

----------------------------------------------------------------------------
(* Registers and numbers.                                                  *)

LEMMA HalfAndBit ==
  ASSUME NEW n \in Nat
  PROVE  n = 2 * (n \div 2) + (n % 2)
  OBVIOUS

LEMMA InWord ==
  ASSUME NEW n \in Nat, n <= 65535
  PROVE  n \in Word
  <1> DEFINE N == 65535
  <1>1. N \in Nat /\ n <= N
    OBVIOUS
  <1> HIDE DEF N
  <1>2. n \in 0 .. N
    BY <1>1
  <1>3. QED
    BY <1>2 DEF N, Word

LEMMA TopBit ==
  ASSUME NEW n \in Nat
  PROVE  n \div 32768 <= 1 <=> n <= 65535
  <1>1. ASSUME n \div 32768 <= 1 PROVE n <= 65535
    BY <1>1
  <1>2. ASSUME n <= 65535 PROVE n \div 32768 <= 1
    BY <1>2
  <1>3. QED
    BY <1>1, <1>2

(* Dividing by the next weight is halving once more. *)
LEMMA Halves ==
  ASSUME NEW n \in Nat
  PROVE  /\ n \div Weight[0] = n
         /\ \A k \in 0 .. 15 : n \div Weight[k] \in Nat
         /\ \A k \in 0 .. 14 : n \div Weight[k + 1] = (n \div Weight[k]) \div 2
  <1>1. /\ n \div 2 = (n \div 1) \div 2
        /\ n \div 4 = (n \div 2) \div 2
        /\ n \div 8 = (n \div 4) \div 2
        /\ n \div 16 = (n \div 8) \div 2
        /\ n \div 32 = (n \div 16) \div 2
        /\ n \div 64 = (n \div 32) \div 2
        /\ n \div 128 = (n \div 64) \div 2
        /\ n \div 256 = (n \div 128) \div 2
        /\ n \div 512 = (n \div 256) \div 2
        /\ n \div 1024 = (n \div 512) \div 2
        /\ n \div 2048 = (n \div 1024) \div 2
        /\ n \div 4096 = (n \div 2048) \div 2
        /\ n \div 8192 = (n \div 4096) \div 2
        /\ n \div 16384 = (n \div 8192) \div 2
        /\ n \div 32768 = (n \div 16384) \div 2
    OBVIOUS
  <1>2. \A k \in 0 .. 14 :
          k \in {0, 1, 2, 3, 4, 5, 6, 7, 8, 9, 10, 11, 12, 13, 14}
    OBVIOUS
  <1>3. /\ Weight[0] = 1 /\ Weight[1] = 2 /\ Weight[2] = 4 /\ Weight[3] = 8
        /\ Weight[4] = 16 /\ Weight[5] = 32 /\ Weight[6] = 64 /\ Weight[7] = 128
        /\ Weight[8] = 256 /\ Weight[9] = 512 /\ Weight[10] = 1024
        /\ Weight[11] = 2048 /\ Weight[12] = 4096 /\ Weight[13] = 8192
        /\ Weight[14] = 16384 /\ Weight[15] = 32768
    BY DEF Weight
  <1>4. \A k \in 0 .. 14 : n \div Weight[k + 1] = (n \div Weight[k]) \div 2
    BY <1>1, <1>2, <1>3
  <1>5. n \div Weight[0] = n
    BY <1>3
  <1>6. \A k \in 0 .. 15 : n \div Weight[k] \in Nat
    BY <1>3
  <1>7. QED
    BY <1>4, <1>5, <1>6

(* The number in a register, bit by bit from the top. *)
LEMMA ValueTop ==
  ASSUME NEW crc \in Register
  PROVE  \E top \in [0 .. 16 -> Nat] :
           /\ top[0] = 0
           /\ \A k \in 1 .. 16 :
                top[k] = 2 * top[k - 1] + (IF 16 - k \in crc THEN 1 ELSE 0)
           /\ Value[crc] = top[16]
  <1> DEFINE bit(k) == IF 16 - k \in crc THEN 1 ELSE 0
             step == [k \in 1 .. 16 |-> [n \in Nat |-> 2 * n + bit(k)]]
             Solution(f) == f = [k \in 0 .. 16 |-> IF k = 0 THEN 0
                                                  ELSE 2 * f[k - 1] + bit(k)]
  <1>1. step \in [1 .. 16 -> [Nat -> Nat]]
    OBVIOUS
  <1>2. PICK f \in [0 .. 16 -> Nat] :
          /\ f[0] = 0
          /\ \A k \in 1 .. 16 : f[k] = step[k][f[k - 1]]
    <2> DEFINE A == Nat
               N == 16
               first == 0
    <2>1. step \in [1 .. N -> [A -> A]] /\ first \in A /\ N \in Nat
      BY <1>1
    <2> HIDE DEF step, A, N, first
    <2>2. \E f \in [0 .. N -> A] :
            /\ f[0] = first
            /\ \A k \in 1 .. N : f[k] = step[k][f[k - 1]]
      BY <2>1, RecursionExists, SMTT(30)
    <2>3. QED
      BY <2>2 DEF A, N, first
  <1>3. \A k \in 1 .. 16 : f[k] = 2 * f[k - 1] + bit(k)
    <2>1. ASSUME NEW k \in 1 .. 16
          PROVE  f[k] = 2 * f[k - 1] + bit(k)
      <3>1. f[k - 1] \in Nat
        BY <1>2
      <3>2. QED
        BY <1>2, <3>1
    <2>2. QED
      BY <2>1
  <1>4. Solution(f)
    BY <1>2, <1>3
  <1> DEFINE top == CHOOSE h : Solution(h)
  <1>5. Solution(top)
    BY <1>4, Zenon
  <1>6. Value[crc] = top[16]
    BY DEF Value
  <1> HIDE DEF top
  <1>7. /\ top[0] = 0
        /\ \A k \in 1 .. 16 : top[k] = 2 * top[k - 1] + bit(k)
    BY <1>5
  <1>8. \A k \in 0 .. 16 : top[k] \in Nat
    <2> DEFINE T == {k \in Nat : k <= 16 => top[k] \in Nat}
    <2>1. 0 \in T
      BY <1>7
    <2>2. ASSUME NEW k \in T PROVE k + 1 \in T
      <3>1. CASE k + 1 <= 16
        <4>1. k + 1 \in 1 .. 16 /\ (k + 1) - 1 = k /\ top[k] \in Nat
          BY <3>1
        <4>2. top[k + 1] = 2 * top[k] + bit(k + 1)
          BY <1>7, <4>1
        <4>3. QED
          BY <4>1, <4>2
      <3>2. QED
        BY <3>1
    <2>3. T = Nat
      <3>1. T \in SUBSET Nat
        OBVIOUS
      <3> HIDE DEF T
      <3>2. QED
        BY <2>1, <2>2, <3>1, SetInduction
    <2>4. QED
      BY <2>3
  <1>9. top \in [0 .. 16 -> Nat]
    BY <1>5, <1>8
  <1>10. QED
    BY <1>6, <1>7, <1>9

(* A register and its number stand for each other. *)
LEMMA BitsOfValue ==
  ASSUME NEW crc \in Register
  PROVE  Value[crc] \in Word /\ Bits(Value[crc]) = crc
  <1> DEFINE bit(k) == IF 16 - k \in crc THEN 1 ELSE 0
  <1>1. PICK top \in [0 .. 16 -> Nat] :
          /\ top[0] = 0
          /\ \A k \in 1 .. 16 : top[k] = 2 * top[k - 1] + bit(k)
          /\ Value[crc] = top[16]
    BY ValueTop
  <1> DEFINE n == top[16]
  <1>2. n \in Nat
    BY <1>1
  <1>3. \A j \in 0 .. 15 : n \div Weight[j] = top[16 - j]
    <2> DEFINE T == {j \in Nat : j <= 15 => n \div Weight[j] = top[16 - j]}
    <2>1. 0 \in T
      BY <1>2, Halves
    <2>2. ASSUME NEW j \in T PROVE j + 1 \in T
      <3>1. CASE j + 1 <= 15
        <4>1. j \in 0 .. 14 /\ n \div Weight[j] = top[16 - j]
          BY <3>1
        <4>2. n \div Weight[j + 1] = top[16 - j] \div 2
          BY <1>2, <4>1, Halves
        <4>3. 16 - j \in 1 .. 16 /\ (16 - j) - 1 = 16 - (j + 1) /\ 16 - (j + 1) \in 0 .. 16
          BY <4>1
        <4>4. top[16 - j] = 2 * top[16 - (j + 1)] + bit(16 - j)
          BY <1>1, <4>3
        <4>5. top[16 - (j + 1)] \in Nat /\ bit(16 - j) \in 0 .. 1
          BY <4>3
        <4> DEFINE x == top[16 - (j + 1)]
        <4> HIDE DEF x, bit
        <4>6. top[16 - j] \div 2 = x
          BY <4>4, <4>5 DEF x
        <4>7. QED
          BY <4>2, <4>6 DEF x
      <3>2. QED
        BY <3>1
    <2>3. T = Nat
      <3>1. T \in SUBSET Nat
        OBVIOUS
      <3> HIDE DEF T
      <3>2. QED
        BY <2>1, <2>2, <3>1, SetInduction
    <2>4. QED
      BY <2>3
  <1>4. n \in Word
    <2>1. n \div 32768 = top[1]
      BY <1>3 DEF Weight
    <2>2. top[1] \in 0 .. 1
      BY <1>1
    <2>3. n \div 32768 <= 1
      BY <2>1, <2>2
    <2>4. n <= 65535
      BY <1>2, <2>3, TopBit
    <2>5. QED
      BY <1>2, <2>4, InWord
  <1>5. ASSUME NEW j \in 0 .. 15
        PROVE  (n \div Weight[j]) % 2 = 1 <=> j \in crc
    <2>1. 16 - j \in 1 .. 16 /\ (16 - j) - 1 \in 0 .. 16 /\ 16 - (16 - j) = j
      OBVIOUS
    <2> DEFINE x == top[(16 - j) - 1]
    <2>2. x \in Nat
      BY <2>1
    <2>3. top[16 - j] = 2 * x + (IF j \in crc THEN 1 ELSE 0)
      BY <1>1, <2>1
    <2> HIDE DEF x
    <2>4. top[16 - j] % 2 = 1 <=> j \in crc
      <3>1. CASE j \in crc
        BY <2>2, <2>3, <3>1
      <3>2. CASE j \notin crc
        BY <2>2, <2>3, <3>2
      <3>3. QED
        BY <3>1, <3>2
    <2>5. QED
      BY <1>3, <2>4
  <1>6. Bits(n) = crc
    BY <1>5 DEF Bits, Register
  <1>7. QED
    BY <1>1, <1>4, <1>6

LEMMA ValueOfBits ==
  ASSUME NEW n \in Word
  PROVE  Bits(n) \in Register /\ Value[Bits(n)] = n
  <1> DEFINE crc == Bits(n)
             bit(k) == IF 16 - k \in crc THEN 1 ELSE 0
  <1>1. crc \in Register
    BY DEF Bits, Register
  <1>2. PICK top \in [0 .. 16 -> Nat] :
          /\ top[0] = 0
          /\ \A k \in 1 .. 16 : top[k] = 2 * top[k - 1] + bit(k)
          /\ Value[crc] = top[16]
    <2> HIDE DEF crc
    <2>1. QED
      BY <1>1, ValueTop
  <1>3. n \in Nat
    BY SMTT(30) DEF Word
  <1>4. \A j \in 0 .. 15 : n \div Weight[j] \in Nat
    BY <1>3, Halves
  <1>5. \A j \in 0 .. 15 :
          (IF j \in crc THEN 1 ELSE 0) = (n \div Weight[j]) % 2
    <2>1. \A j \in 0 .. 15 : (n \div Weight[j]) % 2 \in 0 .. 1
      BY <1>4
    <2>2. QED
      BY <2>1 DEF Bits
  <1> HIDE DEF crc
  <1>6. \A k \in 1 .. 16 : top[k] = n \div Weight[16 - k]
    <2> DEFINE T == {k \in Nat : k + 1 <= 16 => top[k + 1] = n \div Weight[16 - (k + 1)]}
    <2>1. 0 \in T
      <3>1. top[1] = bit(1)
        BY <1>2
      <3>2. bit(1) = (n \div Weight[15]) % 2
        BY <1>5
      <3>3. n \div 32768 \in 0 .. 1
        <4>1. n \in Nat /\ n <= 65535
          BY SMTT(30) DEF Word
        <4>2. n \div 32768 \in Nat
          BY <4>1
        <4>3. QED
          BY <4>1, <4>2, TopBit
      <3>4. Weight[15] = 32768
        BY DEF Weight
      <3>5. QED
        BY <3>1, <3>2, <3>3, <3>4
    <2>2. ASSUME NEW k \in T PROVE k + 1 \in T
      <3>1. CASE (k + 1) + 1 <= 16
        <4> DEFINE j == 15 - (k + 1)
        <4>1. /\ k \in Nat /\ j \in 0 .. 14 /\ 16 - (k + 1) = j + 1
              /\ 16 - ((k + 1) + 1) = j /\ (k + 1) + 1 \in 1 .. 16
              /\ ((k + 1) + 1) - 1 = k + 1
          BY <3>1
        <4>2. top[k + 1] = n \div Weight[j + 1]
          BY <3>1, <4>1
        <4>3. top[(k + 1) + 1] = 2 * top[k + 1] + (IF j \in crc THEN 1 ELSE 0)
          BY <1>2, <4>1
        <4>4. (IF j \in crc THEN 1 ELSE 0) = (n \div Weight[j]) % 2
          BY <1>5, <4>1
        <4> HIDE DEF j
        <4>5. n \div Weight[j + 1] = (n \div Weight[j]) \div 2
          BY <1>3, <4>1, Halves
        <4> DEFINE x == n \div Weight[j]
        <4>6. x \in Nat
          BY <1>4, <4>1
        <4> HIDE DEF x
        <4>66. x = 2 * (x \div 2) + (x % 2)
          BY <4>6, HalfAndBit
        <4>7. top[(k + 1) + 1] = x
          BY <4>2, <4>3, <4>4, <4>5, <4>6, <4>66 DEF x
        <4>8. QED
          BY <4>1, <4>7 DEF x
      <3>2. QED
        BY <3>1
    <2>3. T = Nat
      <3>1. T \in SUBSET Nat
        OBVIOUS
      <3> HIDE DEF T
      <3>2. QED
        BY <2>1, <2>2, <3>1, SetInduction
    <2>4. ASSUME NEW k \in 1 .. 16 PROVE top[k] = n \div Weight[16 - k]
      <3>1. k - 1 \in Nat /\ (k - 1) + 1 = k
        OBVIOUS
      <3>2. k - 1 \in T
        BY <2>3, <3>1
      <3>3. QED
        BY <3>1, <3>2
    <2>5. QED
      BY <2>4
  <1>7. top[16] = n
    BY <1>3, <1>6, Halves
  <1>8. QED
    BY <1>1, <1>2, <1>7 DEF crc

(* The two bytes of a word. *)
LEMMA TwoBytes ==
  ASSUME NEW low \in Byte, NEW high \in Byte
  PROVE  /\ low + 256 * high \in Word
         /\ LowByte(low + 256 * high) = low
         /\ HighByte(low + 256 * high) = high
  <1>1. /\ low \in Nat /\ low <= 255
        /\ high \in Nat /\ high <= 255
    BY DEF Byte
  <1>2. low + 256 * high \in Nat /\ low + 256 * high <= 65535
    BY <1>1
  <1>3. (low + 256 * high) % 256 = low
    BY <1>1
  <1>4. (low + 256 * high) \div 256 = high
    BY <1>1
  <1>5. high % 256 = high
    BY <1>1
  <1>6. QED
    BY <1>2, <1>3, <1>4, <1>5, InWord DEF LowByte, HighByte

LEMMA BytesOfWord ==
  ASSUME NEW n \in Word
  PROVE  /\ LowByte(n) \in Byte /\ HighByte(n) \in Byte
         /\ LowByte(n) + 256 * HighByte(n) = n
  <1>1. n \in Nat /\ n <= 65535
    BY DEF Word
  <1>2. n % 256 \in 0 .. 255 /\ n \div 256 \in 0 .. 255
    BY <1>1
  <1>3. (n \div 256) % 256 = n \div 256
    BY <1>2
  <1>4. (n % 256) + 256 * (n \div 256) = n
    BY <1>1
  <1>5. QED
    BY <1>2, <1>3, <1>4 DEF LowByte, HighByte, Byte

----------------------------------------------------------------------------
(* Byte strings.                                                           *)

LEMMA Magics == EXLINK_MAGIC0 \in Byte /\ EXLINK_MAGIC1 \in Byte
  BY DEF EXLINK_MAGIC0, EXLINK_MAGIC1, Byte

(* The strings of up to five bytes that a header is made of. *)
LEMMA AppendIs ==
  ASSUME NEW s \in Bytes, NEW x \in Byte, NEW t \in Bytes,
         Len(t) = Len(s) + 1, t[Len(s) + 1] = x,
         \A i \in 1 .. Len(s) : t[i] = s[i]
  PROVE  Append(s, x) = t
  <1> DEFINE u == Append(s, x)
  <1>1. /\ u \in Bytes
        /\ Len(u) = Len(s) + 1
        /\ \A i \in 1 .. Len(s) : u[i] = s[i]
        /\ u[Len(s) + 1] = x
    BY AppendProperties DEF Bytes
  <1>2. Len(s) \in Nat
    BY LenProperties DEF Bytes
  <1> HIDE DEF u
  <1>3. \A i \in 1 .. Len(u) : u[i] = t[i]
    BY <1>1, <1>2
  <1>4. u = t
    BY <1>1, <1>3, SeqEqual DEF Bytes
  <1>5. QED
    BY <1>4 DEF u

LEMMA Headers ==
  /\ <<>> \in Bytes
  /\ \A a \in Byte :
       <<a>> \in Bytes /\ Append(<<>>, a) = <<a>>
  /\ \A a, b \in Byte :
       <<a, b>> \in Bytes /\ Append(<<a>>, b) = <<a, b>>
  /\ \A a, b, c \in Byte :
       <<a, b, c>> \in Bytes /\ Append(<<a, b>>, c) = <<a, b, c>>
  /\ \A a, b, c, d \in Byte :
       <<a, b, c, d>> \in Bytes /\ Append(<<a, b, c>>, d) = <<a, b, c, d>>
  /\ \A a, b, c, d, e \in Byte :
       <<a, b, c, d, e>> \in Bytes /\ Append(<<a, b, c, d>>, e) = <<a, b, c, d, e>>
  <1>1. <<>> \in Bytes
    BY DEF Bytes
  <1>2. ASSUME NEW a \in Byte
        PROVE  <<a>> \in Bytes /\ Append(<<>>, a) = <<a>>
    <2> DEFINE s == <<>>
               t == <<a>>
    <2>1. /\ s \in Bytes /\ t \in Bytes
          /\ Len(t) = Len(s) + 1 /\ t[Len(s) + 1] = a
      BY DEF Bytes
    <2>2. \A i \in 1 .. Len(s) : t[i] = s[i]
      OBVIOUS
    <2> HIDE DEF s, t
    <2>3. Append(s, a) = t
      BY <2>1, <2>2, AppendIs
    <2>4. QED
      BY <2>1, <2>3 DEF s, t
  <1>3. ASSUME NEW a \in Byte, NEW b \in Byte
        PROVE  <<a, b>> \in Bytes /\ Append(<<a>>, b) = <<a, b>>
    <2> DEFINE s == <<a>>
               t == <<a, b>>
    <2>1. /\ s \in Bytes /\ t \in Bytes
          /\ Len(t) = Len(s) + 1 /\ t[Len(s) + 1] = b
      BY DEF Bytes
    <2>2. \A i \in 1 .. Len(s) : t[i] = s[i]
      OBVIOUS
    <2> HIDE DEF s, t
    <2>3. Append(s, b) = t
      BY <2>1, <2>2, AppendIs
    <2>4. QED
      BY <2>1, <2>3 DEF s, t
  <1>4. ASSUME NEW a \in Byte, NEW b \in Byte, NEW c \in Byte
        PROVE  <<a, b, c>> \in Bytes /\ Append(<<a, b>>, c) = <<a, b, c>>
    <2> DEFINE s == <<a, b>>
               t == <<a, b, c>>
    <2>1. /\ s \in Bytes /\ t \in Bytes
          /\ Len(t) = Len(s) + 1 /\ t[Len(s) + 1] = c
      BY DEF Bytes
    <2>2. \A i \in 1 .. Len(s) : t[i] = s[i]
      OBVIOUS
    <2> HIDE DEF s, t
    <2>3. Append(s, c) = t
      BY <2>1, <2>2, AppendIs
    <2>4. QED
      BY <2>1, <2>3 DEF s, t
  <1>5. ASSUME NEW a \in Byte, NEW b \in Byte, NEW c \in Byte, NEW d \in Byte
        PROVE  <<a, b, c, d>> \in Bytes /\ Append(<<a, b, c>>, d) = <<a, b, c, d>>
    <2> DEFINE s == <<a, b, c>>
               t == <<a, b, c, d>>
    <2>1. /\ s \in Bytes /\ t \in Bytes
          /\ Len(t) = Len(s) + 1 /\ t[Len(s) + 1] = d
      BY DEF Bytes
    <2>2. \A i \in 1 .. Len(s) : t[i] = s[i]
      OBVIOUS
    <2> HIDE DEF s, t
    <2>3. Append(s, d) = t
      BY <2>1, <2>2, AppendIs
    <2>4. QED
      BY <2>1, <2>3 DEF s, t
  <1>6. ASSUME NEW a \in Byte, NEW b \in Byte, NEW c \in Byte, NEW d \in Byte, NEW e \in Byte
        PROVE  <<a, b, c, d, e>> \in Bytes /\ Append(<<a, b, c, d>>, e) = <<a, b, c, d, e>>
    <2> DEFINE s == <<a, b, c, d>>
               t == <<a, b, c, d, e>>
    <2>1. /\ s \in Bytes /\ t \in Bytes
          /\ Len(t) = Len(s) + 1 /\ t[Len(s) + 1] = e
      BY DEF Bytes
    <2>2. \A i \in 1 .. Len(s) : t[i] = s[i]
      OBVIOUS
    <2> HIDE DEF s, t
    <2>3. Append(s, e) = t
      BY <2>1, <2>2, AppendIs
    <2>4. QED
      BY <2>1, <2>3 DEF s, t
  <1>7. QED
    BY <1>1, <1>2, <1>3, <1>4, <1>5, <1>6

(* A byte after a concatenation. *)
LEMMA AppendConcat ==
  ASSUME NEW s \in Bytes, NEW t \in Bytes, NEW b \in Byte
  PROVE  Append(s \o t, b) = s \o Append(t, b)
  <1>1. s \o t \in Bytes /\ <<b>> \in Bytes
    BY ConcatProperties DEF Bytes
  <1>2. Append(s \o t, b) = (s \o t) \o <<b>>
    BY <1>1, AppendIsConcat DEF Bytes
  <1>3. Append(t, b) = t \o <<b>>
    BY AppendIsConcat DEF Bytes
  <1>4. (s \o t) \o <<b>> = s \o (t \o <<b>>)
    BY <1>1, ConcatAssociative DEF Bytes
  <1>5. QED
    BY <1>2, <1>3, <1>4

(* What may begin a frame is its own longest beginning. *)
LEMMA LeastIndex ==
  ASSUME NEW from \in SUBSET Nat, NEW i \in from, \A j \in from : i <= j
  PROVE  Min(from) = i
  <1>1. Min(from) \in from /\ \A j \in from : Min(from) <= j
    BY DEF Min
  <1>2. Min(from) <= i /\ i <= Min(from) /\ i \in Nat /\ Min(from) \in Nat
    BY <1>1
  <1>3. QED
    BY <1>2

LEMMA WholeBeginning ==
  ASSUME NEW s \in Bytes, MayBegin(s)
  PROVE  LongestBeginning(s) = s
  <1> DEFINE from == {i \in 1 .. Len(s) + 1 : MayBegin(SubSeq(s, i, Len(s)))}
  <1>1. SubSeq(s, 1, Len(s)) = s /\ Len(s) \in Nat
    BY SubSeqFull, LenProperties DEF Bytes
  <1>2. 1 \in from
    <2>1. 1 \in 1 .. Len(s) + 1
      BY <1>1
    <2>2. QED
      BY <1>1, <2>1, Zenon
  <1>3. \A j \in from : j \in 1 .. Len(s) + 1
    OBVIOUS
  <1> HIDE DEF from
  <1>4. Min(from) = 1
    <2>1. \A j \in 1 .. Len(s) + 1 : j \in Nat /\ 1 <= j
      BY <1>1
    <2>2. QED
      BY <1>2, <1>3, <2>1, LeastIndex
  <1>5. QED
    BY <1>1, <1>4 DEF LongestBeginning, from

(* One byte: the first magic or nothing; two: the frame goes on, starts    *)
(* over with the second byte, or neither.                                  *)
LEMMA FirstBeginning ==
  ASSUME NEW b \in Byte
  PROVE  LongestBeginning(<<b>>) = IF b = EXLINK_MAGIC0 THEN <<b>> ELSE <<>>
  <1> DEFINE s == <<b>>
             from == {i \in 1 .. Len(s) + 1 : MayBegin(SubSeq(s, i, Len(s)))}
  <1>1. s \in Bytes /\ Len(s) = 1 /\ s[1] = b
    BY DEF Bytes
  <1>2. MayBegin(s) <=> b = EXLINK_MAGIC0
    BY <1>1 DEF MayBegin
  <1>3. MayBegin(<<>>)
    BY DEF MayBegin
  <1> HIDE DEF s
  <1>4. CASE b = EXLINK_MAGIC0
    BY <1>1, <1>2, <1>4, WholeBeginning DEF s
  <1>5. CASE b # EXLINK_MAGIC0
    <2>1. SubSeq(s, 1, 1) = s
      BY <1>1, SubSeqFull DEF Bytes
    <2>2. SubSeq(s, 2, 1) = <<>>
      BY SubSeqEmpty
    <2>3. from = {2}
      <3>1. 1 \notin from
        BY <1>1, <1>2, <1>5, <2>1, Zenon
      <3>2. 2 \in 1 .. Len(s) + 1 /\ \A i \in 1 .. Len(s) + 1 : i = 1 \/ i = 2
        BY <1>1
      <3>3. 2 \in from
        BY <1>1, <1>3, <2>2, <3>2, Zenon
      <3>4. \A i \in from : i = 1 \/ i = 2
        BY <3>2
      <3> HIDE DEF from
      <3>5. QED
        BY <3>1, <3>3, <3>4
    <2> HIDE DEF from
    <2>4. Min(from) = 2
      BY <2>3, LeastIndex
    <2>5. LongestBeginning(s) = SubSeq(s, Min(from), Len(s))
      BY DEF LongestBeginning, from
    <2>6. QED
      BY <1>1, <1>5, <2>2, <2>4, <2>5 DEF s
  <1>6. QED
    BY <1>4, <1>5

LEMMA SecondBeginning ==
  ASSUME NEW b \in Byte
  PROVE  LongestBeginning(<<EXLINK_MAGIC0, b>>) =
           IF b = EXLINK_MAGIC1 THEN <<EXLINK_MAGIC0, b>>
           ELSE IF b = EXLINK_MAGIC0 THEN <<EXLINK_MAGIC0>> ELSE <<>>
  <1> DEFINE s == <<EXLINK_MAGIC0, b>>
             from == {i \in 1 .. Len(s) + 1 : MayBegin(SubSeq(s, i, Len(s)))}
  <1>1. s \in Bytes /\ Len(s) = 2 /\ s[1] = EXLINK_MAGIC0 /\ s[2] = b
    BY Magics DEF Bytes
  <1>2. /\ MayBegin(s) <=> b = EXLINK_MAGIC1
        /\ MayBegin(<<b>>) <=> b = EXLINK_MAGIC0
        /\ MayBegin(<<>>)
    BY <1>1 DEF MayBegin
  <1> HIDE DEF s
  <1>3. CASE b = EXLINK_MAGIC1
    BY <1>1, <1>2, <1>3, WholeBeginning DEF s
  <1>4. CASE b # EXLINK_MAGIC1
    <2>1. SubSeq(s, 1, 2) = s
      BY <1>1, SubSeqFull DEF Bytes
    <2>2. SubSeq(s, 3, 2) = <<>>
      BY SubSeqEmpty
    <2>3. SubSeq(s, 2, 2) = <<b>>
      <3>1. SubSeq(s, 2, 2) = <<s[2]>> \o SubSeq(s, 3, 2)
        <4>1. 2 \in 1 .. Len(s) /\ 2 \in 2 .. Len(s) /\ 2 + 1 = 3
          BY <1>1
        <4>2. SubSeq(s, 2, 2) = <<s[2]>> \o SubSeq(s, 2 + 1, 2)
          BY <1>1, <4>1, SubSeqRecursiveFirst DEF Bytes
        <4>3. QED
          BY <4>1, <4>2
      <3>2. <<b>> \o <<>> = <<b>>
        OBVIOUS
      <3>3. QED
        BY <1>1, <2>2, <3>1, <3>2
    <2>4. /\ 2 \in 1 .. Len(s) + 1 /\ 3 \in 1 .. Len(s) + 1
          /\ \A i \in 1 .. Len(s) + 1 : i = 1 \/ i = 2 \/ i = 3
      BY <1>1
    <2>5. from = IF b = EXLINK_MAGIC0 THEN {2, 3} ELSE {3}
      <3>1. 1 \notin from
        BY <1>1, <1>2, <1>4, <2>1, Zenon
      <3>2. 3 \in from
        BY <1>1, <1>2, <2>2, <2>4, Zenon
      <3>3. 2 \in from <=> b = EXLINK_MAGIC0
        BY <1>1, <1>2, <2>3, <2>4, Zenon
      <3>4. \A i \in from : i = 1 \/ i = 2 \/ i = 3
        BY <2>4
      <3> HIDE DEF from
      <3>5. QED
        BY <3>1, <3>2, <3>3, <3>4
    <2> HIDE DEF from
    <2>6. Min(from) = IF b = EXLINK_MAGIC0 THEN 2 ELSE 3
      <3>1. CASE b = EXLINK_MAGIC0
        BY <2>5, <3>1, LeastIndex
      <3>2. CASE b # EXLINK_MAGIC0
        BY <2>5, <3>2, LeastIndex
      <3>3. QED
        BY <3>1, <3>2
    <2>7. LongestBeginning(s) = SubSeq(s, Min(from), Len(s))
      BY DEF LongestBeginning, from
    <2>8. QED
      BY <1>1, <1>4, <2>2, <2>3, <2>6, <2>7 DEF s
  <1>5. QED
    BY <1>3, <1>4

----------------------------------------------------------------------------
(* The automaton.                                                          *)

(* A field of two bytes holds only the low one until the high one comes.   *)
HalfRead(p) ==
  /\ p.state = "LEN_HI" => p.len \in Byte
  /\ p.state = "CRC_HI" => p.crc_rx \in Byte

(* The bytes the checksum of parser p covers.                              *)
Covered(p) == IF p.state = "CRC_HI" THEN Header(p) \o p.payload ELSE Pending(p)

(* Inside a frame the register is the checksum of the bytes taken, and the *)
(* checksum is only awaited when the payload is whole.                     *)
Accounted(p) ==
  /\ p.state # "MAGIC0" => p.crc_calc = exlink_crc16(Covered(p))
  /\ p.state \in {"CRC_LO", "CRC_HI"} => Len(p.payload) = p.len

Sound(p) == p \in Parser /\ PayloadFits(p) /\ HalfRead(p) /\ Accounted(p)

(* What a byte decides, s being the bytes taken with it, r the value       *)
(* returned and q the parser after it.                                     *)
Judged(s, r, q) ==
  /\ TooLong(s) => r = "BAD_LEN" /\ Pending(q) = <<>>
  /\ Complete(s) => /\ r = IF Intact(s) THEN "OK" ELSE "BAD_CRC"
                    /\ Pending(q) = <<>>
                    /\ q.op = s[3] /\ q.len = Announced(s)
                    /\ q.payload = SubSeq(Body(s), 6, Len(Body(s)))
  /\ ~ TooLong(s) /\ ~ Complete(s) => r = "NONE" /\ Pending(q) = LongestBeginning(s)

LEMMA StateNames ==
  /\ "MAGIC0" \in States /\ "MAGIC1" \in States /\ "OP" \in States
  /\ "LEN_LO" \in States /\ "LEN_HI" \in States /\ "PAYLOAD" \in States
  /\ "CRC_LO" \in States /\ "CRC_HI" \in States
  BY DEF States

(* All the proofs need of the two 16-bit ranges is that they are naturals. *)
LEMMA WordsAreNaturals ==
  /\ EXLINK_MAX_PAYLOAD \in Nat
  /\ \A w \in Word : w \in Nat
  /\ \A b \in Byte : b \in Word
  <1>1. EXLINK_MAX_PAYLOAD \in Nat /\ \A w \in Word : w \in Nat
    BY MaxPayloadAssumption DEF Word
  <1>2. \A b \in Byte : b \in Nat /\ b <= 65535
    BY DEF Byte
  <1>3. QED
    BY <1>1, <1>2, InWord

LEMMA ParserFields ==
  ASSUME NEW p \in Parser
  PROVE  /\ p.state \in States /\ p.op \in Byte /\ p.len \in Word /\ p.payload \in Bytes
         /\ p.crc_calc \in Register /\ p.crc_rx \in Word
         /\ Len(p.payload) \in Nat
  BY DEF Parser, Bytes

LEMMA InitSound ==
  Sound(exlink_parser_init) /\ Pending(exlink_parser_init) = <<>>
  <1> DEFINE p == exlink_parser_init
  <1>1. /\ p.state = "MAGIC0" /\ p.payload = <<>> /\ Len(p.payload) = 0
        /\ p = [state |-> "MAGIC0", op |-> 0, len |-> 0, payload |-> <<>>,
                crc_calc |-> EXLINK_CRC16_INIT, crc_rx |-> 0]
    BY DEF exlink_parser_init
  <1>2. 0 \in Byte /\ 0 \in Word /\ <<>> \in Bytes
    BY DEF Byte, Word, Bytes
  <1>3. p \in Parser
    BY <1>1, <1>2, CrcInitType, StateNames DEF Parser
  <1> HIDE DEF p
  <1>4. PayloadFits(p) /\ HalfRead(p) /\ Accounted(p)
    BY <1>1, WordsAreNaturals DEF PayloadFits, HalfRead, Accounted
  <1>5. QED
    BY <1>1, <1>3, <1>4 DEF Sound, Pending, p

(* A header and what follows it. *)
LEMMA HeaderBytes ==
  ASSUME NEW p \in Parser
  PROVE  /\ Header(p) \in Bytes /\ Len(Header(p)) = 5
         /\ Header(p)[1] = EXLINK_MAGIC0 /\ Header(p)[2] = EXLINK_MAGIC1
         /\ Header(p)[3] = p.op
         /\ Header(p)[4] = LowByte(p.len) /\ Header(p)[5] = HighByte(p.len)
  <1>1. p.op \in Byte /\ LowByte(p.len) \in Byte /\ HighByte(p.len) \in Byte
    BY ParserFields, BytesOfWord
  <1>2. QED
    BY <1>1, Magics, Headers DEF Header

LEMMA AfterHeader ==
  ASSUME NEW p \in Parser, NEW t \in Bytes, NEW s, s = Header(p) \o t
  PROVE  /\ s \in Bytes /\ Len(s) = 5 + Len(t) /\ Len(t) \in Nat
         /\ s[3] = p.op /\ Announced(s) = p.len /\ MayBegin(s)
         /\ \A i \in 1 .. Len(t) : s[5 + i] = t[i]
  <1>1. /\ s \in Bytes /\ Len(s) = 5 + Len(t) /\ Len(t) \in Nat
        /\ \A i \in 1 .. 5 + Len(t) : s[i] = IF i <= 5 THEN Header(p)[i] ELSE t[i - 5]
    <2>1. Header(p) \in Bytes /\ Len(Header(p)) = 5
      BY HeaderBytes
    <2>2. Len(t) \in Nat
      BY LenProperties DEF Bytes
    <2> DEFINE h == Header(p)
    <2>3. /\ h \o t \in Bytes
          /\ Len(h \o t) = Len(h) + Len(t)
          /\ \A i \in 1 .. Len(h) + Len(t) :
               (h \o t)[i] = IF i <= Len(h) THEN h[i] ELSE t[i - Len(h)]
      BY <2>1, ConcatProperties DEF Bytes
    <2>4. QED
      BY <2>1, <2>2, <2>3
  <1>2. s[1] = EXLINK_MAGIC0 /\ s[2] = EXLINK_MAGIC1 /\ s[3] = p.op
    BY <1>1, HeaderBytes
  <1>3. s[4] = LowByte(p.len) /\ s[5] = HighByte(p.len)
    BY <1>1, HeaderBytes
  <1>4. Announced(s) = p.len
    BY <1>3, ParserFields, BytesOfWord DEF Announced
  <1>5. \A i \in 1 .. Len(t) : s[5 + i] = t[i]
    <2>1. ASSUME NEW i \in 1 .. Len(t) PROVE s[5 + i] = t[i]
      <3>1. 5 + i \in 1 .. 5 + Len(t) /\ ~ (5 + i <= 5) /\ (5 + i) - 5 = i
        BY <1>1
      <3>2. QED
        BY <1>1, <3>1
    <2>2. QED
      BY <2>1
  <1>6. QED
    BY <1>1, <1>2, <1>4, <1>5 DEF MayBegin

(* Fewer bytes than a header decide nothing. *)
LEMMA ShortUndecided ==
  ASSUME NEW s, Len(s) \in {1, 2, 3, 4}
  PROVE  ~ TooLong(s) /\ ~ Complete(s)
  <1>1. \A n \in {1, 2, 3, 4} : n # 5 /\ ~ (n >= 5)
    OBVIOUS
  <1>2. QED
    BY <1>1 DEF TooLong, Complete, EXLINK_HEADER_LEN

(* A byte the checksum covers, in the middle of a frame. *)
LEMMA Covers ==
  ASSUME NEW p, Sound(p), p.state \notin {"MAGIC0", "CRC_HI"}, Pending(p) \in Bytes,
         NEW b \in Byte
  PROVE  exlink_crc16_update(p.crc_calc, b) = exlink_crc16(Append(Pending(p), b))
  <1>1. p.crc_calc = exlink_crc16(Pending(p))
    BY DEF Sound, Accounted, Covered
  <1>2. QED
    BY <1>1, CrcAppend

(* One byte, state by state. *)
LEMMA FeedMagic0State ==
  ASSUME NEW p, Sound(p), NEW b \in Byte, p.state = "MAGIC0",
         NEW q, q = exlink_parser_feed(p, b), NEW r, r = FeedResult(p, b)
  PROVE  Sound(q) /\ Judged(Append(Pending(p), b), r, q)
  <1> DEFINE restart == exlink_crc16_update(EXLINK_CRC16_INIT, b)
  <1>1. p \in Parser /\ PayloadFits(p)
    BY DEF Sound
  <1>2. r = "NONE"
    BY DEF FeedResult
  <1>3. Append(Pending(p), b) = <<b>> /\ <<b>> \in Bytes /\ Len(<<b>>) = 1
    BY Headers DEF Pending
  <1>4. ~ TooLong(<<b>>) /\ ~ Complete(<<b>>)
    <2> DEFINE s == <<b>>
    <2>1. Len(s) \in {1, 2, 3, 4}
      BY <1>3
    <2> HIDE DEF s
    <2>2. ~ TooLong(s) /\ ~ Complete(s)
      BY <2>1, ShortUndecided
    <2>3. QED
      BY <2>2 DEF s
  <1>5. CASE b = EXLINK_MAGIC0
    <2>1. restart \in Register /\ restart = exlink_crc16(<<b>>)
      <3>1. restart = exlink_crc16(Append(<<>>, b))
        BY CrcEmpty, CrcAppend, Headers
      <3>2. QED
        BY <3>1, CrcUpdateType, CrcInitType, Headers
    <2> HIDE DEF restart
    <2>2. q = [p EXCEPT !.state = "MAGIC1", !.crc_calc = restart]
      BY <1>5 DEF exlink_parser_feed, restart
    <2>3. /\ q \in Parser /\ q.state = "MAGIC1" /\ q.payload = p.payload
          /\ q.crc_calc = restart
      BY <1>1, <2>1, <2>2, StateNames DEF Parser
    <2>4. Pending(q) = <<b>> /\ Covered(q) = <<b>>
      BY <1>5, <2>3 DEF Pending, Covered
    <2>5. PayloadFits(q) /\ HalfRead(q) /\ Accounted(q)
      BY <1>1, <2>1, <2>3, <2>4 DEF PayloadFits, HalfRead, Accounted
    <2>6. LongestBeginning(<<b>>) = <<b>>
      BY <1>5, FirstBeginning
    <2>7. QED
      BY <1>2, <1>3, <1>4, <2>3, <2>4, <2>5, <2>6 DEF Sound, Judged
  <1>6. CASE b # EXLINK_MAGIC0
    <2>1. q = p
      BY <1>6 DEF exlink_parser_feed
    <2>2. Pending(q) = <<>>
      BY <2>1 DEF Pending
    <2>3. LongestBeginning(<<b>>) = <<>>
      BY <1>6, FirstBeginning
    <2>4. QED
      BY <1>2, <1>3, <1>4, <2>1, <2>2, <2>3 DEF Judged
  <1>7. QED
    BY <1>5, <1>6

LEMMA FeedMagic1State ==
  ASSUME NEW p, Sound(p), NEW b \in Byte, p.state = "MAGIC1",
         NEW q, q = exlink_parser_feed(p, b), NEW r, r = FeedResult(p, b)
  PROVE  Sound(q) /\ Judged(Append(Pending(p), b), r, q)
  <1> DEFINE restart == exlink_crc16_update(EXLINK_CRC16_INIT, b)
             covered == exlink_crc16_update(p.crc_calc, b)
             s       == <<EXLINK_MAGIC0, b>>
  <1>1. p \in Parser /\ PayloadFits(p)
    BY DEF Sound
  <1>2. r = "NONE"
    BY DEF FeedResult
  <1>3. Pending(p) = <<EXLINK_MAGIC0>> /\ Pending(p) \in Bytes
    BY Magics, Headers DEF Pending
  <1>4. Append(Pending(p), b) = s /\ Len(s) = 2
    <2>1. Append(<<EXLINK_MAGIC0>>, b) = <<EXLINK_MAGIC0, b>>
      BY Magics, Headers
    <2>2. Len(s) = 2
      OBVIOUS
    <2>3. QED
      BY <1>3, <2>1, <2>2, Zenon
  <1>5. ~ TooLong(s) /\ ~ Complete(s)
    <2>1. Len(s) \in {1, 2, 3, 4}
      BY <1>4
    <2> HIDE DEF s
    <2>2. QED
      BY <2>1, ShortUndecided
  <1>6. restart \in Register /\ restart = exlink_crc16(<<b>>)
    <2>1. restart = exlink_crc16(Append(<<>>, b))
      BY CrcEmpty, CrcAppend, Headers
    <2>2. QED
      BY <2>1, CrcUpdateType, CrcInitType, Headers
  <1>7. covered \in Register /\ covered = exlink_crc16(s)
    <2>1. covered = exlink_crc16(Append(Pending(p), b))
      BY <1>3, Covers
    <2>2. QED
      BY <1>1, <1>4, <2>1, ParserFields, CrcUpdateType
  <1>8. q = FeedMagic1(p, b)
    BY DEF exlink_parser_feed
  <1> HIDE DEF restart, covered
  <1>9. CASE b = EXLINK_MAGIC1
    <2>1. q = [p EXCEPT !.state = "OP", !.crc_calc = covered]
      BY <1>8, <1>9 DEF FeedMagic1, covered
    <2>2. /\ q \in Parser /\ q.state = "OP" /\ q.payload = p.payload
          /\ q.crc_calc = covered
      BY <1>1, <1>7, <2>1, StateNames DEF Parser
    <2>3. Pending(q) = s /\ Covered(q) = s
      BY <1>9, <2>2 DEF Pending, Covered
    <2>4. PayloadFits(q) /\ HalfRead(q) /\ Accounted(q)
      BY <1>1, <1>7, <2>2, <2>3 DEF PayloadFits, HalfRead, Accounted
    <2>5. LongestBeginning(s) = s
      BY <1>9, SecondBeginning
    <2>6. QED
      BY <1>2, <1>4, <1>5, <2>2, <2>3, <2>4, <2>5 DEF Sound, Judged
  <1>10. CASE b = EXLINK_MAGIC0
    <2>1. b # EXLINK_MAGIC1
      BY <1>10 DEF EXLINK_MAGIC0, EXLINK_MAGIC1
    <2>2. q = [p EXCEPT !.crc_calc = restart]
      BY <1>8, <1>10, <2>1 DEF FeedMagic1, restart
    <2>3. /\ q \in Parser /\ q.state = "MAGIC1" /\ q.payload = p.payload
          /\ q.crc_calc = restart
      BY <1>1, <1>6, <2>2 DEF Parser
    <2>4. Pending(q) = <<b>> /\ Covered(q) = <<b>>
      BY <1>10, <2>3 DEF Pending, Covered
    <2>5. PayloadFits(q) /\ HalfRead(q) /\ Accounted(q)
      BY <1>1, <1>6, <2>3, <2>4 DEF PayloadFits, HalfRead, Accounted
    <2>6. LongestBeginning(s) = <<b>>
      BY <1>10, <2>1, SecondBeginning
    <2>7. QED
      BY <1>2, <1>4, <1>5, <2>3, <2>4, <2>5, <2>6 DEF Sound, Judged
  <1>11. CASE b # EXLINK_MAGIC1 /\ b # EXLINK_MAGIC0
    <2>1. q = [p EXCEPT !.state = "MAGIC0"]
      BY <1>8, <1>11 DEF FeedMagic1
    <2>2. q \in Parser /\ q.state = "MAGIC0" /\ q.payload = p.payload
      BY <1>1, <2>1, StateNames DEF Parser
    <2>3. Pending(q) = <<>>
      BY <2>2 DEF Pending
    <2>4. PayloadFits(q) /\ HalfRead(q) /\ Accounted(q)
      BY <1>1, <2>2 DEF PayloadFits, HalfRead, Accounted
    <2>5. LongestBeginning(s) = <<>>
      BY <1>11, SecondBeginning
    <2>6. QED
      BY <1>2, <1>4, <1>5, <2>2, <2>3, <2>4, <2>5 DEF Sound, Judged
  <1>12. QED
    BY <1>9, <1>10, <1>11

LEMMA FeedOpState ==
  ASSUME NEW p, Sound(p), NEW b \in Byte, p.state = "OP",
         NEW q, q = exlink_parser_feed(p, b), NEW r, r = FeedResult(p, b)
  PROVE  Sound(q) /\ Judged(Append(Pending(p), b), r, q)
  <1> DEFINE covered == exlink_crc16_update(p.crc_calc, b)
             s       == <<EXLINK_MAGIC0, EXLINK_MAGIC1, b>>
  <1>1. p \in Parser /\ PayloadFits(p)
    BY DEF Sound
  <1>2. r = "NONE"
    BY DEF FeedResult
  <1>3. Pending(p) = <<EXLINK_MAGIC0, EXLINK_MAGIC1>> /\ Pending(p) \in Bytes
    BY Magics, Headers DEF Pending
  <1>4. Append(Pending(p), b) = s /\ s \in Bytes /\ Len(s) = 3
    BY <1>3, Magics, Headers
  <1>5. ~ TooLong(s) /\ ~ Complete(s)
    <2>1. Len(s) \in {1, 2, 3, 4}
      BY <1>4
    <2> HIDE DEF s
    <2>2. QED
      BY <2>1, ShortUndecided
  <1>6. covered \in Register /\ covered = exlink_crc16(s)
    <2>1. covered = exlink_crc16(Append(Pending(p), b))
      BY <1>3, Covers
    <2>2. QED
      BY <1>1, <1>4, <2>1, ParserFields, CrcUpdateType
  <1> HIDE DEF covered
  <1>7. q = [p EXCEPT !.state = "LEN_LO", !.op = b, !.crc_calc = covered]
    BY DEF exlink_parser_feed, covered
  <1>8. /\ q \in Parser /\ q.state = "LEN_LO" /\ q.op = b /\ q.payload = p.payload
        /\ q.crc_calc = covered
    BY <1>1, <1>6, <1>7, StateNames DEF Parser
  <1>9. Pending(q) = s /\ Covered(q) = s
    BY <1>8 DEF Pending, Covered
  <1>10. PayloadFits(q) /\ HalfRead(q) /\ Accounted(q)
    BY <1>1, <1>6, <1>8, <1>9 DEF PayloadFits, HalfRead, Accounted
  <1>11. LongestBeginning(s) = s
    <2>1. MayBegin(s)
      BY DEF MayBegin
    <2>2. QED
      BY <1>4, <2>1, WholeBeginning
  <1>12. QED
    BY <1>2, <1>4, <1>5, <1>8, <1>9, <1>10, <1>11 DEF Sound, Judged

LEMMA FeedLenLoState ==
  ASSUME NEW p, Sound(p), NEW b \in Byte, p.state = "LEN_LO",
         NEW q, q = exlink_parser_feed(p, b), NEW r, r = FeedResult(p, b)
  PROVE  Sound(q) /\ Judged(Append(Pending(p), b), r, q)
  <1> DEFINE covered == exlink_crc16_update(p.crc_calc, b)
             s       == <<EXLINK_MAGIC0, EXLINK_MAGIC1, p.op, b>>
  <1>1. p \in Parser /\ PayloadFits(p) /\ p.op \in Byte /\ b \in Word
    BY ParserFields, WordsAreNaturals DEF Sound
  <1>2. r = "NONE"
    BY DEF FeedResult
  <1>3. Pending(p) = <<EXLINK_MAGIC0, EXLINK_MAGIC1, p.op>> /\ Pending(p) \in Bytes
    BY <1>1, Magics, Headers DEF Pending
  <1>4. Append(Pending(p), b) = s /\ s \in Bytes /\ Len(s) = 4
    BY <1>1, <1>3, Magics, Headers
  <1>5. ~ TooLong(s) /\ ~ Complete(s)
    <2>1. Len(s) \in {1, 2, 3, 4}
      BY <1>4
    <2> HIDE DEF s
    <2>2. QED
      BY <2>1, ShortUndecided
  <1>6. covered \in Register /\ covered = exlink_crc16(s)
    <2>1. covered = exlink_crc16(Append(Pending(p), b))
      BY <1>3, Covers
    <2>2. QED
      BY <1>1, <1>4, <2>1, ParserFields, CrcUpdateType
  <1> HIDE DEF covered
  <1>7. q = [p EXCEPT !.state = "LEN_HI", !.len = b, !.crc_calc = covered]
    BY DEF exlink_parser_feed, covered
  <1>8. /\ q \in Parser /\ q.state = "LEN_HI" /\ q.op = p.op /\ q.len = b
        /\ q.payload = p.payload /\ q.crc_calc = covered
    BY <1>1, <1>6, <1>7, StateNames DEF Parser
  <1>9. Pending(q) = s /\ Covered(q) = s
    BY <1>8 DEF Pending, Covered
  <1>10. PayloadFits(q) /\ HalfRead(q) /\ Accounted(q)
    BY <1>1, <1>6, <1>8, <1>9 DEF PayloadFits, HalfRead, Accounted
  <1>11. LongestBeginning(s) = s
    <2>1. MayBegin(s)
      BY DEF MayBegin
    <2>2. QED
      BY <1>4, <2>1, WholeBeginning
  <1>12. QED
    BY <1>2, <1>4, <1>5, <1>8, <1>9, <1>10, <1>11 DEF Sound, Judged


LEMMA FeedLenHiState ==
  ASSUME NEW p, Sound(p), NEW b \in Byte, p.state = "LEN_HI",
         NEW q, q = exlink_parser_feed(p, b), NEW r, r = FeedResult(p, b)
  PROVE  Sound(q) /\ Judged(Append(Pending(p), b), r, q)
  <1> DEFINE covered == exlink_crc16_update(p.crc_calc, b)
             full    == FullLen(p, b)
             s       == <<EXLINK_MAGIC0, EXLINK_MAGIC1, p.op, p.len, b>>
  <1>1. p \in Parser /\ p.op \in Byte /\ p.len \in Byte
    BY ParserFields DEF Sound, HalfRead
  <1>2. Pending(p) = <<EXLINK_MAGIC0, EXLINK_MAGIC1, p.op, p.len>> /\ Pending(p) \in Bytes
    BY <1>1, Magics, Headers DEF Pending
  <1>3. Append(Pending(p), b) = s /\ s \in Bytes
    BY <1>1, <1>2, Magics, Headers
  <1>4. Len(s) = 5 /\ s[3] = p.op /\ Announced(s) = full
    BY DEF Announced, FullLen
  <1>5. /\ full \in Word /\ full \in Nat
        /\ LowByte(full) = p.len /\ HighByte(full) = b
    BY <1>1, TwoBytes, WordsAreNaturals DEF FullLen
  <1>6. MayBegin(s)
    BY DEF MayBegin
  <1>7. covered \in Register /\ covered = exlink_crc16(s)
    <2>1. covered = exlink_crc16(Append(Pending(p), b))
      BY <1>2, Covers
    <2>2. QED
      BY <1>1, <1>3, <2>1, ParserFields, CrcUpdateType
  <1>8. q = FeedLenHi(p, b)
    BY DEF exlink_parser_feed
  <1> HIDE DEF covered, full, s
  <1>9. ~ Complete(s) /\ (TooLong(s) <=> ~ LenFits(p, b)) /\ (LenFits(p, b) <=> full <= EXLINK_MAX_PAYLOAD)
    <2>1. LenFits(p, b) <=> full <= EXLINK_MAX_PAYLOAD
      BY DEF LenFits, full
    <2>2. TooLong(s) <=> full > EXLINK_MAX_PAYLOAD
      BY <1>4 DEF TooLong, EXLINK_HEADER_LEN
    <2>3. ~ Complete(s)
      BY <1>4, <1>5 DEF Complete, EXLINK_FRAME_OVERHEAD, EXLINK_HEADER_LEN, EXLINK_CRC_LEN
    <2>4. QED
      BY <1>5, <2>1, <2>2, <2>3, WordsAreNaturals
  <1>10. CASE LenFits(p, b)
    <2> DEFINE next == IF full = 0 THEN "CRC_LO" ELSE "PAYLOAD"
    <2>1. q = [p EXCEPT !.len = full, !.payload = <<>>, !.crc_calc = covered, !.state = next]
      BY <1>8, <1>10 DEF FeedLenHi, covered, full
    <2>2. next \in States
      BY StateNames
    <2>3. next \in {"CRC_LO", "PAYLOAD"} /\ (next = "PAYLOAD" => full > 0) /\ (next = "CRC_LO" => full = 0)
      BY <1>5
    <2> HIDE DEF next
    <2>4. /\ q \in Parser /\ q.state = next /\ q.op = p.op /\ q.len = full
          /\ q.payload = <<>> /\ q.crc_calc = covered
      BY <1>1, <1>5, <1>7, <2>1, <2>2, Headers DEF Parser
    <2>5. Pending(q) = s /\ Covered(q) = s
      <3>1. Header(q) = s
        BY <1>5, <2>4 DEF Header, s
      <3>2. Header(q) \o <<>> = s
        BY <1>3, <3>1, ConcatEmptySeq DEF Bytes
      <3>3. Pending(q) = Header(q) \o q.payload /\ q.state # "CRC_HI"
        BY <2>3, <2>4 DEF Pending
      <3>4. QED
        BY <2>4, <3>2, <3>3 DEF Covered
    <2>6. PayloadFits(q) /\ HalfRead(q) /\ Accounted(q)
      <3>1. Len(q.payload) = 0
        BY <2>4
      <3>2. PayloadFits(q)
        BY <1>5, <1>9, <1>10, <2>3, <2>4, <3>1, WordsAreNaturals DEF PayloadFits
      <3>3. HalfRead(q)
        BY <2>3, <2>4 DEF HalfRead
      <3>4. Accounted(q)
        BY <1>7, <2>3, <2>4, <2>5, <3>1 DEF Accounted
      <3>5. QED
        BY <3>2, <3>3, <3>4
    <2>7. r = "NONE"
      BY <1>10 DEF FeedResult
    <2>8. LongestBeginning(s) = s
      BY <1>3, <1>6, WholeBeginning
    <2>9. QED
      BY <1>3, <1>9, <1>10, <2>4, <2>5, <2>6, <2>7, <2>8 DEF Sound, Judged
  <1>11. CASE ~ LenFits(p, b)
    <2>1. q = exlink_parser_init
      BY <1>8, <1>11 DEF FeedLenHi
    <2>2. r = "BAD_LEN"
      BY <1>11 DEF FeedResult
    <2>3. Sound(q) /\ Pending(q) = <<>>
      BY <2>1, InitSound
    <2>4. QED
      BY <1>3, <1>9, <1>11, <2>2, <2>3 DEF Judged
  <1>12. QED
    BY <1>10, <1>11

LEMMA FeedPayloadState ==
  ASSUME NEW p, Sound(p), NEW b \in Byte, p.state = "PAYLOAD",
         NEW q, q = exlink_parser_feed(p, b), NEW r, r = FeedResult(p, b)
  PROVE  Sound(q) /\ Judged(Append(Pending(p), b), r, q)
  <1> DEFINE covered == exlink_crc16_update(p.crc_calc, b)
             t       == Append(p.payload, b)
             s       == Header(p) \o t
             n       == Len(p.payload)
             next    == IF n + 1 >= p.len THEN "CRC_LO" ELSE "PAYLOAD"
  <1>1. /\ p \in Parser /\ p.len \in Word /\ p.len \in Nat /\ p.payload \in Bytes /\ n \in Nat
        /\ n < p.len /\ p.len <= EXLINK_MAX_PAYLOAD
    BY ParserFields, WordsAreNaturals DEF Sound, PayloadFits
  <1>2. t \in Bytes /\ Len(t) = n + 1
    BY <1>1, AppendProperties DEF Bytes
  <1>3. Pending(p) = Header(p) \o p.payload
    BY DEF Pending
  <1>4. Append(Pending(p), b) = s
    BY <1>1, <1>3, HeaderBytes, AppendConcat
  <1>5. next \in States /\ next \in {"CRC_LO", "PAYLOAD"}
    BY StateNames
  <1>6. (next = "PAYLOAD" => n + 1 < p.len) /\ (next = "CRC_LO" => n + 1 = p.len)
    BY <1>1
  <1>7. q = FeedPayload(p, b)
    BY DEF exlink_parser_feed
  <1>8. q = [p EXCEPT !.payload = t, !.crc_calc = covered, !.state = next]
    BY <1>7 DEF FeedPayload
  <1>9. Pending(p) \in Bytes
    <2> DEFINE u == p.payload
    <2>1. Header(p) \o u \in Bytes
      BY <1>1, AfterHeader
    <2>2. QED
      BY <1>3, <2>1
  <1> HIDE DEF t, n, next, s
  <1>10. /\ s \in Bytes /\ Len(s) = 5 + (n + 1) /\ Announced(s) = p.len /\ MayBegin(s)
    <2>1. s = Header(p) \o t
      BY DEF s
    <2>2. /\ s \in Bytes /\ Len(s) = 5 + Len(t) /\ Announced(s) = p.len /\ MayBegin(s)
      BY <1>1, <1>2, <2>1, AfterHeader
    <2>3. QED
      BY <1>2, <2>2
  <1>11. covered \in Register /\ covered = exlink_crc16(s)
    <2>1. covered = exlink_crc16(Append(Pending(p), b))
      BY <1>9, Covers
    <2>2. QED
      BY <1>1, <1>4, <2>1, ParserFields, CrcUpdateType
  <1> HIDE DEF covered
  <1>12. /\ q \in Parser /\ q.state = next /\ q.op = p.op /\ q.len = p.len
         /\ q.payload = t /\ q.crc_calc = covered
    BY <1>1, <1>2, <1>5, <1>8, <1>11 DEF Parser
  <1>13. Pending(q) = s /\ Covered(q) = s
    <2>1. Header(q) = Header(p)
      BY <1>12 DEF Header
    <2>2. Pending(q) = Header(q) \o q.payload /\ q.state # "CRC_HI"
      BY <1>5, <1>12 DEF Pending
    <2>3. QED
      BY <1>12, <2>1, <2>2 DEF Covered, s
  <1>14. PayloadFits(q) /\ HalfRead(q) /\ Accounted(q)
    <2>1. Len(q.payload) = n + 1
      BY <1>2, <1>12
    <2>2. PayloadFits(q)
      BY <1>1, <1>6, <1>12, <2>1, WordsAreNaturals DEF PayloadFits
    <2>3. HalfRead(q)
      BY <1>5, <1>12 DEF HalfRead
    <2>4. Accounted(q)
      BY <1>5, <1>6, <1>11, <1>12, <1>13, <2>1 DEF Accounted
    <2>5. QED
      BY <2>2, <2>3, <2>4
  <1>15. ~ TooLong(s) /\ ~ Complete(s)
    <2>1. ~ TooLong(s)
      BY <1>1, <1>10, WordsAreNaturals DEF TooLong
    <2>2. ~ Complete(s)
      BY <1>1, <1>10 DEF Complete, EXLINK_FRAME_OVERHEAD, EXLINK_HEADER_LEN, EXLINK_CRC_LEN
    <2>3. QED
      BY <2>1, <2>2
  <1>16. r = "NONE"
    BY DEF FeedResult
  <1>17. LongestBeginning(s) = s
    BY <1>10, WholeBeginning
  <1>18. QED
    BY <1>4, <1>12, <1>13, <1>14, <1>15, <1>16, <1>17 DEF Sound, Judged

(* A concatenation falls apart into what it was made of. *)
LEMMA CutConcat ==
  ASSUME NEW s \in Bytes, NEW t \in Bytes
  PROVE  /\ SubSeq(s \o t, 1, Len(s)) = s
         /\ SubSeq(s \o t, Len(s) + 1, Len(s) + Len(t)) = t
  <1> DEFINE u == s \o t
             m == Len(s)
             n == Len(t)
             x == SubSeq(u, 1, m)
             y == SubSeq(u, m + 1, m + n)
  <1>1. m \in Nat /\ n \in Nat
    BY LenProperties DEF Bytes
  <1>2. /\ u \in Bytes /\ Len(u) = m + n
        /\ \A i \in 1 .. m + n : u[i] = IF i <= m THEN s[i] ELSE t[i - m]
    BY ConcatProperties DEF Bytes
  <1>3. \A i \in 1 .. m + n : u[i] \in Byte
    BY <1>2, ElementOfSeq DEF Bytes
  <1> HIDE DEF u, m, n
  <1>4. x \in Bytes /\ Len(x) = m /\ \A i \in 1 .. m : x[i] = s[i]
    <2>1. \A i \in 1 .. m : u[i] \in Byte /\ u[i] = s[i]
      BY <1>1, <1>2, <1>3
    <2>2. /\ x \in Bytes /\ Len(x) = IF 1 <= m THEN m - 1 + 1 ELSE 0
          /\ \A i \in 1 .. m - 1 + 1 : x[i] = u[1 + i - 1]
      BY <1>1, <2>1, SubSeqProperties DEF Bytes
    <2> HIDE DEF x
    <2>3. m - 1 + 1 = m /\ \A i \in 1 .. m : 1 + i - 1 = i
      BY <1>1
    <2>4. QED
      BY <1>1, <2>1, <2>2, <2>3
  <1>5. y \in Bytes /\ Len(y) = n /\ \A i \in 1 .. n : y[i] = t[i]
    <2>1. \A i \in m + 1 .. m + n : u[i] \in Byte
      BY <1>1, <1>3
    <2>2. /\ y \in Bytes
          /\ Len(y) = IF m + 1 <= m + n THEN (m + n) - (m + 1) + 1 ELSE 0
          /\ \A i \in 1 .. (m + n) - (m + 1) + 1 : y[i] = u[(m + 1) + i - 1]
      BY <1>1, <2>1, SubSeqProperties DEF Bytes
    <2> HIDE DEF y
    <2>3. (m + n) - (m + 1) + 1 = n
      BY <1>1
    <2>4. Len(y) = n
      BY <1>1, <2>2, <2>3
    <2>5. ASSUME NEW i \in 1 .. n PROVE y[i] = t[i]
      <3>1. (m + 1) + i - 1 = m + i /\ m + i \in 1 .. m + n /\ ~ (m + i <= m) /\ (m + i) - m = i
        BY <1>1
      <3>2. QED
        BY <1>2, <2>2, <2>3, <3>1
    <2>6. QED
      BY <2>2, <2>4, <2>5
  <1> HIDE DEF x, y
  <1>6. x = s
    BY <1>4, SeqEqual DEF Bytes, m
  <1>7. y = t
    BY <1>5, SeqEqual DEF Bytes, n
  <1>8. QED
    BY <1>6, <1>7 DEF x, y, u, m, n

LEMMA FeedCrcLoState ==
  ASSUME NEW p, Sound(p), NEW b \in Byte, p.state = "CRC_LO",
         NEW q, q = exlink_parser_feed(p, b), NEW r, r = FeedResult(p, b)
  PROVE  Sound(q) /\ Judged(Append(Pending(p), b), r, q)
  <1> DEFINE t == Append(p.payload, b)
             s == Header(p) \o t
             u == Header(p) \o p.payload
  <1>1. /\ p \in Parser /\ p.len \in Nat /\ p.payload \in Bytes /\ b \in Word
        /\ Len(p.payload) = p.len
    BY ParserFields, WordsAreNaturals DEF Sound, Accounted
  <1>2. t \in Bytes /\ Len(t) = p.len + 1
    BY <1>1, AppendProperties DEF Bytes
  <1>3. Pending(p) = u
    BY DEF Pending
  <1>4. Append(u, b) = s
    BY <1>1, HeaderBytes, AppendConcat
  <1> HIDE DEF t, s, u
  <1>5. s \in Bytes /\ Len(s) = 5 + (p.len + 1) /\ Announced(s) = p.len /\ MayBegin(s)
    <2>1. s = Header(p) \o t
      BY DEF s
    <2>2. s \in Bytes /\ Len(s) = 5 + Len(t) /\ Announced(s) = p.len /\ MayBegin(s)
      BY <1>1, <1>2, <2>1, AfterHeader
    <2>3. QED
      BY <1>2, <2>2
  <1>6. q = [p EXCEPT !.state = "CRC_HI", !.crc_rx = b]
    BY DEF exlink_parser_feed
  <1>7. /\ q \in Parser /\ q.state = "CRC_HI" /\ q.op = p.op /\ q.len = p.len
        /\ q.payload = p.payload /\ q.crc_calc = p.crc_calc /\ q.crc_rx = b
    BY <1>1, <1>6, StateNames DEF Parser
  <1>8. Pending(q) = s /\ Covered(q) = Pending(p)
    <2>1. Header(q) = Header(p)
      BY <1>7 DEF Header
    <2>2. Pending(q) = Append(Header(q) \o q.payload, q.crc_rx)
      BY <1>7 DEF Pending
    <2>3. QED
      BY <1>3, <1>4, <1>7, <2>1, <2>2 DEF Covered, u
  <1>9. PayloadFits(q) /\ HalfRead(q) /\ Accounted(q)
    <2>1. PayloadFits(q)
      BY <1>7 DEF Sound, PayloadFits
    <2>2. HalfRead(q)
      BY <1>7 DEF HalfRead
    <2>3. p.crc_calc = exlink_crc16(Pending(p))
      BY DEF Sound, Accounted, Covered
    <2>4. Accounted(q)
      BY <1>1, <1>7, <1>8, <2>3 DEF Accounted
    <2>5. QED
      BY <2>1, <2>2, <2>4
  <1>10. ~ TooLong(s) /\ ~ Complete(s)
    BY <1>1, <1>5
    DEF TooLong, Complete, EXLINK_FRAME_OVERHEAD, EXLINK_HEADER_LEN, EXLINK_CRC_LEN
  <1>11. r = "NONE"
    BY DEF FeedResult
  <1>12. LongestBeginning(s) = s
    BY <1>5, WholeBeginning
  <1>13. QED
    BY <1>3, <1>4, <1>7, <1>8, <1>9, <1>10, <1>11, <1>12 DEF Sound, Judged

LEMMA PayloadOfBody ==
  ASSUME NEW p \in Parser, NEW s, s = Header(p) \o p.payload
  PROVE  SubSeq(s, 6, Len(s)) = p.payload
  <1> DEFINE h == Header(p)
             t == p.payload
  <1>1. h \in Bytes /\ Len(h) = 5 /\ t \in Bytes /\ s = h \o t
    BY HeaderBytes, ParserFields
  <1> HIDE DEF h, t
  <1>2. SubSeq(h \o t, Len(h) + 1, Len(h) + Len(t)) = t
    BY <1>1, CutConcat
  <1>3. Len(s) = Len(h) + Len(t)
    BY <1>1, ConcatProperties DEF Bytes
  <1>4. Len(h) + 1 = 6
    BY <1>1
  <1>5. QED
    BY <1>1, <1>2, <1>3, <1>4 DEF t

(* A whole frame in its parts: what parser p has read, and two bytes of    *)
(* checksum.                                                               *)
Whole(p, low, high) == Append(Append(Header(p) \o p.payload, low), high)

Parts(s, p, low, high) ==
  /\ s \in Bytes /\ Len(s) = 7 + p.len /\ MayBegin(s)
  /\ Complete(s) /\ ~ TooLong(s)
  /\ s[3] = p.op /\ Announced(s) = p.len
  /\ s[Len(s) - 1] = low /\ s[Len(s)] = high
  /\ Body(s) = Header(p) \o p.payload

LEMMA WholeFrame ==
  ASSUME NEW p \in Parser, p.len \in Nat, Len(p.payload) = p.len,
         NEW low \in Byte, NEW high \in Byte,
         NEW s, s = Whole(p, low, high)
  PROVE  Parts(s, p, low, high)
  <1> DEFINE t == Append(Append(p.payload, low), high)
             u == Header(p) \o p.payload
             h == Header(p)
  <1>1. p.payload \in Bytes /\ h \in Bytes /\ Len(h) = 5
    BY ParserFields, HeaderBytes
  <1>2. /\ Append(p.payload, low) \in Bytes /\ Len(Append(p.payload, low)) = p.len + 1
        /\ Append(p.payload, low)[p.len + 1] = low
    BY <1>1, AppendProperties DEF Bytes
  <1>3. t \in Bytes /\ Len(t) = p.len + 2 /\ t[p.len + 1] = low /\ t[p.len + 2] = high
    <2> DEFINE v == Append(p.payload, low)
    <2>1. v \in Bytes /\ Len(v) = p.len + 1 /\ v[p.len + 1] = low
      BY <1>2
    <2> HIDE DEF v
    <2>2. /\ Append(v, high) \in Bytes /\ Len(Append(v, high)) = (p.len + 1) + 1
          /\ Append(v, high)[(p.len + 1) + 1] = high
          /\ \A i \in 1 .. p.len + 1 : Append(v, high)[i] = v[i]
      BY <2>1, AppendProperties DEF Bytes
    <2>3. (p.len + 1) + 1 = p.len + 2 /\ p.len + 1 \in 1 .. p.len + 1
      OBVIOUS
    <2>4. QED
      BY <2>1, <2>2, <2>3 DEF v
  <1>4. s = h \o t
    <2>1. Append(h \o p.payload, low) = h \o Append(p.payload, low)
      BY <1>1, AppendConcat
    <2> DEFINE v == Append(p.payload, low)
    <2>2. v \in Bytes
      BY <1>2
    <2> HIDE DEF v
    <2>3. Append(h \o v, high) = h \o Append(v, high)
      BY <1>1, <2>2, AppendConcat
    <2>4. QED
      BY <2>1, <2>3 DEF v, Whole
  <1>5. s = u \o <<low, high>> /\ u \in Bytes /\ Len(u) = 5 + p.len
    <2>1. u \in Bytes /\ Len(u) = 5 + p.len
      <3>1. h \o p.payload \in Bytes /\ Len(h \o p.payload) = Len(h) + Len(p.payload)
        BY <1>1, ConcatProperties DEF Bytes
      <3>2. QED
        BY <1>1, <3>1
    <2>2. Append(<<low>>, high) = <<low, high>> /\ <<low>> \in Bytes
      BY Headers
    <2> HIDE DEF u
    <2>3. Append(u, low) = u \o <<low>>
      BY <2>1, AppendIsConcat DEF Bytes
    <2>4. Append(u \o <<low>>, high) = u \o Append(<<low>>, high)
      BY <2>1, <2>2, AppendConcat
    <2>5. QED
      BY <2>1, <2>2, <2>3, <2>4 DEF u, Whole
  <1> HIDE DEF t, u
  <1>6. /\ s \in Bytes /\ Len(s) = 5 + (p.len + 2) /\ Announced(s) = p.len /\ MayBegin(s)
        /\ s[3] = p.op /\ \A i \in 1 .. p.len + 2 : s[5 + i] = t[i]
    <2>1. /\ s \in Bytes /\ Len(s) = 5 + Len(t) /\ Announced(s) = p.len /\ MayBegin(s)
          /\ s[3] = p.op /\ \A i \in 1 .. Len(t) : s[5 + i] = t[i]
      BY <1>3, <1>4, AfterHeader
    <2>2. QED
      BY <1>3, <2>1
  <1>7. Len(s) = 7 + p.len /\ s[Len(s) - 1] = low /\ s[Len(s)] = high
    <2>1. /\ 5 + (p.len + 2) = 7 + p.len /\ (5 + (p.len + 2)) - 1 = 5 + (p.len + 1)
          /\ p.len + 1 \in 1 .. p.len + 2 /\ p.len + 2 \in 1 .. p.len + 2
      OBVIOUS
    <2>2. QED
      BY <1>3, <1>6, <2>1
  <1>8. Complete(s) /\ ~ TooLong(s)
    BY <1>6, <1>7
    DEF Complete, TooLong, EXLINK_FRAME_OVERHEAD, EXLINK_HEADER_LEN, EXLINK_CRC_LEN
  <1>9. Body(s) = u
    <2>1. Len(s) - 2 = Len(u)
      BY <1>5, <1>7
    <2>2. <<low, high>> \in Bytes
      BY Headers
    <2>3. SubSeq(u \o <<low, high>>, 1, Len(u)) = u
      BY <1>5, <2>2, CutConcat
    <2>4. QED
      BY <1>5, <2>1, <2>3 DEF Body, EXLINK_CRC_LEN
  <1>10. QED
    BY <1>6, <1>7, <1>8, <1>9 DEF u, Parts

LEMMA FeedCrcHiState ==
  ASSUME NEW p, Sound(p), NEW b \in Byte, p.state = "CRC_HI",
         NEW q, q = exlink_parser_feed(p, b), NEW r, r = FeedResult(p, b)
  PROVE  Sound(q) /\ Judged(Append(Pending(p), b), r, q)
  <1> DEFINE s == Append(Pending(p), b)
  <1>1. /\ p \in Parser /\ p.len \in Nat /\ Len(p.payload) = p.len /\ p.crc_rx \in Byte
        /\ p.crc_calc = exlink_crc16(Header(p) \o p.payload)
    BY ParserFields, WordsAreNaturals DEF Sound, HalfRead, Accounted, Covered
  <1>2. Pending(p) = Append(Header(p) \o p.payload, p.crc_rx)
    BY DEF Pending
  <1>3. /\ Complete(s) /\ ~ TooLong(s) /\ s[3] = p.op /\ Announced(s) = p.len
        /\ s[Len(s) - 1] = p.crc_rx /\ s[Len(s)] = b
        /\ Body(s) = Header(p) \o p.payload
        /\ SubSeq(Body(s), 6, Len(Body(s))) = p.payload
    <2>1. s = Whole(p, p.crc_rx, b)
      BY <1>2 DEF Whole
    <2>2. p \in Parser /\ p.len \in Nat /\ Len(p.payload) = p.len /\ p.crc_rx \in Byte
      BY <1>1
    <2> HIDE DEF s
    <2>3. Parts(s, p, p.crc_rx, b)
      BY <2>1, <2>2, WholeFrame
    <2>4. /\ Complete(s) /\ ~ TooLong(s) /\ s[3] = p.op /\ Announced(s) = p.len
          /\ s[Len(s) - 1] = p.crc_rx /\ s[Len(s)] = b
          /\ Body(s) = Header(p) \o p.payload
      BY <2>3 DEF Parts
    <2>5. QED
      BY <2>2, <2>4, PayloadOfBody
  <1> HIDE DEF s
  <1>4. q = FeedCrcHi(p, b)
    BY DEF exlink_parser_feed
  <1>5. p.crc_rx + 256 * b \in Word
    BY <1>1, TwoBytes
  <1>6. /\ q \in Parser /\ q.state = "MAGIC0" /\ q.op = p.op /\ q.len = p.len
        /\ q.payload = p.payload
    <2> DEFINE rx == p.crc_rx + 256 * b
    <2>1. rx \in Word /\ q = [p EXCEPT !.state = "MAGIC0", !.crc_rx = rx,
                                         !.crc_calc = EXLINK_CRC16_INIT]
      BY <1>4, <1>5 DEF FeedCrcHi
    <2> HIDE DEF rx
    <2>2. QED
      BY <1>1, <2>1, StateNames, CrcInitType DEF Parser
  <1>7. PayloadFits(q) /\ HalfRead(q) /\ Accounted(q) /\ Pending(q) = <<>>
    BY <1>6 DEF Sound, PayloadFits, HalfRead, Accounted, Pending
  <1>8. CrcFits(p, b) <=> Intact(s)
    BY <1>1, <1>3, Zenon DEF CrcFits, Intact
  <1>9. r = IF Intact(s) THEN "OK" ELSE "BAD_CRC"
    BY <1>8 DEF FeedResult
  <1>10. QED
    BY <1>3, <1>6, <1>7, <1>9 DEF Sound, Judged, s

(* Whatever a sound parser has taken, the next byte leaves it sound and is *)
(* judged as the whole string it ends: exlink_parser_feed, with its        *)
(* running checksum, decides what FrameGrammar decides on all the bytes.   *)
THEOREM FeedRecognises ==
  ASSUME NEW p, Sound(p), NEW b \in Byte
  PROVE  /\ Sound(exlink_parser_feed(p, b))
         /\ Judged(Append(Pending(p), b), FeedResult(p, b), exlink_parser_feed(p, b))
  <1> DEFINE q == exlink_parser_feed(p, b)
             r == FeedResult(p, b)
  <1>1. p.state \in States
    BY ParserFields DEF Sound
  <1>2. q = exlink_parser_feed(p, b) /\ r = FeedResult(p, b)
    OBVIOUS
  <1> HIDE DEF q, r
  <1>3. Sound(q) /\ Judged(Append(Pending(p), b), r, q)
    <2>1. CASE p.state = "MAGIC0"
      BY <1>2, <2>1, FeedMagic0State
    <2>2. CASE p.state = "MAGIC1"
      BY <1>2, <2>2, FeedMagic1State
    <2>3. CASE p.state = "OP"
      BY <1>2, <2>3, FeedOpState
    <2>4. CASE p.state = "LEN_LO"
      BY <1>2, <2>4, FeedLenLoState
    <2>5. CASE p.state = "LEN_HI"
      BY <1>2, <2>5, FeedLenHiState
    <2>6. CASE p.state = "PAYLOAD"
      BY <1>2, <2>6, FeedPayloadState
    <2>7. CASE p.state = "CRC_LO"
      BY <1>2, <2>7, FeedCrcLoState
    <2>8. CASE p.state = "CRC_HI"
      BY <1>2, <2>8, FeedCrcHiState
    <2>9. QED
      BY <1>1, <2>1, <2>2, <2>3, <2>4, <2>5, <2>6, <2>7, <2>8 DEF States
  <1>4. QED
    BY <1>2, <1>3

----------------------------------------------------------------------------
(* Strings of bytes.                                                       *)

(* FeedAll feeds one byte after the other, from one sound parser to the    *)
(* next.                                                                   *)
LEMMA FeedAllSteps ==
  ASSUME NEW p, Sound(p), NEW bytes, Len(bytes) \in Nat,
         \A i \in 1 .. Len(bytes) : bytes[i] \in Byte
  PROVE  LET after == FeedAll(p, bytes)
         IN  /\ after[0] = p
             /\ \A i \in 1 .. Len(bytes) :
                  after[i] = exlink_parser_feed(after[i - 1], bytes[i])
             /\ \A i \in 0 .. Len(bytes) : Sound(after[i])
  <1> DEFINE N == Len(bytes)
             A == {x \in Parser : Sound(x)}
             step == [i \in 1 .. N |-> [x \in A |-> exlink_parser_feed(x, bytes[i])]]
             Solution(f) == f = [i \in 0 .. N |->
                                   IF i = 0 THEN p
                                   ELSE exlink_parser_feed(f[i - 1], bytes[i])]
  <1>1. step \in [1 .. N -> [A -> A]]
    <2>1. ASSUME NEW i \in 1 .. N, NEW x \in A
          PROVE  exlink_parser_feed(x, bytes[i]) \in A
      <3>1. Sound(exlink_parser_feed(x, bytes[i]))
        BY FeedRecognises
      <3>2. QED
        BY <3>1 DEF Sound
    <2> HIDE DEF A
    <2>2. QED
      BY <2>1
  <1>2. p \in A
    BY DEF Sound
  <1>3. PICK f \in [0 .. N -> A] :
          /\ f[0] = p
          /\ \A i \in 1 .. N : f[i] = step[i][f[i - 1]]
    <2>1. N \in Nat
      OBVIOUS
    <2> HIDE DEF step, A, N
    <2>2. QED
      BY <1>1, <1>2, <2>1, RecursionExists
  <1>4. \A i \in 1 .. N : f[i] = exlink_parser_feed(f[i - 1], bytes[i])
    <2>1. ASSUME NEW i \in 1 .. N
          PROVE  f[i] = exlink_parser_feed(f[i - 1], bytes[i])
      <3> HIDE DEF A
      <3>1. f[i - 1] \in A
        BY <1>3
      <3>2. QED
        BY <1>3, <3>1
    <2>2. QED
      BY <2>1
  <1>5. Solution(f)
    BY <1>3, <1>4
  <1> DEFINE g == CHOOSE h : Solution(h)
  <1>6. Solution(g)
    BY <1>5
  <1>7. FeedAll(p, bytes) = g
    BY DEF FeedAll
  <1> HIDE DEF g, A, step
  <1>8. g[0] = p /\ \A i \in 1 .. N : g[i] = exlink_parser_feed(g[i - 1], bytes[i])
    BY <1>6
  <1>9. \A i \in 0 .. N : Sound(g[i])
    <2> DEFINE T == {i \in Nat : i <= N => Sound(g[i])}
    <2>1. 0 \in T
      BY <1>8
    <2>2. ASSUME NEW i \in T PROVE i + 1 \in T
      <3>1. CASE i + 1 <= N
        <4>1. i + 1 \in 1 .. N /\ (i + 1) - 1 = i /\ Sound(g[i])
          BY <3>1
        <4>2. Sound(exlink_parser_feed(g[i], bytes[i + 1]))
          BY <4>1, FeedRecognises
        <4>3. QED
          BY <1>8, <4>1, <4>2
      <3>2. QED
        BY <3>1
    <2>3. T = Nat
      <3>1. T \in SUBSET Nat
        OBVIOUS
      <3> HIDE DEF T
      <3>2. QED
        BY <2>1, <2>2, <3>1, SetInduction
    <2>4. QED
      BY <2>3
  <1>10. QED
    BY <1>7, <1>8, <1>9

(* The first bytes of a string. *)
LEMMA Prefixes ==
  ASSUME NEW r \in Bytes, NEW i \in 0 .. Len(r)
  PROVE  /\ SubSeq(r, 1, i) \in Bytes
         /\ Len(SubSeq(r, 1, i)) = i
         /\ \A j \in 1 .. i : SubSeq(r, 1, i)[j] = r[j] /\ r[j] \in Byte
  <1>1. Len(r) \in Nat
    BY LenProperties DEF Bytes
  <1>2. \A j \in 1 .. i : r[j] \in Byte
    BY <1>1, ElementOfSeq DEF Bytes
  <1>3. /\ SubSeq(r, 1, i) \in Bytes
        /\ Len(SubSeq(r, 1, i)) = IF 1 <= i THEN i - 1 + 1 ELSE 0
        /\ \A j \in 1 .. i - 1 + 1 : SubSeq(r, 1, i)[j] = r[1 + j - 1]
    BY <1>1, <1>2, SubSeqProperties DEF Bytes
  <1> DEFINE s == SubSeq(r, 1, i)
  <1> HIDE DEF s
  <1>4. i - 1 + 1 = i /\ \A j \in 1 .. i : 1 + j - 1 = j
    BY <1>1
  <1>5. Len(s) = i
    BY <1>1, <1>3, <1>4 DEF s
  <1>6. \A j \in 1 .. i : s[j] = r[j]
    BY <1>3, <1>4 DEF s
  <1>7. QED
    BY <1>2, <1>3, <1>5, <1>6 DEF s

LEMMA NextPrefix ==
  ASSUME NEW r \in Bytes, NEW i \in 0 .. Len(r) - 1
  PROVE  r[i + 1] \in Byte /\ Append(SubSeq(r, 1, i), r[i + 1]) = SubSeq(r, 1, i + 1)
  <1>1. /\ Len(r) \in Nat /\ i \in 0 .. Len(r) /\ i + 1 \in 0 .. Len(r)
        /\ i + 1 \in 1 .. i + 1
    BY LenProperties DEF Bytes
  <1> DEFINE s == SubSeq(r, 1, i)
             t == SubSeq(r, 1, i + 1)
             x == r[i + 1]
  <1>2. s \in Bytes /\ Len(s) = i /\ \A j \in 1 .. i : s[j] = r[j]
    BY <1>1, Prefixes
  <1>3. /\ t \in Bytes /\ Len(t) = i + 1
        /\ \A j \in 1 .. i + 1 : t[j] = r[j] /\ r[j] \in Byte
    BY <1>1, Prefixes
  <1> HIDE DEF s, t
  <1>4. x \in Byte /\ Len(t) = Len(s) + 1 /\ t[Len(s) + 1] = x
    BY <1>1, <1>2, <1>3
  <1>5. \A j \in 1 .. Len(s) : t[j] = s[j]
    BY <1>1, <1>2, <1>3
  <1> HIDE DEF x
  <1>6. Append(s, x) = t
    BY <1>2, <1>3, <1>4, <1>5, AppendIs
  <1>7. QED
    BY <1>4, <1>6 DEF s, t, x

(* The strings the parser decides on. *)
LEMMA DecidedLength ==
  ASSUME NEW r, Decided(r)
  PROVE  /\ Len(r) \in Nat /\ Len(r) >= 5 /\ Announced(r) \in Nat
         /\ r[1] = EXLINK_MAGIC0 /\ r[2] = EXLINK_MAGIC1
  <1>1. r \in Bytes /\ Len(r) \in Nat /\ Len(r) >= 5
    BY LenProperties DEF Decided, Bytes, EXLINK_HEADER_LEN
  <1>2. r[4] \in Byte /\ r[5] \in Byte
    <2>1. 4 \in 1 .. Len(r) /\ 5 \in 1 .. Len(r)
      BY <1>1
    <2>2. QED
      BY <1>1, <2>1, ElementOfSeq DEF Bytes
  <1>3. Announced(r) \in Nat
    BY <1>2, TwoBytes, WordsAreNaturals DEF Announced
  <1>4. r[1] = EXLINK_MAGIC0 /\ r[2] = EXLINK_MAGIC1
    BY <1>1 DEF Decided, MayBegin
  <1>5. QED
    BY <1>1, <1>3, <1>4

LEMMA PrefixUndecided ==
  ASSUME NEW r, Decided(r), NEW i \in 1 .. Len(r) - 1,
         NEW s \in Bytes, Len(s) = i, \A j \in 1 .. i : s[j] = r[j]
  PROVE  ~ TooLong(s) /\ ~ Complete(s) /\ LongestBeginning(s) = s
  <1>1. /\ r \in Bytes /\ Len(r) \in Nat /\ Len(r) >= 5 /\ Announced(r) \in Nat
        /\ r[1] = EXLINK_MAGIC0 /\ r[2] = EXLINK_MAGIC1
    BY DecidedLength DEF Decided
  <1>2. i \in Nat /\ i \in 0 .. Len(r)
    BY <1>1
  <1>3. Len(s) = i /\ \A j \in 1 .. i : s[j] = r[j]
    OBVIOUS
  <1>4. LongestBeginning(s) = s
    <2>1. 1 \in 1 .. i /\ (i >= 2 => 2 \in 1 .. i)
      BY <1>2
    <2>2. MayBegin(s)
      BY <1>1, <1>3, <2>1 DEF MayBegin
    <2>3. QED
      BY <1>3, <2>2, WholeBeginning
  <1>5. ~ TooLong(s) /\ ~ Complete(s)
    <2>1. CASE i < 5
      <3>1. Len(s) # 5 /\ ~ (Len(s) >= 5)
        BY <1>2, <1>3, <2>1
      <3>2. QED
        BY <3>1 DEF TooLong, Complete, EXLINK_HEADER_LEN
    <2>2. CASE i >= 5
      <3>1. 4 \in 1 .. i /\ 5 \in 1 .. i
        BY <1>2, <2>2
      <3>2. Announced(s) = Announced(r)
        BY <1>3, <3>1 DEF Announced
      <3>3. Len(r) > 5 /\ Len(r) # 5 /\ i < Len(r)
        <4>1. \A n \in Nat : \A k \in 1 .. n - 1 : k >= 5 => n > 5 /\ n # 5 /\ k < n
          OBVIOUS
        <4>2. QED
          BY <1>1, <2>2, <4>1, Zenon
      <3>4. Complete(r) /\ Announced(r) <= EXLINK_MAX_PAYLOAD
        <4>1. ~ TooLong(r)
          BY <3>3, Zenon DEF TooLong, EXLINK_HEADER_LEN
        <4>2. QED
          BY <4>1 DEF Decided
      <3>5. Len(r) = 7 + Announced(r)
        BY <3>4 DEF Complete, EXLINK_FRAME_OVERHEAD, EXLINK_HEADER_LEN, EXLINK_CRC_LEN
      <3>6. ~ TooLong(s)
        BY <1>1, <3>2, <3>4, WordsAreNaturals DEF TooLong
      <3>7. ~ Complete(s)
        BY <1>1, <1>2, <1>3, <3>2, <3>3, <3>5
        DEF Complete, EXLINK_FRAME_OVERHEAD, EXLINK_HEADER_LEN, EXLINK_CRC_LEN
      <3>8. QED
        BY <3>6, <3>7
    <2>3. QED
      BY <1>2, <2>1, <2>2
  <1>6. QED
    BY <1>4, <1>5

(* Fed byte by byte, such a string keeps the parser silent until its last  *)
(* byte, on which the parser decides and hunts again.                      *)
LEMMA DecidedStep ==
  ASSUME NEW r, Decided(r), NEW i \in 0 .. Len(r) - 1,
         NEW p, Sound(p), Pending(p) = SubSeq(r, 1, i),
         NEW q, q = exlink_parser_feed(p, r[i + 1]),
         NEW v, v = FeedResult(p, r[i + 1])
  PROVE  /\ Sound(q)
         /\ i + 1 < Len(r) => v = "NONE" /\ Pending(q) = SubSeq(r, 1, i + 1)
         /\ i + 1 = Len(r) => Judged(r, v, q)
  <1> DEFINE s == SubSeq(r, 1, i + 1)
             b == r[i + 1]
  <1>1. r \in Bytes /\ Len(r) \in Nat
    BY DecidedLength DEF Decided
  <1>2. b \in Byte /\ Append(Pending(p), b) = s
    BY <1>1, NextPrefix
  <1> HIDE DEF b
  <1>3. Sound(q) /\ Judged(s, v, q)
    <2>1. q = exlink_parser_feed(p, b) /\ v = FeedResult(p, b)
      BY DEF b
    <2> HIDE DEF s
    <2>2. Sound(q) /\ Judged(Append(Pending(p), b), v, q)
      BY <1>2, <2>1, FeedRecognises
    <2>3. QED
      BY <1>2, <2>2
  <1>4. ASSUME i + 1 < Len(r)
        PROVE  v = "NONE" /\ Pending(q) = s
    <2>1. i + 1 \in 1 .. Len(r) - 1 /\ i + 1 \in 0 .. Len(r)
      BY <1>1, <1>4
    <2>2. s \in Bytes /\ Len(s) = i + 1 /\ \A j \in 1 .. i + 1 : s[j] = r[j]
      BY <1>1, <2>1, Prefixes
    <2> HIDE DEF s
    <2>3. ~ TooLong(s) /\ ~ Complete(s) /\ LongestBeginning(s) = s
      BY <2>1, <2>2, PrefixUndecided
    <2>4. QED
      BY <1>3, <2>3 DEF Judged
  <1>5. ASSUME i + 1 = Len(r)
        PROVE  Judged(r, v, q)
    <2>1. SubSeq(r, 1, Len(r)) = r
      BY <1>1, SubSeqFull DEF Bytes
    <2>2. QED
      BY <1>3, <1>5, <2>1
  <1>6. QED
    BY <1>3, <1>4, <1>5

(* What exlink_frame_build makes of a payload that fits is such a string,  *)
(* with the operation, the length and the payload it was made of, and      *)
(* intact.                                                                 *)
LEMMA BuiltFrame ==
  ASSUME NEW op \in Byte, NEW payload \in Bytes, Len(payload) <= EXLINK_MAX_PAYLOAD,
         NEW r, r = exlink_frame_build(op, payload, EXLINK_MAX_FRAME)
  PROVE  /\ Decided(r) /\ Complete(r) /\ ~ TooLong(r) /\ Intact(r)
         /\ Len(r) = EXLINK_FRAME_OVERHEAD + Len(payload)
         /\ r[3] = op /\ Announced(r) = Len(payload)
         /\ SubSeq(Body(r), 6, Len(Body(r))) = payload
  <1> DEFINE n    == Len(payload)
             p    == [exlink_parser_init EXCEPT !.op = op, !.len = n, !.payload = payload]
             body == Header(p) \o payload
             crc  == Value[exlink_crc16(body)]
             low  == LowByte(crc)
             high == HighByte(crc)
  <1>1. n \in Nat /\ n \in Word
    <2>1. n \in Nat
      BY LenProperties DEF Bytes
    <2>2. EXLINK_MAX_PAYLOAD \in Nat /\ EXLINK_MAX_PAYLOAD <= 65535
      BY MaxPayloadAssumption, SMTT(30)
    <2>3. n <= 65535
      BY <2>1, <2>2
    <2>4. QED
      BY <2>1, <2>3, InWord
  <1>2. p \in Parser /\ p.op = op /\ p.len = n /\ p.payload = payload
    <2> HIDE DEF n
    <2>1. exlink_parser_init \in Parser
      BY InitSound DEF Sound
    <2>2. QED
      BY <1>1, <2>1 DEF Parser
  <1> HIDE DEF p
  <1>3. Header(p) = <<EXLINK_MAGIC0, EXLINK_MAGIC1, op, LowByte(n), HighByte(n)>>
    BY <1>2 DEF Header
  <1>4. r = body \o <<low, high>>
    <2>1. ~ (n > EXLINK_MAX_PAYLOAD \/ EXLINK_FRAME_OVERHEAD + n > EXLINK_MAX_FRAME)
      BY <1>1, WordsAreNaturals
      DEF EXLINK_FRAME_OVERHEAD, EXLINK_MAX_FRAME, EXLINK_HEADER_LEN, EXLINK_CRC_LEN
    <2>2. QED
      BY <1>3, <2>1 DEF exlink_frame_build
  <1>5. body \in Bytes /\ exlink_crc16(body) \in Register
    <2>1. body \in Bytes
      BY <1>2, AfterHeader
    <2> HIDE DEF body
    <2>2. Len(body) \in Nat
      BY <2>1, LenProperties DEF Bytes
    <2>3. QED
      BY <2>1, <2>2, CrcSums
  <1> HIDE DEF body
  <1>6. /\ crc \in Word /\ Bits(crc) = exlink_crc16(body)
        /\ low \in Byte /\ high \in Byte /\ low + 256 * high = crc
    BY <1>5, BitsOfValue, BytesOfWord
  <1> HIDE DEF crc, low, high
  <1>7. r = Whole(p, low, high)
    <2>1. Append(<<low>>, high) = <<low, high>> /\ <<low>> \in Bytes
      BY <1>6, Headers
    <2>2. Append(body, low) = body \o <<low>>
      BY <1>5, <1>6, AppendIsConcat DEF Bytes
    <2>3. Append(body \o <<low>>, high) = body \o Append(<<low>>, high)
      BY <1>5, <1>6, <2>1, AppendConcat
    <2>4. QED
      BY <1>2, <1>4, <2>1, <2>2, <2>3 DEF Whole, body
  <1>8. p \in Parser /\ p.len \in Nat /\ Len(p.payload) = p.len /\ low \in Byte /\ high \in Byte
    BY <1>1, <1>2, <1>6
  <1>9. Parts(r, p, low, high)
    BY <1>7, <1>8, WholeFrame
  <1>10. /\ r \in Bytes /\ Len(r) = 7 + p.len /\ MayBegin(r) /\ Complete(r) /\ ~ TooLong(r)
         /\ r[3] = p.op /\ Announced(r) = p.len
    BY <1>9 DEF Parts
  <1>11. r[Len(r) - 1] = low /\ r[Len(r)] = high
    BY <1>9 DEF Parts
  <1>12. Body(r) = Header(p) \o p.payload
    BY <1>9 DEF Parts
  <1>13. SubSeq(Body(r), 6, Len(Body(r))) = payload
    BY <1>2, <1>12, PayloadOfBody
  <1>14. Intact(r)
    BY <1>2, <1>6, <1>11, <1>12, ZenonT(40) DEF Intact, body
  <1>15. Decided(r)
    <2>1. Len(r) >= EXLINK_HEADER_LEN
      BY <1>8, <1>10 DEF EXLINK_HEADER_LEN
    <2>2. Announced(r) <= EXLINK_MAX_PAYLOAD
      BY <1>2, <1>10
    <2>3. QED
      BY <1>10, <2>1, <2>2 DEF Decided
  <1>16. Len(r) = EXLINK_FRAME_OVERHEAD + n
    BY <1>2, <1>10 DEF EXLINK_FRAME_OVERHEAD, EXLINK_HEADER_LEN, EXLINK_CRC_LEN
  <1>17. QED
    BY <1>2, <1>10, <1>13, <1>14, <1>15, <1>16

(* What a sound parser has pending is a byte string. *)
LEMMA PendingBytes ==
  ASSUME NEW p, Sound(p)
  PROVE  Pending(p) \in Bytes
  <1>1. p \in Parser /\ p.state \in States /\ p.op \in Byte /\ p.payload \in Bytes
    BY ParserFields DEF Sound
  <1>2. CASE p.state \in {"MAGIC0", "MAGIC1", "OP", "LEN_LO"}
    BY <1>1, <1>2, Headers, Magics DEF Pending
  <1>3. CASE p.state = "LEN_HI"
    <2>1. p.len \in Byte
      BY <1>3 DEF Sound, HalfRead
    <2>2. QED
      BY <1>1, <1>3, <2>1, Headers, Magics DEF Pending
  <1>4. CASE p.state \in {"PAYLOAD", "CRC_LO", "CRC_HI"}
    <2>1. Header(p) \o p.payload \in Bytes
      BY <1>1, AfterHeader
    <2>2. CASE p.state \in {"PAYLOAD", "CRC_LO"}
      BY <2>1, <2>2 DEF Pending
    <2>3. CASE p.state = "CRC_HI"
      <3>1. p.crc_rx \in Byte
        BY <2>3 DEF Sound, HalfRead
      <3>2. Append(Header(p) \o p.payload, p.crc_rx) \in Bytes
        BY <2>1, <3>1, AppendProperties DEF Bytes
      <3>3. QED
        BY <2>3, <3>2 DEF Pending
    <2>4. QED
      BY <1>4, <2>2, <2>3
  <1>5. QED
    BY <1>1, <1>2, <1>3, <1>4 DEF States

(* A slice of a string, and a slice of a slice. *)
LEMMA Slices ==
  ASSUME NEW r \in Bytes, NEW a \in 0 .. Len(r), NEW b \in a .. Len(r)
  PROVE  /\ SubSeq(r, a + 1, b) \in Bytes
         /\ Len(SubSeq(r, a + 1, b)) = b - a
         /\ \A j \in 1 .. b - a : SubSeq(r, a + 1, b)[j] = r[a + j] /\ r[a + j] \in Byte
  <1>1. Len(r) \in Nat /\ a \in Nat /\ b \in Nat /\ a <= b /\ b <= Len(r)
    BY LenProperties DEF Bytes
  <1>2. \A j \in a + 1 .. b : r[j] \in Byte
    BY <1>1, ElementOfSeq DEF Bytes
  <1> DEFINE s == SubSeq(r, a + 1, b)
  <1>3. /\ s \in Bytes
        /\ Len(s) = IF a + 1 <= b THEN b - (a + 1) + 1 ELSE 0
        /\ \A j \in 1 .. b - (a + 1) + 1 : s[j] = r[(a + 1) + j - 1]
    <2>1. a + 1 \in Int /\ b \in Int
      BY <1>1
    <2>2. QED
      BY <1>2, <2>1, SubSeqProperties DEF Bytes
  <1> HIDE DEF s
  <1>4. /\ b - (a + 1) + 1 = b - a
        /\ \A j \in 1 .. b - a : (a + 1) + j - 1 = a + j /\ a + j \in a + 1 .. b
    BY <1>1
  <1>5. Len(s) = b - a
    BY <1>1, <1>3
  <1>6. \A j \in 1 .. b - a : s[j] = r[a + j] /\ r[a + j] \in Byte
    BY <1>2, <1>3, <1>4
  <1>7. QED
    BY <1>3, <1>5, <1>6 DEF s

LEMMA SliceOfSlice ==
  ASSUME NEW r \in Bytes, NEW a \in 0 .. Len(r), NEW b \in a .. Len(r),
         NEW c \in 0 .. b - a, NEW d \in c .. b - a
  PROVE  SubSeq(SubSeq(r, a + 1, b), c + 1, d) = SubSeq(r, a + c + 1, a + d)
  <1>1. Len(r) \in Nat /\ a \in Nat /\ b \in Nat /\ c \in Nat /\ d \in Nat /\ c <= d
    BY LenProperties DEF Bytes
  <1> DEFINE s == SubSeq(r, a + 1, b)
             t == SubSeq(s, c + 1, d)
             u == SubSeq(r, a + c + 1, a + d)
  <1>2. /\ s \in Bytes /\ Len(s) = b - a
        /\ \A j \in 1 .. b - a : s[j] = r[a + j]
    BY Slices
  <1> HIDE DEF s
  <1>3. t \in Bytes /\ Len(t) = d - c /\ \A j \in 1 .. d - c : t[j] = s[c + j]
    <2>1. c \in 0 .. Len(s) /\ d \in c .. Len(s)
      BY <1>1, <1>2
    <2>2. QED
      BY <1>2, <2>1, Slices
  <1>4. /\ u \in Bytes /\ Len(u) = (a + d) - (a + c)
        /\ \A j \in 1 .. (a + d) - (a + c) : u[j] = r[(a + c) + j]
    <2>1. a + c \in 0 .. Len(r) /\ a + d \in a + c .. Len(r)
      BY <1>1
    <2>2. QED
      BY <2>1, Slices
  <1> HIDE DEF t, u
  <1>5. (a + d) - (a + c) = d - c /\ d - c \in Nat
    BY <1>1
  <1>6. \A j \in 1 .. d - c : c + j \in 1 .. b - a /\ (a + c) + j = a + (c + j)
    BY <1>1
  <1>7. \A j \in 1 .. d - c : t[j] = u[j]
    BY <1>2, <1>3, <1>4, <1>5, <1>6
  <1>8. t = u
    BY <1>3, <1>4, <1>5, <1>7, SeqEqual DEF Bytes
  <1>9. QED
    BY <1>8 DEF t, u, s

(* A complete frame is its header, its payload and its checksum.           *)
Pieces(r) ==
  /\ Len(r) = 7 + Announced(r) /\ Announced(r) \in Nat
  /\ r[3] \in Byte /\ r[4] \in Byte /\ r[5] \in Byte
  /\ r[Len(r) - 1] \in Byte /\ r[Len(r)] \in Byte
  /\ Body(r) \in Bytes /\ Len(Body(r)) = 5 + Announced(r)
  /\ \A j \in 1 .. 5 + Announced(r) : Body(r)[j] = r[j]
  /\ SubSeq(Body(r), 6, Len(Body(r))) = SubSeq(r, 6, Len(r) - 2)
  /\ SubSeq(r, 6, Len(r) - 2) \in Bytes
  /\ Len(SubSeq(r, 6, Len(r) - 2)) = Announced(r)
  /\ \A j \in 1 .. Announced(r) : SubSeq(r, 6, Len(r) - 2)[j] = r[5 + j]

LEMMA FramePieces ==
  ASSUME NEW r, Decided(r), Complete(r)
  PROVE  Pieces(r)
  <1> DEFINE n == Announced(r)
  <1>1. r \in Bytes /\ n \in Nat
    BY DecidedLength DEF Decided
  <1>2. Len(r) = 7 + n
    BY <1>1 DEF Complete, EXLINK_FRAME_OVERHEAD, EXLINK_HEADER_LEN, EXLINK_CRC_LEN
  <1> HIDE DEF n
  <1>3. \A j \in 1 .. Len(r) : r[j] \in Byte
    BY <1>1, ElementOfSeq DEF Bytes
  <1>4. /\ r[3] \in Byte /\ r[4] \in Byte /\ r[5] \in Byte
        /\ r[Len(r) - 1] \in Byte /\ r[Len(r)] \in Byte
    BY <1>1, <1>2, <1>3
  <1>5. /\ 0 \in 0 .. Len(r) /\ 5 + n \in 0 .. Len(r) /\ 5 \in 0 .. 5 + n
        /\ 5 + n \in 5 .. 5 + n /\ 5 \in 0 .. Len(r) /\ 5 + n \in 5 .. Len(r)
        /\ Len(r) - 2 = 5 + n /\ (5 + n) - 5 = n /\ (5 + n) - 0 = 5 + n
        /\ 0 + 5 + 1 = 6 /\ 0 + (5 + n) = 5 + n /\ 5 + 1 = 6 /\ 0 + 1 = 1
    BY <1>1, <1>2
  <1>6. Body(r) = SubSeq(r, 0 + 1, 5 + n)
    BY <1>5 DEF Body, EXLINK_CRC_LEN
  <1>7. /\ Body(r) \in Bytes /\ Len(Body(r)) = 5 + n
        /\ \A j \in 1 .. 5 + n : Body(r)[j] = r[j]
    <2>1. /\ SubSeq(r, 1, 5 + n) \in Bytes /\ Len(SubSeq(r, 1, 5 + n)) = 5 + n
          /\ \A j \in 1 .. 5 + n : SubSeq(r, 1, 5 + n)[j] = r[j]
      BY <1>1, <1>5, Prefixes
    <2>2. QED
      BY <1>5, <1>6, <2>1
  <1>8. SubSeq(Body(r), 6, 5 + n) = SubSeq(r, 6, 5 + n)
    <2>1. SubSeq(SubSeq(r, 0 + 1, 5 + n), 5 + 1, 5 + n) = SubSeq(r, 0 + 5 + 1, 0 + (5 + n))
      <3>1. 5 \in 0 .. (5 + n) - 0 /\ 5 + n \in 5 .. (5 + n) - 0
        BY <1>5
      <3>2. QED
        BY <1>1, <1>5, <3>1, SliceOfSlice
    <2>2. QED
      BY <1>5, <1>6, <2>1
  <1>9. /\ SubSeq(r, 6, 5 + n) \in Bytes /\ Len(SubSeq(r, 6, 5 + n)) = n
        /\ \A j \in 1 .. n : SubSeq(r, 6, 5 + n)[j] = r[5 + j]
    <2>1. /\ SubSeq(r, 5 + 1, 5 + n) \in Bytes /\ Len(SubSeq(r, 5 + 1, 5 + n)) = (5 + n) - 5
          /\ \A j \in 1 .. (5 + n) - 5 : SubSeq(r, 5 + 1, 5 + n)[j] = r[5 + j]
      BY <1>1, <1>5, Slices
    <2>2. QED
      BY <1>5, <2>1
  <1>10. QED
    BY <1>1, <1>2, <1>4, <1>5, <1>7, <1>8, <1>9 DEF Pieces, n

LEMMA SameFrame ==
  ASSUME NEW r, Decided(r), Complete(r), Intact(r),
         NEW f, Decided(f), Complete(f), Intact(f),
         f[3] = r[3], Announced(f) = Announced(r),
         SubSeq(f, 6, Len(f) - 2) = SubSeq(r, 6, Len(r) - 2)
  PROVE  f = r
  <1> DEFINE n == Announced(r)
  <1>1. Pieces(r) /\ Pieces(f)
    BY FramePieces
  <1>2. /\ n \in Nat /\ Len(r) = 7 + n /\ Len(f) = 7 + n
        /\ Len(Body(r)) = 5 + n /\ Len(Body(f)) = 5 + n
        /\ Body(r) \in Bytes /\ Body(f) \in Bytes
    BY <1>1 DEF Pieces
  <1>3. f[1] = r[1] /\ f[2] = r[2]
    BY DecidedLength
  <1>4. f[4] = r[4] /\ f[5] = r[5]
    <2>1. /\ r[4] \in Byte /\ r[5] \in Byte /\ f[4] \in Byte /\ f[5] \in Byte
          /\ r[4] + 256 * r[5] = f[4] + 256 * f[5]
      BY <1>1 DEF Pieces, Announced
    <2>2. QED
      BY <2>1, TwoBytes
  <1>5. \A j \in 1 .. n : f[5 + j] = r[5 + j]
    BY <1>1 DEF Pieces
  <1> HIDE DEF n
  <1>6. \A j \in 1 .. 5 + n : f[j] = r[j]
    <2> SUFFICES ASSUME NEW j \in 1 .. 5 + n PROVE f[j] = r[j]
      OBVIOUS
    <2>1. CASE j \in 1 .. 5
      BY <1>3, <1>4, <2>1
    <2>2. CASE j \notin 1 .. 5
      <3>1. j - 5 \in 1 .. n /\ 5 + (j - 5) = j
        BY <1>2, <2>2
      <3>2. QED
        BY <1>5, <3>1
    <2>3. QED
      BY <2>1, <2>2
  <1>7. Body(f) = Body(r)
    <2>1. \A j \in 1 .. 5 + n : Body(f)[j] = Body(r)[j]
      BY <1>1, <1>6 DEF Pieces, n
    <2>2. QED
      BY <1>2, <2>1, SeqEqual DEF Bytes
  <1>8. f[6 + n] = r[6 + n] /\ f[7 + n] = r[7 + n]
    <2>1. (7 + n) - 1 = 6 + n
      BY <1>2
    <2>2. /\ r[6 + n] \in Byte /\ r[7 + n] \in Byte /\ f[6 + n] \in Byte /\ f[7 + n] \in Byte
      BY <1>1, <1>2, <2>1 DEF Pieces
    <2>3. Bits(r[6 + n] + 256 * r[7 + n]) = Bits(f[6 + n] + 256 * f[7 + n])
      BY <1>2, <1>7, <2>1, ZenonT(40) DEF Intact
    <2>4. r[6 + n] + 256 * r[7 + n] = f[6 + n] + 256 * f[7 + n]
      <3> DEFINE x == r[6 + n] + 256 * r[7 + n]
                 y == f[6 + n] + 256 * f[7 + n]
      <3>1. x \in Word /\ y \in Word
        BY <2>2, TwoBytes
      <3>2. Bits(x) = Bits(y)
        BY <2>3
      <3> HIDE DEF x, y
      <3>3. x = Value[Bits(x)] /\ y = Value[Bits(y)]
        BY <3>1, ValueOfBits
      <3>4. x = y
        BY <3>2, <3>3
      <3>5. QED
        BY <3>4 DEF x, y
    <2>5. QED
      BY <2>2, <2>4, TwoBytes
  <1>9. \A j \in 1 .. 7 + n : f[j] = r[j]
    <2>1. \A j \in 1 .. 7 + n : j \in 1 .. 5 + n \/ j = 6 + n \/ j = 7 + n
      BY <1>2
    <2>2. QED
      BY <1>6, <1>8, <2>1
  <1>10. r \in Seq(Byte) /\ f \in Seq(Byte)
    BY DEF Decided, Bytes
  <1>11. QED
    BY <1>2, <1>9, <1>10, SeqEqual

(* The parser accepts what the builder makes and nothing else: a complete  *)
(* frame has the right checksum just when it is the frame                  *)
(* exlink_frame_build makes of its opcode and its payload.                 *)
THEOREM IntactIsBuilt ==
  ASSUME NEW r, Decided(r), Complete(r), Announced(r) <= EXLINK_MAX_PAYLOAD
  PROVE  Intact(r) <=>
           r = exlink_frame_build(r[3], SubSeq(r, 6, Len(r) - 2), EXLINK_MAX_FRAME)
  <1> DEFINE payload == SubSeq(r, 6, Len(r) - 2)
             f       == exlink_frame_build(r[3], payload, EXLINK_MAX_FRAME)
  <1>1. Pieces(r)
    BY FramePieces
  <1>2. r[3] \in Byte /\ payload \in Bytes /\ Len(payload) = Announced(r)
    BY <1>1 DEF Pieces
  <1> HIDE DEF payload
  <1>3. /\ Decided(f) /\ Complete(f) /\ Intact(f)
        /\ f[3] = r[3] /\ Announced(f) = Announced(r)
        /\ SubSeq(Body(f), 6, Len(Body(f))) = payload
    BY <1>2, BuiltFrame
  <1> HIDE DEF f
  <1>4. SubSeq(f, 6, Len(f) - 2) = payload
    <2>1. Pieces(f)
      BY <1>3, FramePieces
    <2>2. QED
      BY <1>3, <2>1 DEF Pieces
  <1>5. Intact(r) => f = r
    BY <1>3, <1>4, SameFrame DEF payload
  <1>6. QED
    BY <1>3, <1>5 DEF f, payload
=============================================================================
