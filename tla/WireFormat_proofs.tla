-------------------------- MODULE WireFormat_proofs --------------------------
(***************************************************************************)
(* Proofs about WireFormat: what becomes of a number on the wire, for      *)
(* every number of 32 bits.                                                *)
(***************************************************************************)
EXTENDS WireFormat, SequenceTheorems, TLAPS

\* The values of a uint32_t.
Word == {n \in Nat : n < 4294967296}

\* The four bytes of a number determine it.
LEMMA BytesField ==
    ASSUME NEW n \in Word
    PROVE  /\ Bytes(n) \in Seq(Byte) /\ Len(Bytes(n)) = 4
           /\ \A i \in 1..4 : Bytes(n)[i] \in Byte
           /\ Value(Bytes(n)) = n
<1> DEFINE q1 == n \div 256
           q2 == n \div 65536
           q3 == n \div 16777216
<1>0. n \in Nat /\ n < 4294967296
  BY SMT DEF Word
<1>1. q1 \in Nat /\ q2 = q1 \div 256 /\ q2 \in Nat /\ q3 = q2 \div 256 /\ q3 \in Nat
  BY <1>0, SMT
<1>2. n = (n % 256) + 256 * q1 /\ n % 256 \in Byte
  BY <1>0, SMT DEF Byte
<1>3. q1 = (q1 % 256) + 256 * q2 /\ q1 % 256 \in Byte
  BY <1>1, SMT DEF Byte
<1>4. q2 = (q2 % 256) + 256 * q3 /\ q2 % 256 \in Byte
  BY <1>1, SMT DEF Byte
<1>5. q3 < 256
  BY <1>0, SMT
<1>6. q3 % 256 = q3 /\ q3 \in Byte
  BY <1>1, <1>5, SMT DEF Byte
<1>7. Bytes(n) = <<n % 256, q1 % 256, q2 % 256, q3 % 256>>
  BY SMT DEF Bytes
<1> DEFINE b1 == n % 256
           b2 == q1 % 256
           b3 == q2 % 256
           b4 == q3 % 256
<1>8. /\ b1 \in Byte /\ b2 \in Byte /\ b3 \in Byte /\ b4 \in Byte
      /\ n = b1 + 256 * q1 /\ q1 = b2 + 256 * q2 /\ q2 = b3 + 256 * q3 /\ q3 = b4
  BY <1>2, <1>3, <1>4, <1>6, SMT
<1> HIDE DEF b1, b2, b3, b4, q1, q2, q3
<1>9. b1 + 256 * b2 + 65536 * b3 + 16777216 * b4 = n
  BY <1>1, <1>8, SMT DEF Byte
<1>10. /\ Bytes(n) \in Seq(Byte) /\ Len(Bytes(n)) = 4
       /\ Bytes(n)[1] = b1 /\ Bytes(n)[2] = b2 /\ Bytes(n)[3] = b3 /\ Bytes(n)[4] = b4
  BY <1>7, <1>8, SMT DEF b1, b2, b3, b4
<1> QED
  BY <1>8, <1>9, <1>10, SMT DEF Value

\* A C string ends at the first zero byte.
LEMMA LengthFound ==
    ASSUME NEW b, \A i \in 1..4 : b[i] \in Byte
    PROVE  StringLength(b) = IF b[1] = 0 THEN 0 ELSE IF b[2] = 0 THEN 1
                             ELSE IF b[3] = 0 THEN 2 ELSE IF b[4] = 0 THEN 3 ELSE 4
<1> DEFINE Ends(k) == (\A i \in 1..k : b[i] # 0) /\ (k = 4 \/ b[k + 1] = 0)
           n == IF b[1] = 0 THEN 0 ELSE IF b[2] = 0 THEN 1
                ELSE IF b[3] = 0 THEN 2 ELSE IF b[4] = 0 THEN 3 ELSE 4
<1>1. n \in 0..4 /\ Ends(n)
  OBVIOUS
<1>2. ASSUME NEW k \in 0..4, Ends(k)
      PROVE  k = n
  <2>1. ~(k < n)
    BY <1>1, <1>2
  <2>2. ~(n < k)
    BY <1>1, <1>2
  <2> QED
    BY <1>1, <2>1, <2>2
<1> HIDE DEF n
<1>3. StringLength(b) = n
  BY <1>1, <1>2 DEF StringLength
<1> QED
  BY <1>3 DEF n

\* Padding to four bytes adds zeros only.
LEMMA Padded ==
    ASSUME NEW s \in Seq(Byte), NEW n \in 0..4, Len(s) = n
    PROVE  /\ Len(padString(s, 4)) = 4
           /\ \A i \in 1..4 : padString(s, 4)[i] = IF i <= n THEN s[i] ELSE 0
<1> DEFINE p == padString(s, 4)
<1>1. CASE n = 4
  <2>1. p = s
    BY <1>1, SMT DEF padString
  <2> HIDE DEF p
  <2>2. Len(p) = 4 /\ \A i \in 1..4 : p[i] = IF i <= n THEN s[i] ELSE 0
    BY <1>1, <2>1, SMT
  <2> QED
    BY <2>2, Zenon DEF p
<1>2. CASE n < 4
  <2> DEFINE z == [i \in 1..(4 - n) |-> 0]
  <2>1. 4 - n \in Nat
    BY <1>2, SMT
  <2>2. z \in Seq(Byte) /\ Len(z) = 4 - n
    BY <2>1, SMT DEF Byte
  <2>3. p = s \o z
    BY <1>2, SMT DEF padString
  <2>4. \A i \in 1..(4 - n) : z[i] = 0
    BY SMT
  <2> HIDE DEF z, p
  <2>5. /\ Len(s \o z) = 4
        /\ \A i \in 1..4 : (s \o z)[i] = IF i <= n THEN s[i] ELSE z[i - n]
    BY <2>1, <2>2, ConcatProperties, SMT
  <2>6. Len(p) = 4 /\ \A i \in 1..4 : p[i] = IF i <= n THEN s[i] ELSE 0
    BY <2>1, <2>3, <2>4, <2>5, SMT
  <2> QED
    BY <2>6, Zenon DEF p
<1>3. n = 4 \/ n < 4
  BY SMT
<1> QED
  BY <1>1, <1>2, <1>3, Zenon

\* numberToBytes keeps the bytes before the cut.
LEMMA Cut ==
    ASSUME NEW b \in Seq(Byte), Len(b) = 4, NEW k \in 0..4
    PROVE  /\ SubSeq(b, 1, k) \in Seq(Byte) /\ Len(SubSeq(b, 1, k)) = k
           /\ \A i \in 1..k : SubSeq(b, 1, k)[i] = b[i]
<1> DEFINE s == SubSeq(b, 1, k)
<1>1. \A i \in 1..k : b[i] \in Byte
  <2>1. \A i \in 1..k : i \in 1..Len(b)
    BY SMT
  <2> QED
    BY <2>1, ElementOfSeq, Zenon
<1>2. /\ s \in Seq(Byte)
      /\ Len(s) = IF 1 <= k THEN k - 1 + 1 ELSE 0
      /\ \A i \in 1..(k - 1 + 1) : s[i] = b[1 + i - 1]
  BY <1>1, SubSeqProperties
<1> HIDE DEF s
<1>3. Len(s) = k /\ \A i \in 1..k : s[i] = b[i]
  BY <1>2, SMT
<1> QED
  BY <1>2, <1>3 DEF s

\* The bytes that arrive: those before the first zero byte, then zeros.
LEMMA ArrivesBytes ==
    ASSUME NEW n \in Word
    PROVE  LET b == Bytes(n)
               k == StringLength(b)
           IN  Arrives(n) = (IF 1 <= k THEN b[1] ELSE 0) + 256 * (IF 2 <= k THEN b[2] ELSE 0)
                 + 65536 * (IF 3 <= k THEN b[3] ELSE 0) + 16777216 * (IF 4 <= k THEN b[4] ELSE 0)
<1> DEFINE b == Bytes(n)
           k == StringLength(b)
           s == SubSeq(b, 1, k)
           p == padString(s, 4)
<1>1. b \in Seq(Byte) /\ Len(b) = 4 /\ \A i \in 1..4 : b[i] \in Byte
  BY BytesField
<1>2. k \in 0..4
  <2> HIDE DEF b
  <2> QED
    BY <1>1, LengthFound, SMT
<1>3. s \in Seq(Byte) /\ Len(s) = k /\ \A i \in 1..k : s[i] = b[i]
  <2> HIDE DEF b, k
  <2> QED
    BY <1>1, <1>2, Cut
<1>4. \A i \in 1..4 : p[i] = IF i <= k THEN s[i] ELSE 0
  <2> HIDE DEF s, k
  <2> QED
    BY <1>2, <1>3, Padded, Zenon
<1>5. Arrives(n) = p[1] + 256 * p[2] + 65536 * p[3] + 16777216 * p[4]
  BY SMT DEF Arrives, Value, numberToBytes
<1> HIDE DEF b, k, s, p
<1>6. Arrives(n) = (IF 1 <= k THEN b[1] ELSE 0) + 256 * (IF 2 <= k THEN b[2] ELSE 0)
        + 65536 * (IF 3 <= k THEN b[3] ELSE 0) + 16777216 * (IF 4 <= k THEN b[4] ELSE 0)
  BY <1>2, <1>3, <1>4, <1>5, SMT
<1> QED
  BY <1>6, SMT DEF k, b

\* What the server reads for any 32-bit number a client sends is the remainder of
\* the number by the power of 256 its lowest zero byte stands for: numberToBytes
\* loses the bytes above it, and no others.
THEOREM RemainderRead == \A n \in Word : RemainderArrives(n)
<1> SUFFICES ASSUME NEW n \in Word
             PROVE  RemainderArrives(n)
  OBVIOUS
<1> DEFINE b == Bytes(n)
           k == StringLength(b)
<1>1. \A i \in 1..4 : b[i] \in Byte
  BY BytesField
<1>2. k = IF b[1] = 0 THEN 0 ELSE IF b[2] = 0 THEN 1
          ELSE IF b[3] = 0 THEN 2 ELSE IF b[4] = 0 THEN 3 ELSE 4
  <2> HIDE DEF b
  <2> QED
    BY <1>1, LengthFound
<1>3. n = b[1] + 256 * b[2] + 65536 * b[3] + 16777216 * b[4]
  BY BytesField, SMT DEF Value
<1>4. Arrives(n) = (IF 1 <= k THEN b[1] ELSE 0) + 256 * (IF 2 <= k THEN b[2] ELSE 0)
        + 65536 * (IF 3 <= k THEN b[3] ELSE 0) + 16777216 * (IF 4 <= k THEN b[4] ELSE 0)
  BY ArrivesBytes, SMT
<1>5. b[1] = n % 256 /\ b[2] = (n \div 256) % 256 /\ b[3] = (n \div 65536) % 256
  BY SMT DEF Bytes
<1> HIDE DEF b, k
<1>6. /\ b[1] \in Nat /\ b[2] \in Nat /\ b[3] \in Nat /\ b[4] \in Nat
      /\ b[1] < 256 /\ b[2] < 256 /\ b[3] < 256
  BY <1>1, SMT DEF Byte
<1>7. Arrives(n) = IF b[1] = 0 THEN 0 ELSE IF b[2] = 0 THEN b[1]
                   ELSE IF b[3] = 0 THEN b[1] + 256 * b[2] ELSE n
  BY <1>2, <1>3, <1>4, <1>6, SMT
<1>8. b[1] + 256 * b[2] = n % 65536
  <2>1. n \in Nat
    BY SMT DEF Word
  <2>2. n % 65536 = (n % 256) + 256 * ((n \div 256) % 256)
    BY <2>1, SMT
  <2> QED
    BY <1>5, <2>2, SMT
<1> QED
  BY <1>5, <1>7, <1>8, SMT DEF RemainderArrives

\* Below 65536 only a low byte that is zero loses anything.
LEMMA SmallArrives ==
    ASSUME NEW n \in Nat, n < 65536
    PROVE  Arrives(n) = IF n % 256 = 0 THEN 0 ELSE n
<1>1. n \in Word
  BY SMT DEF Word
<1>2. RemainderArrives(n)
  BY <1>1, RemainderRead
<1>3. (n \div 256) % 256 = 0 => n % 256 = n
  BY SMT
<1>4. (n \div 65536) % 256 = 0 => n % 65536 = n
  BY SMT
<1>5. n \div 65536 = 0
  BY SMT
<1> QED
  BY <1>2, <1>3, <1>4, <1>5, SMT DEF RemainderArrives

\* For every file below 64 KB - 291 the server handles the request or closes the
\* connection, and it closes it for one encrypted size in sixteen: such a file can
\* never be sent.
THEOREM SmallFilesFate == \A size \in Nat : SmallFileFate(size)
<1> SUFFICES ASSUME NEW size \in Nat, size < 65536 - 291
             PROVE  FileFate(size) = IF EncryptedSize(size) % 256 = 0 THEN "illegal" ELSE "handled"
  BY SMT DEF SmallFileFate
<1> DEFINE enc == EncryptedSize(size)
           q == size \div 16
<1>1. q \in Nat /\ enc = 16 * (q + 1) /\ 16 * q <= size
  BY SMT DEF EncryptedSize
<1> HIDE DEF q, enc
<1>2. enc \in Nat /\ enc > 0 /\ PREFIX_LEN + enc \in Nat /\ PREFIX_LEN + enc < 65536 /\ enc < 65536
  BY <1>1, SMT DEF PREFIX_LEN
<1>3. (PREFIX_LEN + enc) % 256 # 0
  BY <1>1, SMT DEF PREFIX_LEN
<1>4. Arrives(PREFIX_LEN + enc) = PREFIX_LEN + enc
  BY <1>2, <1>3, SmallArrives, SMT
<1>5. Arrives(enc) = IF enc % 256 = 0 THEN 0 ELSE enc
  BY <1>2, SmallArrives, SMT
<1>6. FileFate(size) = IF enc % 256 = 0 THEN "illegal" ELSE "handled"
  BY <1>2, <1>4, <1>5, SMT DEF FileFate, enc
<1> QED
  BY <1>6, SMT DEF enc

\* The replies have no such gap: whatever the sign of a byte as a char, the client
\* reads every number the server packs in one, two or four bytes, the CRC it compares
\* among them, as it was; the cast to uint8_t takes back the bits that filled the int.
THEOREM RepliesRead ==
    \A len \in {1, 2, 4} : \A w \in SUBSET (0..(8 * len - 1)) : Returns(w, len) = w
<1> SUFFICES ASSUME NEW len \in {1, 2, 4}, NEW w \in SUBSET (0..(8 * len - 1))
             PROVE  Returns(w, len) = w
  OBVIOUS
<1>1. ASSUME NEW i \in 0..(len - 1)
      PROVE  ShiftLeft(Operand(pack(w, len)[i]), 8 * i) =
             {b \in w : 8 * i <= b /\ b <= 8 * i + 7}
  <2>1. Operand(pack(w, len)[i]) = {b \in 0..7 : b + 8 * i \in w}
    BY SMT DEF Operand, OperandSigned, pack
  <2>2. ASSUME NEW c \in w, 8 * i <= c, c <= 8 * i + 7
        PROVE  c \in {b + 8 * i : b \in {a \in 0..7 : a + 8 * i \in w}}
    <3>1. c - 8 * i \in 0..7 /\ (c - 8 * i) + 8 * i = c
      BY <2>2, SMT
    <3>2. c - 8 * i \in {a \in 0..7 : a + 8 * i \in w}
      BY <3>1
    <3> QED
      BY <3>1, <3>2
  <2>3. ASSUME NEW b \in {a \in 0..7 : a + 8 * i \in w}
        PROVE  b + 8 * i \in w /\ 8 * i <= b + 8 * i /\ b + 8 * i <= 8 * i + 7
    BY <2>3, SMT
  <2>4. w \subseteq 0..31 /\ w \subseteq Nat
    BY SMT
  <2>5. ShiftLeft(Operand(pack(w, len)[i]), 8 * i) =
        {b + 8 * i : b \in {a \in 0..7 : a + 8 * i \in w}} \cap 0..31
    BY <2>1, Zenon DEF ShiftLeft
  <2> QED
    BY <2>2, <2>3, <2>4, <2>5, Zenon
<1>2. \A b \in w : \E i \in 0..(len - 1) : 8 * i <= b /\ b <= 8 * i + 7
  <2> SUFFICES ASSUME NEW b \in w
               PROVE  \E i \in 0..(len - 1) : 8 * i <= b /\ b <= 8 * i + 7
    OBVIOUS
  <2>1. b \div 8 \in 0..(len - 1) /\ 8 * (b \div 8) <= b /\ b <= 8 * (b \div 8) + 7
    BY SMT
  <2> QED
    BY <2>1, Zenon
<1>3. UNION {ShiftLeft(Operand(pack(w, len)[i]), 8 * i) : i \in 0..(len - 1)} = w
  <2> DEFINE Part(i) == {b \in w : 8 * i <= b /\ b <= 8 * i + 7}
             Read(i) == ShiftLeft(Operand(pack(w, len)[i]), 8 * i)
  <2>1. \A i \in 0..(len - 1) : Read(i) = Part(i)
    BY <1>1
  <2>2. \A b : b \in w <=> \E i \in 0..(len - 1) : b \in Part(i)
    BY <1>2
  <2> HIDE DEF Part, Read
  <2>3. UNION {Read(i) : i \in 0..(len - 1)} = w
    BY <2>1, <2>2
  <2> QED
    BY <2>3 DEF Read
<1>4. w \cap 0..(8 * len - 1) = w
  OBVIOUS
<1> QED
  BY <1>3, <1>4 DEF Returns, deserialize
=============================================================================
